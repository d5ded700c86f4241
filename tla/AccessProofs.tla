------------------------------ MODULE AccessProofs ------------------------------
(* What is proved of the two things that decide whether a request is served and  *)
(* how well: the licence and the gates.  Of the licence, for every token, every  *)
(* set of keys, every period and every number of refreshes that break: the       *)
(* claims in force are fresh, an enterprise licence has been earned, and it ends.*)
(* Of the gates, for every number of requests and clients, every bucket, rate,   *)
(* interval and limit: the slots are counted exactly, and the sweeper of the     *)
(* buckets gives nothing away but what a race with a request costs.              *)
EXTENDS License, Gates, FiniteSetTheorems, TLAPS

-------------------------------------------------------------------------------
(* The licence *)

\* One more broken refresh is one more period.
LEMMA OneMorePeriod ==
    ASSUME NEW n \in Nat
    PROVE  /\ CacheTTL * ((n + 1) + 1) = CacheTTL * (n + 1) + CacheTTL
           /\ CacheTTL * (0 + 1) = CacheTTL
BY LicenseAssumption, SMT

\* The configuration is read once: what a token grants depends on the date alone.
LEMMA SameGrant ==
    ASSUME UNCHANGED configuration, NEW d, validatedAt' = d
    PROVE  Validate(validatedAt)' = Validate(d)
BY DEF configuration, Validate, Verifies, ResolveKey, ClaimsFor, Grace

LEMMA InitInv == Init => IInv
<1> SUFFICES ASSUME Init PROVE IInv
    OBVIOUS
<1> USE LicenseAssumption DEF Init
<1>1. Configuration
    BY DEF Configuration
<1>2. Clocks
    BY DEF Clocks
<1>3. OnSchedule
    BY OneMorePeriod, 0 \in Nat DEF OnSchedule
<1>4. claims = Validate(validatedAt)
    OBVIOUS
<1>5. GaugesAgree
    BY DEF GaugesAgree
<1> QED
    BY <1>1, <1>2, <1>3, <1>4, <1>5 DEF IInv

LEMMA StepInv == IInv /\ [Next]_vars => IInv'
<1> SUFFICES ASSUME IInv, [Next]_vars PROVE IInv'
    OBVIOUS
<1> USE LicenseAssumption
<1>0. Configuration /\ Clocks /\ OnSchedule /\ claims = Validate(validatedAt) /\ GaugesAgree
    BY DEF IInv
<1>1. UNCHANGED configuration
    BY DEF Next, vars, configuration, Day, BeginRefresh, Install, Observe, RefreshBreaks, Over
<1>2. Configuration'
    BY <1>0, <1>1 DEF Configuration, configuration
<1>3. CASE UNCHANGED vars \/ Over
  <2>1. UNCHANGED vars
      BY <1>3 DEF Over
  <2>2. Clocks' /\ OnSchedule' /\ GaugesAgree'
      BY <1>0, <2>1 DEF vars, Clocks, OnSchedule, GaugesAgree, Observed
  <2>3. claims' = Validate(validatedAt)'
      BY <1>0, <1>1, <2>1, SameGrant DEF vars
  <2> QED
      BY <1>2, <2>2, <2>3 DEF IInv
<1>4. CASE Day
  <2>1. Clocks'
      BY <1>0, <1>4 DEF Day, Clocks
  <2>2. OnSchedule'
      BY <1>0, <1>4 DEF Day, Clocks, OnSchedule
  <2>3. claims' = Validate(validatedAt)'
      BY <1>0, <1>1, <1>4, SameGrant DEF Day
  <2>4. GaugesAgree'
      BY <1>0, <1>4 DEF Day, GaugesAgree, Observed
  <2> QED
      BY <1>2, <2>1, <2>2, <2>3, <2>4 DEF IInv
<1>5. CASE BeginRefresh
  <2>1. Clocks'
      BY <1>0, <1>5 DEF BeginRefresh, Clocks
  <2>2. OnSchedule'
      BY <1>0, <1>5 DEF BeginRefresh, Clocks, OnSchedule
  <2>3. claims' = Validate(validatedAt)'
      BY <1>0, <1>1, <1>5, SameGrant DEF BeginRefresh
  <2>4. GaugesAgree'
      BY <1>0, <1>5 DEF BeginRefresh, GaugesAgree
  <2> QED
      BY <1>2, <2>1, <2>2, <2>3, <2>4 DEF IInv
<1>6. CASE Install
  <2>1. Clocks'
      BY <1>0, <1>6 DEF Install, Clocks
  <2>2. OnSchedule'
      BY <1>0, <1>6 DEF Install, Clocks, OnSchedule
  <2>3. claims' = Validate(validatedAt)'
      BY <1>1, <1>6, SameGrant DEF Install
  <2>4. GaugesAgree'
      BY <1>6 DEF Install, GaugesAgree
  <2> QED
      BY <1>2, <2>1, <2>2, <2>3, <2>4 DEF IInv
<1>7. CASE Observe
  <2>1. Clocks'
      BY <1>0, <1>7 DEF Observe, Clocks
  <2>2. CacheTTL * (0 + 1) = CacheTTL
      BY OneMorePeriod, 0 \in Nat
  <2>3. OnSchedule'
      BY <1>0, <1>7, <2>2 DEF Observe, Clocks, OnSchedule
  <2>4. claims' = Validate(validatedAt)'
      BY <1>0, <1>1, <1>7, SameGrant DEF Observe
  <2>5. GaugesAgree'
      BY <1>7 DEF Observe, GaugesAgree, Observed
  <2> QED
      BY <1>2, <2>1, <2>3, <2>4, <2>5 DEF IInv
<1>8. CASE RefreshBreaks
  <2>1. Clocks'
      BY <1>0, <1>8 DEF RefreshBreaks, Clocks
  <2>2. /\ CacheTTL * ((lost + 1) + 1) = CacheTTL * (lost + 1) + CacheTTL
        /\ CacheTTL * (0 + 1) = CacheTTL
      BY <1>0, OneMorePeriod DEF Clocks
  <2>3. nextRefresh <= validatedAt + (CacheTTL * (lost + 1) + CacheTTL)
    <3>1. CacheTTL * (lost + 1) \in Nat
        BY <1>0 DEF Clocks
    <3>2. CASE step = "validate"
        BY <1>0, <3>1, <3>2 DEF Clocks, OnSchedule
    <3>3. CASE step = "observe"
        BY <1>0, <3>1, <3>3 DEF Clocks, OnSchedule
    <3> QED
        BY <1>8, <3>2, <3>3 DEF RefreshBreaks
  <2>4. now <= nextRefresh
      BY <1>0, <1>8 DEF RefreshBreaks, Clocks, OnSchedule
  <2>5. OnSchedule'
      BY <1>8, <2>2, <2>3, <2>4 DEF RefreshBreaks, OnSchedule
  <2>6. claims' = Validate(validatedAt)'
      BY <1>0, <1>1, <1>8, SameGrant DEF RefreshBreaks
  <2>7. GaugesAgree'
      BY <1>0, <1>8 DEF RefreshBreaks, GaugesAgree, Clocks
  <2> QED
      BY <1>2, <2>1, <2>5, <2>6, <2>7 DEF IInv
<1> QED
    BY <1>3, <1>4, <1>5, <1>6, <1>7, <1>8 DEF Next

\* In every state: the clocks are in order, the refresher is on schedule, and the
\* claims are what the token granted when it was last validated (Manager.refresh).
THEOREM Invariance == Spec => []IInv
<1>1. Init => IInv
    BY InitInv
<1>2. IInv /\ [Next]_vars => IInv'
    BY StepInv
<1> QED
    BY <1>1, <1>2, PTL DEF Spec

LEMMA FreshFromInv == IInv => ClaimsFresh
<1> SUFFICES ASSUME IInv PROVE ClaimsFresh
    OBVIOUS
<1> USE LicenseAssumption DEF IInv
<1>1. CacheTTL * (lost + 1) \in Nat
    BY DEF Clocks
<1>2. step = "idle" => now - validatedAt <= CacheTTL * (lost + 1)
    BY <1>1 DEF Clocks, OnSchedule
<1> QED
    BY <1>2 DEF Clocks, ClaimsFresh

\* The claims in force are never older than a period, and a period for each
\* refresh that broke, whatever the period is and however many break (refresh).
THEOREM ClaimsAreFresh == Spec => []ClaimsFresh
BY Invariance, FreshFromInv, PTL

\* What an enterprise licence that was granted at date d has in its token.
LEMMA EnterpriseGrant ==
    ASSUME NEW d \in Nat, Validate(d) # CommunityClaims
    PROVE  /\ token # Absent /\ Verifies(token) /\ token.tier = "enterprise"
           /\ token.nbf # Absent /\ token.exp # Absent
           /\ ~(d < token.nbf - Skew)
           /\ ~(d > token.exp + Grace(token) + Skew)
BY DEF Validate, ClaimsFor

LEMMA EndsFromInv == IInv => LicenceEnds
<1> SUFFICES ASSUME IInv, claims.tier = "enterprise", step = "idle"
             PROVE  now <= token.exp + Grace(token) + Skew + CacheTTL * (lost + 1)
    BY DEF LicenceEnds
<1> USE LicenseAssumption
<1>1. validatedAt \in Nat /\ claims = Validate(validatedAt)
    BY DEF IInv, Clocks
<1>2. Validate(validatedAt) # CommunityClaims
    BY <1>1 DEF CommunityClaims
<1>3. /\ token # Absent /\ token.exp # Absent
      /\ ~(validatedAt > token.exp + Grace(token) + Skew)
    BY <1>1, <1>2, EnterpriseGrant
<1>4. token.exp \in Nat /\ Grace(token) \in Nat
    BY <1>3 DEF IInv, Configuration, Token, Grace
<1>5. CacheTTL * (lost + 1) \in Nat /\ now <= validatedAt + CacheTTL * (lost + 1)
    BY DEF IInv, Clocks, OnSchedule
<1> QED
    BY <1>1, <1>3, <1>4, <1>5 DEF IInv, Clocks

\* The licence is not enforced past the end of its grace period, the skew and the
\* time to the next refresh that does not break (claimsFor, refresh).
THEOREM LicenceIsEnded == Spec => []LicenceEnds
BY Invariance, EndsFromInv, PTL

LEMMA EarnedFromInv == IInv => EnterpriseIsEarned
<1> SUFFICES ASSUME IInv PROVE EnterpriseIsEarned
    OBVIOUS
<1> USE LicenseAssumption
<1>1. validatedAt \in Nat /\ now \in Nat /\ validatedAt <= now /\ claims = Validate(validatedAt)
    BY DEF IInv, Clocks
<1>2. /\ CommunityClaims.tier = "community" /\ CommunityClaims.features = CommunityFeatures
      /\ CommunityClaims.maxWorkers = 4 /\ CommunityClaims.maxPlugins = 10
    BY DEF CommunityClaims
<1>3. "audit" \notin CommunityFeatures
    BY DEF CommunityFeatures
<1>4. ASSUME Enabled("audit") \/ Unlimited \in {claims.maxWorkers, claims.maxPlugins}
      PROVE  /\ token # Absent
             /\ \E kid \in DOMAIN publicKeys : publicKeys[kid] = token.signedBy
             /\ token.ours /\ token.tier = "enterprise"
             /\ token.nbf # Absent /\ token.nbf <= now + Skew
  <2>1. claims # CommunityClaims
      BY <1>2, <1>3, <1>4 DEF Enabled, Unlimited
  <2>2. /\ token # Absent /\ Verifies(token) /\ token.tier = "enterprise"
        /\ token.nbf # Absent /\ ~(validatedAt < token.nbf - Skew)
      BY <1>1, <2>1, EnterpriseGrant
  <2>3. token \in Token /\ publicKeys \in PublicKeys
      BY <2>2 DEF IInv, Configuration
  <2>4. token.ours /\ ResolveKey(token) = token.signedBy
      BY <2>2 DEF Verifies
  <2>5. \E kid \in DOMAIN publicKeys : publicKeys[kid] = token.signedBy
    <3>1. DOMAIN publicKeys = KeyIds \union {AnyKeyID}
        BY <2>3 DEF PublicKeys
    <3> QED
        BY <2>4, <3>1 DEF ResolveKey
  <2>6. token.nbf \in Nat
      BY <2>2, <2>3 DEF Token
  <2>7. token.nbf <= now + Skew
      BY <1>1, <2>2, <2>6
  <2> QED
      BY <2>2, <2>4, <2>5, <2>7
<1>5. ASSUME NEW f \in CommunityFeatures PROVE Enabled(f)
  <2>1. f \in Features
      BY DEF Features
  <2>2. claims.tier = "enterprise" \/ f \in claims.features
    <3>1. claims = CommunityClaims \/ claims.tier = "enterprise"
        BY <1>1 DEF Validate, ClaimsFor, EnterpriseClaims
    <3> QED
        BY <1>2, <3>1
  <2> QED
      BY <2>1, <2>2 DEF Enabled
<1> QED
    BY <1>4, <1>5 DEF EnterpriseIsEarned

\* Nothing is enterprise without a token that a configured key has signed, of this
\* product and begun; and the community's features are always on (ValidateLicense,
\* resolveKey, FeatureGate.Enabled).
THEOREM NothingUnearned == Spec => []EnterpriseIsEarned
BY Invariance, EarnedFromInv, PTL

LEMMA GaugesFromInv == IInv => GaugesAgree
BY DEF IInv

\* Between two refreshes that did not break the gauges tell what is enforced
\* (refresh, Metrics.observe).
THEOREM GaugesTell == Spec => []GaugesAgree
BY Invariance, GaugesFromInv, PTL

-------------------------------------------------------------------------------
(* The gates *)

\* What the constants of the gates are.
LEMMA Numbers ==
    /\ Burst \in Nat /\ Burst > 0 /\ Rate \in Nat /\ Rate > 0 /\ Interval \in Nat
    /\ Limit \in Nat /\ MaxTime \in Nat /\ Requests \subseteq Nat
    /\ Unknown \notin Clients /\ None \notin Requests
BY GatesAssumption

\* What a bucket may lack after an interval is what an interval does not fill.
LEMMA WhatIsEarly ==
    Early \in Nat /\ Rate * Interval \in Int /\ Rate * Interval >= Burst - Early
<1>1. Rate * Interval \in Int
    BY Numbers
<1> QED
    BY <1>1, Numbers DEF Early

\* A bucket that has had more than an interval to fill lacks no more than Early.
LEMMA FullInAnInterval ==
    ASSUME NEW level \in Nat, NEW age \in Int, age > Interval,
           level >= Burst \/ level >= Rate * age
    PROVE  level >= Burst - Early
<1>2. Rate * age >= Rate * Interval
  <2>1. age - Interval \in Nat /\ age = Interval + (age - Interval)
      BY Numbers
  <2>2. Rate * (Interval + (age - Interval)) = Rate * Interval + Rate * (age - Interval)
      BY Numbers
  <2>3. Rate * (age - Interval) \in Nat
      BY <2>1, Numbers
  <2>4. Rate * age = Rate * Interval + Rate * (age - Interval)
      BY <2>1, <2>2
  <2> QED
      BY <2>3, <2>4, WhatIsEarly
<1>3. Rate * age \in Int
    BY Numbers
<1> QED
    BY <1>2, <1>3, WhatIsEarly, Numbers

\* Filled by a step, a bucket still has what the time since it was seen gives it.
LEMMA RefillKeepsUp ==
    ASSUME NEW level \in 0..Burst, NEW extra \in Nat, NEW age \in Nat,
           level + extra >= Burst \/ level + extra >= Rate * age
    PROVE  Refill(level) + extra >= Burst \/ Refill(level) + extra >= Rate * (age + 1)
<1>1. Rate * (age + 1) = Rate * age + Rate
    BY Numbers
<1>2. Rate * age \in Int
    BY Numbers
<1> QED
    BY <1>1, <1>2, Numbers DEF Refill

\* What covers a level covers it when both are filled by a step.
LEMMA RefillCovers ==
    ASSUME NEW d \in Int, NEW extra \in Nat, NEW level \in 0..Burst, d + extra >= level
    PROVE  Refill(d) + extra >= Refill(level)
BY Numbers DEF Refill

-------------------------------------------------------------------------------
(* The bucket part: every action that leaves it alone *)

\* What is proved of the buckets and what is proved of the slots are kept apart: an action
\* of the one leaves the other alone.
BucketPart == BucketOwners /\ Filling /\ Sweeping /\ Covered

\* Where the sweeper is.
Sweeps == [at : {"idle", "range", "judge", "delete"}, todo : SUBSET Clients, victim : Callers,
           seen : 0..MaxTime]

\* What the sweeper knows of the bucket it has in hand.
InHand(b) ==
    /\ sweep.seen <= clock
    /\ sweep.at = "judge" => \/ tokens[b] + spent[b] >= Burst
                             \/ tokens[b] + spent[b] >= Rate * (clock - sweep.seen)
    /\ sweep.at = "delete" => tokens[b] + spent[b] >= Burst - Early

LEMMA SweepingInHand ==
    Sweeping <=>
        /\ \A c \in sweep.todo : buckets[c] # None
        /\ sweep.at \in {"judge", "delete"} =>
               /\ sweep.victim \in Clients \ sweep.todo /\ buckets[sweep.victim] # None
               /\ InHand(buckets[sweep.victim])
BY DEF Sweeping, InHand

LEMMA SweepingInHandNext ==
    Sweeping' <=>
        /\ \A c \in sweep'.todo : buckets'[c] # None
        /\ sweep'.at \in {"judge", "delete"} =>
               /\ sweep'.victim \in Clients \ sweep'.todo /\ buckets'[sweep'.victim] # None
               /\ (InHand(buckets[sweep.victim]))'
BY DEF Sweeping, InHand

\* The types of what a bucket is about.
BucketTypes ==
    /\ clock \in 0..MaxTime
    /\ pc \in [Requests -> RequestState]
    /\ client \in [Requests -> Callers]
    /\ buckets \in [Clients -> Requests \union {None}]
    /\ held \in [Requests -> Requests \union {None}]
    /\ tokens \in [Requests -> 0..Burst]
    /\ lastSeen \in [Requests -> 0..MaxTime]
    /\ sweep \in Sweeps
    /\ due \in [Clients -> Int]
    /\ swept \in [Clients -> Nat]
    /\ late \in [Clients -> Nat]
    /\ spent \in [Requests -> Nat]
    /\ stampedAt \in [Requests -> 0..MaxTime]

\* What the buckets say of a client is made of numbers.
LEMMA ClientNumbers ==
    ASSUME BucketTypes, NEW c \in Clients
    PROVE  /\ due[c] \in Int /\ late[c] \in Nat /\ swept[c] \in Nat
           /\ Early * swept[c] \in Nat /\ Allowance(c) \in Nat
           /\ Level(c) \in 0..Burst /\ Spent(c) \in Nat
<1> USE DEF BucketTypes
<1>1. due[c] \in Int /\ late[c] \in Nat /\ swept[c] \in Nat
    OBVIOUS
<1>2. Early * swept[c] \in Nat
    BY <1>1, WhatIsEarly
<1>3. CASE buckets[c] = None
    BY <1>1, <1>2, <1>3, Numbers DEF Allowance, Level, Spent
<1>4. CASE buckets[c] # None
  <2>1. PICK b \in Requests : b = buckets[c]
      BY <1>4
  <2>2. tokens[b] \in 0..Burst /\ spent[b] \in Nat
      OBVIOUS
  <2>3. Level(c) = tokens[b] /\ Spent(c) = spent[b]
      BY <1>4, <2>1 DEF Level, Spent
  <2> QED
      BY <1>1, <1>2, <2>2, <2>3 DEF Allowance
<1> QED
    BY <1>3, <1>4

\* A request that goes on past the rate limiter, or out of it.
LEMMA PastTheBucket ==
    ASSUME BucketPart, UNCHANGED <<clock, client, limiter, sweep, history>>,
           \A r \in Requests : /\ pc'[r] \in {"new", "stamp", "take"} => pc'[r] = pc[r]
    PROVE  BucketPart'
<1>1. \A r \in Requests : (Holds(r))' => Holds(r)
    BY DEF Holds
<1>2. BucketOwners'
    BY <1>1 DEF BucketPart, BucketOwners, limiter
<1>3. Filling' /\ Sweeping'
    BY DEF BucketPart, Filling, Sweeping, Early, limiter, history
<1>4. Covered'
    BY DEF BucketPart, Covered, Level, Spent, Allowance, Early, limiter, history
<1> QED
    BY <1>2, <1>3, <1>4 DEF BucketPart

-------------------------------------------------------------------------------
(* The clock *)

LEMMA TickKeeps ==
    ASSUME BucketTypes, BucketPart, Tick
    PROVE  BucketPart'
<1> USE DEF BucketTypes
<1>1. /\ clock' = clock + 1 /\ UNCHANGED <<pc, client, buckets, held, lastSeen, sweep>>
      /\ UNCHANGED <<swept, late, spent, stampedAt>>
      /\ \A b \in Requests : tokens'[b] = Refill(tokens[b])
      /\ \A c \in Clients : due'[c] = Refill(due[c])
      /\ clock \in Nat
    BY DEF Tick
<1>2. BucketOwners'
    BY <1>1 DEF BucketPart, BucketOwners, Holds
<1>3. ASSUME NEW b \in Requests
      PROVE  /\ lastSeen'[b] <= clock'
             /\ \/ tokens'[b] + spent'[b] >= Burst
                \/ tokens'[b] + spent'[b] >= Rate * (clock' - lastSeen'[b])
  <2>1. /\ tokens[b] \in 0..Burst /\ lastSeen[b] \in Nat /\ lastSeen[b] <= clock
        /\ spent[b] \in Nat
        /\ \/ tokens[b] + spent[b] >= Burst
           \/ tokens[b] + spent[b] >= Rate * (clock - lastSeen[b])
      BY DEF BucketPart, Filling
  <2>2. clock - lastSeen[b] \in Nat /\ clock' - lastSeen'[b] = (clock - lastSeen[b]) + 1
      BY <1>1, <2>1
  <2>3. \/ Refill(tokens[b]) + spent[b] >= Burst
        \/ Refill(tokens[b]) + spent[b] >= Rate * ((clock - lastSeen[b]) + 1)
      BY <2>1, <2>2, RefillKeepsUp
  <2> QED
      BY <1>1, <2>1, <2>2, <2>3
<1>4. \A r \in Requests : stampedAt'[r] <= clock'
  <2>1. \A r \in Requests : stampedAt[r] <= clock /\ stampedAt[r] \in Int
      BY DEF BucketPart, Filling
  <2> QED
      BY <1>1, <2>1
<1>5. Filling'
    BY <1>1, <1>3, <1>4 DEF BucketPart, Filling
<1>6. Sweeping'
  <2>1. \A c \in sweep.todo : buckets'[c] # None
      BY <1>1, SweepingInHand DEF BucketPart
  <2>2. ASSUME sweep.at \in {"judge", "delete"}
        PROVE  /\ sweep.victim \in Clients \ sweep.todo /\ buckets[sweep.victim] # None
               /\ (InHand(buckets[sweep.victim]))'
    <3>1. /\ sweep.victim \in Clients \ sweep.todo /\ buckets[sweep.victim] # None
          /\ InHand(buckets[sweep.victim])
        BY <2>2, SweepingInHand DEF BucketPart
    <3>2. PICK b \in Requests : b = buckets[sweep.victim]
        BY <3>1
    <3>3. tokens[b] \in 0..Burst /\ spent[b] \in Nat /\ tokens'[b] = Refill(tokens[b])
        BY <1>1
    <3>4. tokens'[b] >= tokens[b] /\ tokens'[b] \in Int
        BY <3>3, Numbers DEF Refill
    <3>5. sweep.seen \in 0..MaxTime /\ sweep.seen <= clock
        BY <3>1 DEF InHand, Sweeps
    <3>6. clock - sweep.seen \in Nat /\ clock' - sweep.seen = (clock - sweep.seen) + 1
        BY <1>1, <3>5
    <3>7. sweep.at = "judge" => \/ tokens'[b] + spent[b] >= Burst
                                \/ tokens'[b] + spent[b] >= Rate * (clock' - sweep.seen)
      <4> HAVE sweep.at = "judge"
      <4>1. \/ tokens[b] + spent[b] >= Burst
            \/ tokens[b] + spent[b] >= Rate * (clock - sweep.seen)
          BY <3>1, <3>2 DEF InHand
      <4>2. \/ Refill(tokens[b]) + spent[b] >= Burst
            \/ Refill(tokens[b]) + spent[b] >= Rate * ((clock - sweep.seen) + 1)
          BY <3>3, <3>6, <4>1, RefillKeepsUp
      <4> QED
          BY <3>3, <3>6, <4>2
    <3>8. sweep.at = "delete" => tokens'[b] + spent[b] >= Burst - Early
        BY <3>1, <3>2, <3>3, <3>4, WhatIsEarly, Numbers DEF InHand
    <3>9. Early' = Early /\ sweep' = sweep /\ spent' = spent /\ buckets' = buckets
        BY <1>1 DEF Early
    <3>10. clock' = clock + 1
        BY <1>1
    <3>11. (InHand(b))'
        BY <3>5, <3>7, <3>8, <3>9, <3>10 DEF InHand
    <3>12. (InHand(buckets[sweep.victim]))'
        BY <3>2, <3>9, <3>11
    <3> QED
        BY <3>1, <3>12
  <2> QED
      BY <1>1, <2>1, <2>2, SweepingInHandNext
<1>7. ASSUME NEW c \in Clients
      PROVE  /\ (Spent(c))' <= late'[c]
             /\ due'[c] + (Allowance(c))' >= (Level(c))' + (Spent(c))'
  <2>1. (Spent(c))' = Spent(c) /\ (Allowance(c))' = Allowance(c) /\ late'[c] = late[c]
      BY <1>1 DEF Spent, Allowance, Early
  <2>2. Spent(c) <= late[c] /\ due[c] + Allowance(c) >= Level(c) + Spent(c)
      BY DEF BucketPart, Covered
  <2>3. (Level(c))' = Refill(Level(c))
    <3>1. CASE buckets[c] = None
        BY <1>1, <3>1, Numbers DEF Level, Refill
    <3>2. CASE buckets[c] # None
      <4>1. PICK b \in Requests : b = buckets[c]
          BY <3>2
      <4> QED
          BY <1>1, <3>2, <4>1 DEF Level
    <3> QED
        BY <3>1, <3>2
  <2>4. PICK extra \in Nat : extra = Allowance(c) - Spent(c)
    <3>1. Allowance(c) - Spent(c) \in Nat
        BY <2>2, ClientNumbers DEF Allowance
    <3> QED
        BY <3>1
  <2>5. Refill(due[c]) + extra >= Refill(Level(c))
    <3>1. due[c] + extra >= Level(c)
        BY <2>2, <2>4, ClientNumbers
    <3> QED
        BY <3>1, ClientNumbers, RefillCovers
  <2>6. Refill(due[c]) \in Int /\ Refill(Level(c)) \in Int
      BY ClientNumbers, Numbers DEF Refill
  <2>7. due'[c] = Refill(due[c])
      BY <1>1
  <2> QED
      BY <2>1, <2>2, <2>3, <2>4, <2>5, <2>6, <2>7, ClientNumbers
<1>8. Covered'
    BY <1>7 DEF Covered
<1> QED
    BY <1>2, <1>5, <1>6, <1>8 DEF BucketPart

-------------------------------------------------------------------------------
(* Limit *)

LEMMA LoadKeeps ==
    ASSUME BucketTypes, BucketPart, NEW r \in Requests, NEW c \in Clients, LoadOrStore(r, c)
    PROVE  BucketPart'
<1> USE Numbers DEF BucketTypes
<1> DEFINE isNew == buckets[c] = None
           b == IF isNew THEN r ELSE buckets[c]
<1>1. /\ pc[r] = "new" /\ pc' = [pc EXCEPT ![r] = "stamp"]
      /\ client' = [client EXCEPT ![r] = c]
      /\ buckets' = [buckets EXCEPT ![c] = b]
      /\ held' = [held EXCEPT ![r] = b]
      /\ tokens' = [tokens EXCEPT ![b] = IF isNew THEN Burst ELSE tokens[b]]
      /\ lastSeen' = [lastSeen EXCEPT ![b] = IF isNew THEN clock ELSE lastSeen[b]]
      /\ spent' = [spent EXCEPT ![b] = IF isNew THEN 0 ELSE spent[b]]
      /\ UNCHANGED <<clock, sweep, due, swept, late, stampedAt>>
    BY DEF LoadOrStore, Goto, Arrives
<1>2. client[r] = Unknown
    BY <1>1 DEF BucketPart, BucketOwners
<1>3. /\ \A d \in Clients : buckets[d] # r
      /\ \A q \in Requests : Holds(q) => q # r /\ held[q] # r
    BY <1>1, <1>2 DEF BucketPart, BucketOwners, Holds
<1>4. /\ b \in Requests /\ buckets'[c] = b /\ held'[r] = b /\ client'[r] = c
      /\ \A d \in Clients : d # c => buckets'[d] = buckets[d]
      /\ \A q \in Requests : q # r => /\ held'[q] = held[q] /\ client'[q] = client[q]
                                      /\ pc'[q] = pc[q]
      /\ pc'[r] = "stamp"
    BY <1>1
<1>5. client'[b] = c
    BY <1>4 DEF BucketPart, BucketOwners
<1>6. \A a \in Requests :
          /\ a # r \/ ~isNew => /\ tokens'[a] = tokens[a] /\ lastSeen'[a] = lastSeen[a]
                                /\ spent'[a] = spent[a]
          /\ a = r /\ isNew => tokens'[a] = Burst /\ lastSeen'[a] = clock /\ spent'[a] = 0
    BY <1>1
<1> HIDE DEF b
<1>7. \A q \in Requests : (Holds(q))' => q = r \/ Holds(q)
    BY <1>4 DEF Holds
<1>9. BucketOwners'
  <2>1. \A q \in Requests : pc'[q] = "new" => client'[q] = Unknown
      BY <1>4 DEF BucketPart, BucketOwners
  <2>2. \A d \in Clients : buckets'[d] # None => client'[buckets'[d]] = d
    <3> TAKE d \in Clients
    <3> HAVE buckets'[d] # None
    <3>1. CASE d = c
        BY <1>4, <1>5, <3>1
    <3>2. CASE d # c
      <4>1. buckets'[d] = buckets[d] /\ buckets[d] \in Requests \ {r}
          BY <1>3, <1>4, <3>2
      <4>2. client[buckets[d]] = d
          BY <4>1 DEF BucketPart, BucketOwners
      <4> QED
          BY <1>4, <4>1, <4>2
    <3> QED
        BY <3>1, <3>2
  <2>3. ASSUME NEW q \in Requests, (Holds(q))'
        PROVE  client'[q] \in Clients /\ held'[q] \in Requests /\ client'[held'[q]] = client'[q]
    <3>1. CASE q = r
        BY <3>1, <1>4, <1>5
    <3>2. CASE q # r
        BY <3>2, <1>3, <1>4, <1>7, <2>3 DEF BucketPart, BucketOwners
    <3> QED
        BY <3>1, <3>2
  <2> QED
      BY <2>1, <2>2, <2>3 DEF BucketOwners
<1>10. Filling'
  <2>1. \A q \in Requests : pc'[q] = "take" => stampedAt'[q] <= lastSeen'[held'[q]]
    <3> TAKE q \in Requests
    <3> HAVE pc'[q] = "take"
    <3>1. q # r /\ pc[q] = "take" /\ held'[q] = held[q]
        BY <1>4
    <3>2. held[q] \in Requests /\ held[q] # r /\ stampedAt[q] <= lastSeen[held[q]]
        BY <1>3, <3>1 DEF BucketPart, BucketOwners, Filling, Holds
    <3> QED
        BY <1>1, <1>6, <3>1, <3>2
  <2>2. \A a \in Requests : /\ lastSeen'[a] <= clock'
                            /\ \/ tokens'[a] + spent'[a] >= Burst
                               \/ tokens'[a] + spent'[a] >= Rate * (clock' - lastSeen'[a])
      BY <1>1, <1>6 DEF BucketPart, Filling
  <2>3. \A q \in Requests : stampedAt'[q] <= clock'
      BY <1>1 DEF BucketPart, Filling
  <2> QED
      BY <2>1, <2>2, <2>3 DEF Filling
<1>11. \A d \in Clients : buckets[d] # None => /\ buckets'[d] = buckets[d]
                                               /\ tokens'[buckets[d]] = tokens[buckets[d]]
                                               /\ spent'[buckets[d]] = spent[buckets[d]]
  <2> TAKE d \in Clients
  <2> HAVE buckets[d] # None
  <2>1. buckets[d] \in Requests \ {r}
      BY <1>3
  <2>2. buckets'[d] = buckets[d]
      BY <1>4 DEF b
  <2> QED
      BY <1>6, <2>1, <2>2
<1>12. Sweeping'
  <2>1. sweep' = sweep /\ sweep.todo \in SUBSET Clients /\ Early' = Early
      BY <1>1 DEF Sweeps, Early
  <2>2. \A d \in sweep.todo : buckets'[d] # None
      BY <1>11, <2>1 DEF BucketPart, Sweeping
  <2>3. sweep.at \in {"judge", "delete"} =>
            /\ sweep.victim \in Clients \ sweep.todo /\ buckets[sweep.victim] # None
            /\ InHand(buckets[sweep.victim])
      BY SweepingInHand DEF BucketPart
  <2>4. sweep.at \in {"judge", "delete"} =>
            /\ buckets'[sweep.victim] # None
            /\ (InHand(buckets[sweep.victim]))'
      BY <1>1, <1>11, <2>1, <2>3 DEF InHand
  <2> QED
      BY <2>1, <2>2, <2>3, <2>4, SweepingInHandNext
<1>13. Covered'
  <2>1. \A d \in Clients : (Level(d))' = Level(d) /\ (Spent(d))' = Spent(d)
    <3> TAKE d \in Clients
    <3>1. CASE buckets[d] # None
        BY <1>11, <3>1 DEF Level, Spent
    <3>2. CASE buckets[d] = None /\ d # c
        BY <1>4, <3>2 DEF Level, Spent
    <3>3. CASE buckets[d] = None /\ d = c
        BY <1>4, <1>6, <3>3 DEF Level, Spent, b
    <3> QED
        BY <3>1, <3>2, <3>3
  <2>2. \A d \in Clients : (Allowance(d))' = Allowance(d)
      BY <1>1 DEF Allowance, Early
  <2> QED
      BY <1>1, <2>1, <2>2 DEF BucketPart, Covered
<1> QED
    BY <1>9, <1>10, <1>12, <1>13 DEF BucketPart

LEMMA StampKeeps ==
    ASSUME BucketTypes, BucketPart, NEW r \in Requests, Stamp(r)
    PROVE  BucketPart'
<1> USE Numbers DEF BucketTypes
<1>1. /\ pc[r] = "stamp" /\ pc' = [pc EXCEPT ![r] = "take"]
      /\ lastSeen' = [lastSeen EXCEPT ![held[r]] = clock]
      /\ stampedAt' = [stampedAt EXCEPT ![r] = clock]
      /\ UNCHANGED <<clock, client, buckets, held, tokens, sweep, due, swept, late, spent>>
    BY DEF Stamp, Goto
<1>2. held[r] \in Requests /\ client[r] \in Clients /\ clock \in 0..MaxTime
    BY <1>1 DEF BucketPart, BucketOwners, Holds
<1>3. \A q \in Requests : /\ (Holds(q))' <=> Holds(q)
                          /\ pc'[q] = "take" => q = r \/ pc[q] = "take"
                          /\ pc'[q] = "new" => pc[q] = "new"
    BY <1>1 DEF Holds
<1>4. \A b \in Requests : lastSeen'[b] = IF b = held[r] THEN clock ELSE lastSeen[b]
    BY <1>1
<1>5. \A q \in Requests : stampedAt'[q] = IF q = r THEN clock ELSE stampedAt[q]
    BY <1>1
<1>6. BucketOwners'
    BY <1>1, <1>3 DEF BucketPart, BucketOwners
<1>7. Filling'
  <2>1. \A q \in Requests : stampedAt'[q] <= clock'
      BY <1>1, <1>2, <1>5 DEF BucketPart, Filling
  <2>2. ASSUME NEW q \in Requests, pc'[q] = "take"
        PROVE  stampedAt'[q] <= lastSeen'[held'[q]]
    <3>1. PICK b \in Requests : b = held[q]
        BY <1>2, <1>3, <2>2 DEF BucketPart, BucketOwners, Holds
    <3>2. CASE b = held[r]
      <4>1. lastSeen'[held'[q]] = clock
          BY <1>1, <1>4, <3>1, <3>2
      <4> QED
          BY <1>1, <2>1, <4>1
    <3>3. CASE b # held[r]
      <4>1. q # r /\ stampedAt'[q] = stampedAt[q] /\ lastSeen'[b] = lastSeen[b]
          BY <1>4, <1>5, <3>1, <3>3
      <4>2. stampedAt[q] <= lastSeen[b]
          BY <1>3, <2>2, <3>1, <4>1 DEF BucketPart, Filling
      <4> QED
          BY <1>1, <3>1, <4>1, <4>2
    <3> QED
        BY <3>2, <3>3
  <2>3. ASSUME NEW b \in Requests
        PROVE  /\ lastSeen'[b] <= clock'
               /\ \/ tokens'[b] + spent'[b] >= Burst
                  \/ tokens'[b] + spent'[b] >= Rate * (clock' - lastSeen'[b])
    <3>1. CASE b = held[r]
      <4>1. lastSeen'[b] = clock /\ clock' - lastSeen'[b] = 0 /\ tokens'[b] + spent'[b] >= 0
          BY <1>1, <1>2, <1>4, <3>1
      <4>2. Rate * 0 = 0
          OBVIOUS
      <4> QED
          BY <1>1, <1>2, <4>1, <4>2
    <3>2. CASE b # held[r]
        BY <1>1, <1>4, <3>2 DEF BucketPart, Filling
    <3> QED
        BY <3>1, <3>2
  <2> QED
      BY <2>1, <2>2, <2>3 DEF Filling
<1>8. Sweeping'
    BY <1>1 DEF BucketPart, Sweeping, Early
<1>9. Covered'
    BY <1>1 DEF BucketPart, Covered, Level, Spent, Allowance, Early
<1> QED
    BY <1>6, <1>7, <1>8, <1>9 DEF BucketPart

\* A request takes its token late, and is counted for it, or at the moment it was seen and
\* from the bucket its client has.
LEMMA TakeKeeps ==
    ASSUME BucketTypes, BucketPart, NEW r \in Requests, TakeToken(r)
    PROVE  BucketPart'
<1> USE Numbers DEF BucketTypes
<1>1. PICK b \in Requests : b = held[r]
    BY DEF TakeToken, Goto, BucketPart, BucketOwners, Holds
<1>2. PICK c \in Clients : c = client[r]
    BY DEF TakeToken, Goto, BucketPart, BucketOwners, Holds
<1>3. PICK more \in {0, 1} : more = IF Late(r) THEN 1 ELSE 0
    OBVIOUS
<1>4. /\ pc[r] = "take" /\ pc' = [pc EXCEPT ![r] = "acquire"]
      /\ tokens[b] > 0
      /\ tokens' = [tokens EXCEPT ![b] = @ - 1]
      /\ due' = [due EXCEPT ![c] = @ - 1]
      /\ late' = [late EXCEPT ![c] = @ + more]
      /\ spent' = [spent EXCEPT ![b] = @ + more]
      /\ stampedAt' = [stampedAt EXCEPT ![r] = 0]
      /\ UNCHANGED <<clock, client, buckets, held, lastSeen, sweep, swept>>
    BY <1>1, <1>2, <1>3 DEF TakeToken, Goto
<1>5. client[b] = c /\ stampedAt[r] <= lastSeen[b]
    BY <1>1, <1>2, <1>4 DEF BucketPart, BucketOwners, Filling, Holds
<1>6. more = 0 => /\ clock <= stampedAt[r] /\ b = buckets[c]
                  /\ ~(sweep.at \in {"judge", "delete"} /\ buckets[sweep.victim] = b)
    BY <1>1, <1>2, <1>3 DEF Late, IsVictim
<1>7. \A q \in Requests : /\ (Holds(q))' => q # r /\ Holds(q)
                          /\ pc'[q] \in {"new", "take"} => q # r /\ pc'[q] = pc[q]
    BY <1>4 DEF Holds
<1>8. \A a \in Requests : /\ tokens[a] \in 0..Burst /\ spent[a] \in Nat
                          /\ a # b => tokens'[a] = tokens[a] /\ spent'[a] = spent[a]
                          /\ tokens'[b] = tokens[b] - 1 /\ spent'[b] = spent[b] + more
    BY <1>4
<1>9. \A d \in Clients : /\ d # c => due'[d] = due[d] /\ late'[d] = late[d]
                         /\ due'[c] = due[c] - 1 /\ late'[c] = late[c] + more
    BY <1>4
<1>10. BucketOwners'
    BY <1>4, <1>7 DEF BucketPart, BucketOwners
<1>11. Filling'
  <2>1. ASSUME NEW q \in Requests
        PROVE  /\ stampedAt'[q] <= clock'
               /\ pc'[q] = "take" => stampedAt'[q] <= lastSeen'[held'[q]]
      BY <1>4, <1>7 DEF BucketPart, Filling
  <2>2. ASSUME NEW a \in Requests
        PROVE  /\ lastSeen'[a] <= clock'
               /\ \/ tokens'[a] + spent'[a] >= Burst
                  \/ tokens'[a] + spent'[a] >= Rate * (clock' - lastSeen'[a])
    <3>1. /\ lastSeen[a] <= clock
          /\ \/ tokens[a] + spent[a] >= Burst
             \/ tokens[a] + spent[a] >= Rate * (clock - lastSeen[a])
        BY DEF BucketPart, Filling
    <3>2. CASE a # b \/ more = 1
      <4>1. tokens'[a] + spent'[a] = tokens[a] + spent[a]
          BY <1>8, <3>2
      <4> QED
          BY <1>4, <3>1, <4>1
    <3>3. CASE a = b /\ more = 0
      <4>1. lastSeen[b] = clock
        <5>1. lastSeen[b] \in Int /\ stampedAt[r] \in Int /\ clock \in Int
            OBVIOUS
        <5> QED
            BY <1>5, <1>6, <3>1, <3>3, <5>1
      <4>2. clock' - lastSeen'[a] = 0 /\ lastSeen'[a] <= clock'
          BY <1>4, <3>3, <4>1
      <4>3. tokens'[a] + spent'[a] >= 0
          BY <1>4, <1>8, <3>3
      <4>4. Rate * 0 = 0
          OBVIOUS
      <4> QED
          BY <4>2, <4>3, <4>4
    <3> QED
        BY <3>2, <3>3
  <2> QED
      BY <2>1, <2>2 DEF Filling
<1>12. Sweeping'
  <2>1. ASSUME sweep.at \in {"judge", "delete"}
        PROVE  /\ sweep.victim \in Clients \ sweep.todo /\ buckets[sweep.victim] # None
               /\ (InHand(buckets[sweep.victim]))'
    <3>1. /\ sweep.victim \in Clients \ sweep.todo /\ buckets[sweep.victim] # None
          /\ InHand(buckets[sweep.victim])
        BY <2>1, SweepingInHand DEF BucketPart
    <3>2. PICK a \in Requests : a = buckets[sweep.victim]
        BY <3>1
    <3>3. a # b \/ more = 1
        BY <1>6, <2>1, <3>2
    <3>4. tokens'[a] + spent'[a] = tokens[a] + spent[a]
        BY <1>8, <3>3
    <3>5. Early' = Early /\ sweep' = sweep /\ clock' = clock /\ buckets' = buckets
        BY <1>4 DEF Early
    <3>6. (InHand(a))'
        BY <3>1, <3>2, <3>4, <3>5 DEF InHand
    <3> QED
        BY <3>1, <3>2, <3>5, <3>6
  <2>2. \A d \in sweep.todo : buckets[d] # None
      BY SweepingInHand DEF BucketPart
  <2> QED
      BY <1>4, <2>1, <2>2, SweepingInHandNext
<1>13. ASSUME NEW d \in Clients
       PROVE  /\ (Spent(d))' <= late'[d]
              /\ due'[d] + (Allowance(d))' >= (Level(d))' + (Spent(d))'
  <2>1. Spent(d) <= late[d] /\ due[d] + Allowance(d) >= Level(d) + Spent(d)
      BY DEF BucketPart, Covered
  <2>2. Early' = Early /\ Early * swept'[d] = Early * swept[d]
      BY <1>4 DEF Early
  <2>3. CASE d # c
    <3>1. buckets[d] # b /\ buckets'[d] = buckets[d]
        BY <1>4, <1>5, <2>3 DEF BucketPart, BucketOwners
    <3>2. (Level(d))' = Level(d) /\ (Spent(d))' = Spent(d)
      <4>1. CASE buckets[d] = None
          BY <3>1, <4>1 DEF Level, Spent
      <4>2. CASE buckets[d] # None
        <5>1. PICK a \in Requests : a = buckets[d]
            BY <4>2
        <5> QED
            BY <1>8, <3>1, <4>2, <5>1 DEF Level, Spent
      <4> QED
          BY <4>1, <4>2
    <3>3. (Allowance(d))' = Allowance(d) /\ due'[d] = due[d] /\ late'[d] = late[d]
        BY <1>9, <2>2, <2>3 DEF Allowance
    <3> QED
        BY <2>1, <3>2, <3>3
  <2>4. CASE d = c /\ buckets[c] = b
    <3>1. buckets'[d] = b /\ buckets[d] = b /\ b # None
        BY <1>4, <2>4
    <3>2. /\ Level(d) = tokens[b] /\ (Level(d))' = tokens[b] - 1
          /\ Spent(d) = spent[b] /\ (Spent(d))' = spent[b] + more
        BY <1>8, <3>1 DEF Level, Spent
    <3>3. (Allowance(d))' = Allowance(d) + more
      <4>1. (Allowance(d))' = Early * swept[d] + (late[d] + more)
          BY <1>9, <2>2, <2>4 DEF Allowance
      <4> QED
          BY <4>1, ClientNumbers DEF Allowance
    <3>4. due'[d] = due[d] - 1 /\ late'[d] = late[d] + more
        BY <1>9, <2>4
    <3> QED
        BY <1>8, <2>1, <3>2, <3>3, <3>4, ClientNumbers
  <2>5. CASE d = c /\ buckets[c] # b
    <3>1. more = 1
        BY <1>6, <2>5
    <3>2. (Level(d))' = Level(d) /\ (Spent(d))' = Spent(d)
      <4>1. CASE buckets[d] = None
          BY <1>4, <4>1 DEF Level, Spent
      <4>2. CASE buckets[d] # None
        <5>1. PICK a \in Requests : a = buckets[d]
            BY <4>2
        <5> QED
            BY <1>4, <1>8, <2>5, <4>2, <5>1 DEF Level, Spent
      <4> QED
          BY <4>1, <4>2
    <3>3. (Allowance(d))' = Allowance(d) + 1
      <4>1. (Allowance(d))' = Early * swept[d] + (late[d] + 1)
          BY <1>9, <2>2, <2>5, <3>1 DEF Allowance
      <4> QED
          BY <4>1, ClientNumbers DEF Allowance
    <3>4. due'[d] = due[d] - 1 /\ late'[d] = late[d] + 1
        BY <1>9, <2>5, <3>1
    <3> QED
        BY <2>1, <3>2, <3>3, <3>4, ClientNumbers
  <2> QED
      BY <2>3, <2>4, <2>5
<1>14. Covered'
    BY <1>13 DEF Covered
<1> QED
    BY <1>10, <1>11, <1>12, <1>14 DEF BucketPart

-------------------------------------------------------------------------------
(* The sweeper *)

\* A step of the sweeper that deletes nothing.
LEMMA LookKeeps ==
    ASSUME BucketPart, Sweeping', UNCHANGED <<clock, pc, client, limiter, history>>
    PROVE  BucketPart'
<1>1. /\ clock' = clock /\ pc' = pc /\ client' = client
      /\ buckets' = buckets /\ held' = held /\ tokens' = tokens /\ lastSeen' = lastSeen
      /\ UNCHANGED <<due, swept, late, spent, stampedAt>>
    BY DEF limiter, history
<1>2. BucketOwners' /\ Filling'
    BY <1>1 DEF BucketPart, BucketOwners, Filling, Holds
<1>3. Covered'
    BY <1>1 DEF BucketPart, Covered, Level, Spent, Allowance, Early
<1> QED
    BY <1>2, <1>3 DEF BucketPart

LEMMA RestKeeps ==
    ASSUME BucketPart, sweep' = Resting \/ BeginSweep \/ EndSweep,
           UNCHANGED <<clock, pc, client, limiter, history>>
    PROVE  BucketPart'
<1>1. sweep'.at \notin {"judge", "delete"} /\ \A c \in sweep'.todo : buckets[c] # None
  <2>1. CASE sweep' = Resting \/ EndSweep
      BY <2>1 DEF Resting, EndSweep
  <2>2. CASE BeginSweep
    <3>1. sweep' = [at |-> "range", todo |-> {c \in Clients : buckets[c] # None},
                    victim |-> Unknown, seen |-> 0]
        BY <2>2 DEF BeginSweep, Resting
    <3> QED
        BY <3>1
  <2> QED
      BY <2>1, <2>2
<1>2. buckets' = buckets
    BY DEF limiter
<1> QED
    BY <1>1, <1>2, LookKeeps DEF Sweeping

LEMMA VisitKeeps ==
    ASSUME BucketTypes, BucketPart, NEW c \in Clients, Visit(c)
    PROVE  BucketPart'
<1> USE Numbers DEF BucketTypes
<1>1. /\ sweep.at = "range" /\ c \in sweep.todo
      /\ sweep'.at = "judge" /\ sweep'.victim = c /\ sweep'.seen = lastSeen[buckets[c]]
      /\ sweep'.todo = sweep.todo \ {c}
      /\ UNCHANGED <<clock, pc, client, limiter, history>>
    BY DEF Visit
<1>2. PICK b \in Requests : b = buckets[c] /\ b # None
  <2>1. buckets[c] # None
      BY <1>1, SweepingInHand DEF BucketPart
  <2> QED
      BY <2>1
<1>3. UNCHANGED <<buckets, tokens, spent, lastSeen>>
    BY <1>1 DEF limiter, history
<1>4. \A d \in sweep'.todo : buckets'[d] # None
    BY <1>1, <1>3 DEF BucketPart, Sweeping
<1>5. (InHand(b))'
    BY <1>1, <1>2, <1>3 DEF InHand, BucketPart, Filling
<1>6. Sweeping'
  <2>1. c \in Clients \ sweep'.todo /\ buckets'[sweep'.victim] = b
      BY <1>1, <1>2, <1>3
  <2>2. (InHand(buckets[sweep.victim]))'
      BY <1>5, <2>1
  <2> QED
      BY <1>1, <1>2, <1>4, <2>1, <2>2, SweepingInHandNext
<1> QED
    BY <1>1, <1>6, LookKeeps

LEMMA JudgeKeeps ==
    ASSUME BucketTypes, BucketPart, Judge
    PROVE  BucketPart'
<1> USE Numbers DEF BucketTypes
<1>1. /\ sweep.at = "judge" /\ sweep'.todo = sweep.todo
      /\ \/ sweep'.at = "range"
         \/ /\ sweep'.at = "delete" /\ IsStale(sweep.seen)
            /\ sweep'.victim = sweep.victim /\ sweep'.seen = sweep.seen
      /\ UNCHANGED <<clock, pc, client, limiter, history>>
    BY DEF Judge, Resting, Sweeps
<1>2. /\ sweep.victim \in Clients \ sweep.todo /\ buckets[sweep.victim] # None
      /\ InHand(buckets[sweep.victim])
    BY <1>1, SweepingInHand DEF BucketPart
<1>3. PICK b \in Requests : b = buckets[sweep.victim]
    BY <1>2
<1>4. UNCHANGED <<buckets, tokens, spent, clock>> /\ Early' = Early
    BY <1>1 DEF limiter, history, Early
<1>5. \A d \in sweep'.todo : buckets'[d] # None
    BY <1>1, <1>4, SweepingInHand DEF BucketPart
<1>6. IsStale(sweep.seen) => tokens[b] + spent[b] >= Burst - Early
  <2> HAVE IsStale(sweep.seen)
  <2>1. clock - sweep.seen > Interval /\ clock - sweep.seen \in Int
      BY DEF IsStale, Sweeps
  <2>2. /\ tokens[b] + spent[b] \in Nat
        /\ \/ tokens[b] + spent[b] >= Burst
           \/ tokens[b] + spent[b] >= Rate * (clock - sweep.seen)
      BY <1>1, <1>2, <1>3 DEF InHand
  <2> QED
      BY <2>1, <2>2, FullInAnInterval
<1>7. sweep'.at = "delete" => (InHand(b))'
    BY <1>1, <1>2, <1>3, <1>4, <1>6 DEF InHand
<1>8. Sweeping'
  <2>1. CASE sweep'.at = "range"
      BY <1>5, <2>1, SweepingInHandNext
  <2>2. CASE sweep'.at = "delete"
    <3>1. buckets'[sweep'.victim] = b /\ sweep'.victim = sweep.victim
        BY <1>1, <1>3, <1>4, <2>2
    <3>2. (InHand(buckets[sweep.victim]))'
        BY <1>7, <2>2, <3>1
    <3> QED
        BY <1>1, <1>2, <1>3, <1>5, <3>1, <3>2, SweepingInHandNext
  <2> QED
      BY <1>1, <2>1, <2>2
<1> QED
    BY <1>1, <1>8, LookKeeps

LEMMA DeleteKeeps ==
    ASSUME BucketTypes, BucketPart, Delete
    PROVE  BucketPart'
<1> USE Numbers DEF BucketTypes
<1>1. /\ sweep.at = "delete" /\ sweep.victim \in Clients
      /\ buckets[sweep.victim] \in Requests /\ buckets[sweep.victim] # None
    BY DEF Delete, BucketPart, Sweeping
<1> PICK c \in Clients : c = sweep.victim
    BY <1>1
<1> PICK b \in Requests : b = buckets[c]
    BY <1>1
<1>2. /\ buckets' = [buckets EXCEPT ![c] = None]
      /\ swept' = [swept EXCEPT ![c] = @ + 1]
      /\ sweep'.at = "range" /\ sweep'.todo = sweep.todo
      /\ UNCHANGED <<clock, pc, client, held, tokens, lastSeen, due, late, spent, stampedAt>>
    BY DEF Delete, Resting
<1>3. /\ c \notin sweep.todo /\ b # None
      /\ tokens[b] + spent[b] >= Burst - Early
      /\ buckets'[c] = None
      /\ \A d \in Clients : d # c => buckets'[d] = buckets[d] /\ swept'[d] = swept[d]
      /\ swept'[c] = swept[c] + 1
    BY <1>1, <1>2 DEF BucketPart, Sweeping
<1>4. BucketOwners'
  <2>1. \A d \in Clients : buckets'[d] # None => client[buckets'[d]] = d
      BY <1>3 DEF BucketPart, BucketOwners
  <2> QED
      BY <1>2, <2>1 DEF BucketPart, BucketOwners, Holds
<1>5. Filling'
    BY <1>2 DEF BucketPart, Filling
<1>6. Sweeping'
  <2>1. sweep.todo \in SUBSET Clients
      BY DEF Sweeps
  <2>2. \A d \in sweep.todo : buckets'[d] # None
      BY <1>3, <2>1 DEF BucketPart, Sweeping
  <2> QED
      BY <1>2, <2>2 DEF Sweeping
<1>7. ASSUME NEW d \in Clients
      PROVE  /\ (Spent(d))' <= late'[d]
             /\ due'[d] + (Allowance(d))' >= (Level(d))' + (Spent(d))'
  <2>1. Spent(d) <= late[d] /\ due[d] + Allowance(d) >= Level(d) + Spent(d)
      BY DEF BucketPart, Covered
  <2>2. CASE d # c
    <3>1. /\ (Level(d))' = Level(d) /\ (Spent(d))' = Spent(d)
          /\ (Allowance(d))' = Allowance(d)
        BY <1>2, <1>3, <2>2 DEF Level, Spent, Allowance, Early
    <3> QED
        BY <1>2, <2>1, <3>1
  <2>3. CASE d = c
    <3>1. Level(d) = tokens[b] /\ Spent(d) = spent[b]
        BY <1>3, <2>3 DEF Level, Spent
    <3>2. (Level(d))' = Burst /\ (Spent(d))' = 0
        BY <1>3, <2>3 DEF Level, Spent
    <3>3. (Allowance(d))' = Allowance(d) + Early
      <4>1. (Allowance(d))' = Early * (swept[d] + 1) + late[d]
          BY <1>2, <1>3, <2>3 DEF Allowance, Early
      <4>2. Early * (swept[d] + 1) = Early * swept[d] + Early
          BY ClientNumbers, WhatIsEarly
      <4> QED
          BY <4>1, <4>2, ClientNumbers, WhatIsEarly DEF Allowance
    <3>4. due'[d] = due[d] /\ late'[d] = late[d]
        BY <1>2
    <3>5. tokens[b] \in 0..Burst /\ spent[b] \in Nat
        OBVIOUS
    <3> QED
        BY <1>3, <2>1, <3>1, <3>2, <3>3, <3>4, <3>5, ClientNumbers, WhatIsEarly
  <2> QED
      BY <2>2, <2>3
<1>8. Covered'
    BY <1>7 DEF Covered
<1> QED
    BY <1>4, <1>5, <1>6, <1>8 DEF BucketPart

-------------------------------------------------------------------------------
(* The slots *)

\* What is proved of the slots, with the types of what they are about.
SlotPart ==
    /\ pc \in [Requests -> RequestState] /\ client \in [Requests -> Callers]
    /\ inFlight \in [Clients -> Nat] /\ slotOf \in [Requests -> Callers]
    /\ SlotOwners /\ SlotsExact

\* Where a request has a slot.
Past == {"authorize", "handle"} \union Leaving

LEMMA InsideFinite ==
    ASSUME NEW c
    PROVE  /\ IsFiniteSet(Inside(c)) /\ Cardinality(Inside(c)) \in Nat
           /\ IsFiniteSet((Inside(c))') /\ Cardinality((Inside(c))') \in Nat
<1>1. IsFiniteSet(Requests)
    BY GatesAssumption
<1>2. Inside(c) \in SUBSET Requests /\ (Inside(c))' \in SUBSET Requests
    BY DEF Inside
<1> QED
    BY <1>1, <1>2, FS_Subset, FS_CardinalityType

\* A step in which nobody goes past the limiter, or leaves it.
LEMMA SlotsKept ==
    ASSUME SlotPart, UNCHANGED slots,
           pc' \in [Requests -> RequestState], client' \in [Requests -> Callers],
           \A r \in Requests : /\ pc'[r] \in Past <=> pc[r] \in Past
                               /\ pc[r] \in Past => client'[r] = client[r]
    PROVE  SlotPart'
<1>1. \A c : (Inside(c))' = Inside(c)
    BY DEF Inside, Past
<1>2. inFlight' = inFlight /\ slotOf' = slotOf
    BY DEF slots
<1>3. SlotsExact'
    BY <1>1, <1>2 DEF SlotPart, SlotsExact
<1>4. SlotOwners'
    BY <1>2 DEF SlotPart, SlotOwners, Inside, Past
<1> QED
    BY <1>2, <1>3, <1>4 DEF SlotPart

LEMMA AcquireKeeps ==
    ASSUME SlotPart, NEW r \in Requests, Acquire(r)
    PROVE  SlotPart'
<1> USE Numbers DEF SlotPart
<1>1. /\ pc[r] = "acquire" /\ pc' = [pc EXCEPT ![r] = "authorize"] /\ client' = client
      /\ ~Full(r)
      /\ inFlight' = IF Counted(r) THEN [inFlight EXCEPT ![client[r]] = @ + 1] ELSE inFlight
      /\ slotOf' = [slotOf EXCEPT ![r] = IF Counted(r) THEN client[r] ELSE Unknown]
    BY DEF Acquire, Goto
<1>2. /\ pc'[r] = "authorize" /\ \A q \in Requests : q # r => pc'[q] = pc[q]
      /\ pc' \in [Requests -> RequestState]
    BY <1>1 DEF RequestState
<1>3. /\ inFlight' \in [Clients -> Nat] /\ slotOf' \in [Requests -> Callers]
    BY <1>1 DEF Counted, Callers
<1>4. SlotOwners'
  <2> SUFFICES ASSUME NEW q \in Requests
               PROVE  slotOf'[q] = IF Limit > 0 /\ pc'[q] \in Past THEN client[q] ELSE Unknown
      BY <1>1 DEF SlotOwners, Inside, Past
  <2>1. CASE q = r
      BY <1>1, <1>2, <2>1 DEF Counted, Past, Callers
  <2>2. CASE q # r
      BY <1>1, <1>2, <2>2 DEF SlotOwners, Inside, Past
  <2> QED
      BY <2>1, <2>2
<1>5. ASSUME Limit > 0, NEW c \in Clients
      PROVE  inFlight'[c] = Cardinality((Inside(c))') /\ inFlight'[c] <= Limit
  <2>1. inFlight[c] = Cardinality(Inside(c)) /\ inFlight[c] <= Limit
      BY <1>5 DEF SlotsExact
  <2>2. CASE client[r] = c
    <3>1. (Inside(c))' = Inside(c) \union {r} /\ r \notin Inside(c)
        BY <1>1, <1>2, <2>2 DEF Inside, Leaving
    <3>2. Cardinality((Inside(c))') = Cardinality(Inside(c)) + 1
        BY <3>1, InsideFinite, FS_AddElement
    <3>3. inFlight'[c] = inFlight[c] + 1 /\ inFlight[c] < Limit
        BY <1>1, <1>5, <2>2 DEF Counted, Full
    <3> QED
        BY <2>1, <3>2, <3>3
  <2>3. CASE client[r] # c
    <3>1. (Inside(c))' = Inside(c)
        BY <1>1, <1>2, <2>3 DEF Inside
    <3>2. inFlight'[c] = inFlight[c]
        BY <1>1, <2>3 DEF Counted
    <3> QED
        BY <2>1, <3>1, <3>2
  <2> QED
      BY <2>2, <2>3
<1> QED
    BY <1>1, <1>2, <1>3, <1>4, <1>5 DEF SlotsExact

LEMMA ReleaseKeeps ==
    ASSUME SlotPart, NEW r \in Requests, Release(r)
    PROVE  SlotPart'
<1> USE Numbers DEF SlotPart
<1>1. /\ pc[r] \in Leaving /\ pc' = [pc EXCEPT ![r] = "done"] /\ client' = client
      /\ inFlight' = IF slotOf[r] = Unknown THEN inFlight
                     ELSE [inFlight EXCEPT ![slotOf[r]] = @ - 1]
      /\ slotOf' = [slotOf EXCEPT ![r] = Unknown]
    BY DEF Release
<1>2. /\ pc'[r] = "done" /\ pc[r] \in Past /\ "done" \notin Past
      /\ \A q \in Requests : q # r => pc'[q] = pc[q]
      /\ pc' \in [Requests -> RequestState]
    BY <1>1 DEF RequestState, Past, Leaving
<1>3. slotOf' \in [Requests -> Callers]
    BY <1>1 DEF Callers
<1>4. slotOf[r] = IF Limit > 0 THEN client[r] ELSE Unknown
    BY <1>2 DEF SlotOwners, Inside, Past
<1>5. SlotOwners'
  <2> SUFFICES ASSUME NEW q \in Requests
               PROVE  slotOf'[q] = IF Limit > 0 /\ pc'[q] \in Past THEN client[q] ELSE Unknown
      BY <1>1 DEF SlotOwners, Inside, Past
  <2>1. CASE q = r
      BY <1>1, <1>2, <2>1
  <2>2. CASE q # r
      BY <1>1, <1>2, <2>2 DEF SlotOwners, Inside, Past
  <2> QED
      BY <2>1, <2>2
<1>6. CASE Limit = 0
  <2>1. inFlight' = inFlight
      BY <1>1, <1>4, <1>6
  <2>2. SlotsExact'
      BY <1>6 DEF SlotsExact
  <2> QED
      BY <1>1, <1>2, <1>3, <1>5, <2>1, <2>2
<1>7. CASE Limit > 0
  <2>1. ASSUME NEW c \in Clients
        PROVE  /\ inFlight'[c] = Cardinality((Inside(c))') /\ inFlight'[c] <= Limit
               /\ inFlight'[c] \in Nat
    <3>1. inFlight[c] = Cardinality(Inside(c)) /\ inFlight[c] <= Limit /\ inFlight[c] \in Nat
        BY <1>7 DEF SlotsExact
    <3>2. CASE client[r] = c
      <4>1. (Inside(c))' = Inside(c) \ {r} /\ r \in Inside(c)
          BY <1>1, <1>2, <3>2 DEF Inside, Past
      <4>2. Cardinality((Inside(c))') = Cardinality(Inside(c)) - 1
          BY <4>1, InsideFinite, FS_RemoveElement
      <4>3. inFlight'[c] = inFlight[c] - 1
          BY <1>1, <1>4, <1>7, <3>2
      <4>4. Cardinality((Inside(c))') \in Nat
          BY InsideFinite
      <4> QED
          BY <3>1, <4>2, <4>3, <4>4
    <3>3. CASE client[r] # c
      <4>1. (Inside(c))' = Inside(c)
          BY <1>1, <1>2, <3>3 DEF Inside, Past
      <4>2. inFlight'[c] = inFlight[c]
          BY <1>1, <1>4, <1>7, <3>3
      <4> QED
          BY <3>1, <4>1, <4>2
    <3> QED
        BY <3>2, <3>3
  <2>2. \E f : inFlight' = [c \in Clients |-> f[c]]
    <3>1. DOMAIN inFlight' = Clients /\ inFlight' = [c \in Clients |-> inFlight'[c]]
        BY <1>1
    <3> QED
        BY <3>1
  <2>3. inFlight' \in [Clients -> Nat]
      BY <2>1, <2>2
  <2> QED
      BY <1>1, <1>2, <1>3, <1>5, <2>1, <2>3 DEF SlotsExact
<1> QED
    BY <1>6, <1>7

-------------------------------------------------------------------------------
(* The invariant *)

LEMMA InvParts ==
    GatesInv => BucketTypes /\ BucketPart /\ SlotPart
BY DEF GatesInv, GatesTypeOK, BucketTypes, BucketPart, SlotPart, Sweeps

LEMMA PartsInv ==
    ASSUME BucketTypes', BucketPart', SlotPart', (sweepPanics \in 0..MaxSweepPanics)'
    PROVE  GatesInv'
BY DEF GatesInv, GatesTypeOK, BucketTypes, BucketPart, SlotPart, Sweeps

LEMMA GatesInitInv == GatesInit => GatesInv
<1> SUFFICES ASSUME GatesInit PROVE GatesInv
    OBVIOUS
<1> USE Numbers DEF GatesInit
<1>1. GatesTypeOK
  <2>1. Burst \in 0..Burst /\ 0 \in 0..MaxTime /\ 0 \in 0..MaxSweepPanics
      BY GatesAssumption
  <2>2. sweep \in Sweeps
      BY <2>1 DEF Sweeps, Resting, Callers
  <2> QED
      BY <2>1, <2>2 DEF Sweeps, GatesTypeOK, RequestState, Callers
<1>2. \A r \in Requests : ~Holds(r) /\ pc[r] = "new"
    BY DEF Holds
<1>3. SlotsExact /\ SlotOwners
  <2>1. \A c : Inside(c) = {}
      BY DEF Inside, Leaving
  <2>2. Cardinality({}) = 0
      BY FS_EmptySet
  <2> QED
      BY <2>1, <2>2 DEF SlotsExact, SlotOwners
<1>4. BucketOwners
    BY <1>2 DEF BucketOwners
<1>5. Filling
    BY <1>2 DEF Filling
<1>6. Sweeping
    BY DEF Sweeping, Resting
<1>7. Covered
  <2>1. Early * 0 = 0
      BY WhatIsEarly
  <2> QED
      BY <2>1 DEF Covered, Allowance, Level, Spent
<1> QED
    BY <1>1, <1>3, <1>4, <1>5, <1>6, <1>7 DEF GatesInv

\* A request goes on past the bucket and neither takes nor gives back a slot.
LEMMA PassesOn ==
    ASSUME GatesInv, NEW r \in Requests,
           \/ Unaddressed(r) \/ RejectRate(r) \/ RejectSlots(r)
           \/ \E presents \in Credentials : Authorize(r, presents)
           \/ \E how \in {"answered", "panicked"} : Handle(r, how)
    PROVE  GatesInv'
<1> USE InvParts
<1>1. /\ client' = client
      /\ UNCHANGED <<clock, limiter, sweep, sweepPanics, slots, history>>
      /\ \E s \in RequestState \ {"new", "stamp", "take"} :
             pc' = [pc EXCEPT ![r] = s] /\ (s \in Past <=> pc[r] \in Past)
  <2>1. CASE Unaddressed(r)
    <3>1. client[r] = Unknown /\ client' = [client EXCEPT ![r] = Unknown]
        BY <2>1 DEF Unaddressed, Goto, Arrives, BucketPart, BucketOwners
    <3>2. client' = client
        BY <3>1 DEF BucketTypes
    <3>3. /\ pc[r] = "new" /\ pc' = [pc EXCEPT ![r] = "acquire"]
          /\ UNCHANGED <<clock, limiter, sweep, sweepPanics, slots, history>>
        BY <2>1 DEF Unaddressed, Goto
    <3>4. "acquire" \in RequestState \ {"new", "stamp", "take"}
        BY DEF RequestState
    <3>5. "acquire" \notin Past /\ pc[r] \notin Past
        BY <3>3 DEF Past, Leaving
    <3> QED
        BY <3>2, <3>3, <3>4, <3>5
  <2>2. CASE RejectRate(r) \/ RejectSlots(r)
      BY <2>2 DEF RejectRate, RejectSlots, Goto, RequestState, Past, Leaving
  <2>3. CASE \E presents \in Credentials : Authorize(r, presents)
      BY <2>3 DEF Authorize, Goto, RequestState, Past, Leaving
  <2>4. CASE \E how \in {"answered", "panicked"} : Handle(r, how)
      BY <2>4 DEF Handle, Goto, RequestState, Past, Leaving
  <2> QED
      BY <2>1, <2>2, <2>3, <2>4
<1>2. pc' \in [Requests -> RequestState] /\ client' \in [Requests -> Callers]
    BY <1>1 DEF BucketTypes
<1>3. BucketTypes' /\ (sweepPanics \in 0..MaxSweepPanics)'
    BY <1>1, <1>2 DEF BucketTypes, limiter, history, GatesInv, GatesTypeOK
<1>4. \A q \in Requests : /\ pc'[q] \in {"new", "stamp", "take"} => pc'[q] = pc[q]
                          /\ pc'[q] \in Past <=> pc[q] \in Past
    BY <1>1 DEF BucketTypes
<1>5. BucketPart'
    BY <1>1, <1>4, PastTheBucket
<1>6. SlotPart'
    BY <1>1, <1>2, <1>4, SlotsKept
<1> QED
    BY <1>3, <1>5, <1>6, PartsInv

LEMMA SlotSteps ==
    ASSUME GatesInv, NEW r \in Requests, Acquire(r) \/ Release(r)
    PROVE  GatesInv'
<1> USE InvParts
<1>1. /\ UNCHANGED <<clock, client, limiter, sweep, sweepPanics, history>>
      /\ pc' = [pc EXCEPT ![r] = "authorize"] \/ pc' = [pc EXCEPT ![r] = "done"]
    BY DEF Acquire, Release, Goto
<1>2. BucketTypes' /\ (sweepPanics \in 0..MaxSweepPanics)'
    BY <1>1 DEF BucketTypes, limiter, history, GatesInv, GatesTypeOK, RequestState
<1>3. \A q \in Requests : pc'[q] \in {"new", "stamp", "take"} => pc'[q] = pc[q]
    BY <1>1 DEF BucketTypes
<1>4. BucketPart'
    BY <1>1, <1>3, PastTheBucket
<1>5. SlotPart'
    BY AcquireKeeps, ReleaseKeeps
<1> QED
    BY <1>2, <1>4, <1>5, PartsInv

LEMMA LimitSteps ==
    ASSUME GatesInv, NEW r \in Requests,
           Stamp(r) \/ TakeToken(r) \/ \E c \in Clients : LoadOrStore(r, c)
    PROVE  GatesInv'
<1> USE InvParts, Numbers
<1>1. BucketPart'
    BY StampKeeps, TakeKeeps, LoadKeeps
<1>2. UNCHANGED <<clock, sweepPanics, slots, swept>>
    BY DEF Stamp, TakeToken, LoadOrStore
<1>3. /\ pc' \in [Requests -> RequestState] /\ client' \in [Requests -> Callers]
      /\ \A q \in Requests : /\ pc'[q] \in Past <=> pc[q] \in Past
                             /\ pc[q] \in Past => client'[q] = client[q]
    BY DEF Stamp, TakeToken, LoadOrStore, Goto, Arrives, BucketTypes, RequestState, Past,
           Leaving, Callers
<1>4. SlotPart'
    BY <1>2, <1>3, SlotsKept
<1>5. BucketTypes'
  <2>1. CASE Stamp(r)
    <3>1. /\ lastSeen' \in [Requests -> 0..MaxTime]
          /\ stampedAt' \in [Requests -> 0..MaxTime]
        BY <2>1 DEF Stamp, BucketTypes
    <3> QED
        BY <1>2, <1>3, <2>1, <3>1 DEF Stamp, BucketTypes
  <2>2. CASE TakeToken(r)
    <3>1. held[r] \in Requests /\ client[r] \in Clients
        BY <2>2 DEF TakeToken, Goto, BucketPart, BucketOwners, Holds
    <3>2. PICK b \in Requests, c \in Clients, more \in {0, 1} :
              /\ b = held[r] /\ c = client[r] /\ more = IF Late(r) THEN 1 ELSE 0
        BY <3>1
    <3>3. /\ tokens[b] > 0 /\ tokens' = [tokens EXCEPT ![b] = @ - 1]
          /\ due' = [due EXCEPT ![c] = @ - 1]
          /\ late' = [late EXCEPT ![c] = @ + more]
          /\ spent' = [spent EXCEPT ![b] = @ + more]
          /\ stampedAt' = [stampedAt EXCEPT ![r] = 0]
          /\ UNCHANGED <<buckets, held, lastSeen, sweep>>
        BY <2>2, <3>2 DEF TakeToken
    <3>4. tokens' \in [Requests -> 0..Burst] /\ due' \in [Clients -> Int]
        BY <3>3 DEF BucketTypes
    <3>5. late' \in [Clients -> Nat] /\ spent' \in [Requests -> Nat]
        BY <3>3 DEF BucketTypes
    <3>6. stampedAt' \in [Requests -> 0..MaxTime]
        BY <3>3 DEF BucketTypes
    <3> QED
        BY <1>2, <1>3, <3>3, <3>4, <3>5, <3>6 DEF BucketTypes
  <2>3. ASSUME NEW c \in Clients, LoadOrStore(r, c)
        PROVE  BucketTypes'
    <3>1. /\ buckets' \in [Clients -> Requests \union {None}]
          /\ held' \in [Requests -> Requests \union {None}]
        BY <2>3 DEF LoadOrStore, BucketTypes
    <3>2. /\ tokens' \in [Requests -> 0..Burst] /\ lastSeen' \in [Requests -> 0..MaxTime]
          /\ spent' \in [Requests -> Nat]
      <4>1. Burst \in 0..Burst /\ clock \in 0..MaxTime
          BY DEF BucketTypes
      <4>2. CASE buckets[c] = None
        <5>1. /\ tokens' = [tokens EXCEPT ![r] = Burst]
              /\ lastSeen' = [lastSeen EXCEPT ![r] = clock]
              /\ spent' = [spent EXCEPT ![r] = 0]
            BY <2>3, <4>2 DEF LoadOrStore
        <5> QED
            BY <4>1, <5>1 DEF BucketTypes
      <4>3. CASE buckets[c] # None
        <5>1. PICK b \in Requests : b = buckets[c]
            BY <4>3 DEF BucketTypes
        <5>2. /\ tokens' = [tokens EXCEPT ![b] = tokens[b]]
              /\ lastSeen' = [lastSeen EXCEPT ![b] = lastSeen[b]]
              /\ spent' = [spent EXCEPT ![b] = spent[b]]
            BY <2>3, <4>3, <5>1 DEF LoadOrStore
        <5> QED
            BY <5>2 DEF BucketTypes
      <4> QED
          BY <4>2, <4>3
    <3> QED
        BY <1>2, <1>3, <2>3, <3>1, <3>2 DEF LoadOrStore, BucketTypes
  <2> QED
      BY <2>1, <2>2, <2>3
<1> QED
    BY <1>1, <1>2, <1>4, <1>5, PartsInv DEF GatesInv, GatesTypeOK

LEMMA SweepSteps ==
    ASSUME GatesInv, SweepStep \/ SweepPanics
    PROVE  GatesInv'
<1> USE InvParts, Numbers
<1>1. BucketPart'
  <2>1. CASE BeginSweep \/ EndSweep \/ SweepPanics
    <3>1. sweep' = Resting \/ BeginSweep
        BY <2>1 DEF EndSweep, SweepPanics
    <3>2. UNCHANGED <<clock, pc, client, limiter, history>>
        BY <2>1 DEF BeginSweep, EndSweep, SweepPanics
    <3> QED
        BY <3>1, <3>2, RestKeeps
  <2> QED
      BY <2>1, VisitKeeps, JudgeKeeps, DeleteKeeps DEF SweepStep
<1>2. UNCHANGED <<clock, pc, client, held, tokens, lastSeen, slots, due, late, spent, stampedAt>>
    BY DEF SweepStep, BeginSweep, Visit, Judge, Delete, EndSweep, SweepPanics, limiter, history
<1>3. SlotPart'
    BY <1>2, SlotsKept DEF SlotPart
<1>4. (sweepPanics \in 0..MaxSweepPanics)'
  <2>1. sweepPanics \in 0..MaxSweepPanics /\ MaxSweepPanics \in Nat
      BY GatesAssumption DEF GatesInv, GatesTypeOK
  <2> QED
      BY <2>1 DEF SweepStep, BeginSweep, Visit, Judge, Delete, EndSweep, SweepPanics
<1>5. BucketTypes'
  <2>1. sweep' \in Sweeps
    <3> USE DEF Sweeps
    <3>1. /\ sweep \in Sweeps /\ Resting \in Sweeps
          /\ Clients \subseteq Callers /\ Unknown \in Callers
        BY DEF BucketTypes, Resting, Callers
    <3>2. CASE BeginSweep
      <4>1. sweep' = [at |-> "range", todo |-> {c \in Clients : buckets[c] # None},
                      victim |-> Unknown, seen |-> 0]
          BY <3>2 DEF BeginSweep, Resting
      <4> QED
          BY <3>1, <4>1
    <3>3. CASE EndSweep \/ SweepPanics
        BY <3>1, <3>3 DEF EndSweep, SweepPanics
    <3>4. ASSUME NEW c \in Clients, Visit(c)
          PROVE  sweep' \in Sweeps
      <4>1. sweep.todo \ {c} \in SUBSET Clients
          BY <3>1
      <4>2. buckets[c] \in Requests
          BY <3>4 DEF Visit, BucketTypes, BucketPart, Sweeping
      <4>3. lastSeen[buckets[c]] \in 0..MaxTime
          BY <4>2 DEF BucketTypes
      <4> QED
          BY <3>1, <3>4, <4>1, <4>3 DEF Visit
    <3>5. CASE Judge \/ Delete
      <4>1. [Resting EXCEPT !.at = "range", !.todo = sweep.todo] \in Sweeps
          BY <3>1
      <4>2. [sweep EXCEPT !.at = "delete"] \in Sweeps
          BY <3>1
      <4> QED
          BY <3>5, <4>1, <4>2 DEF Judge, Delete
    <3> QED
        BY <3>2, <3>3, <3>4, <3>5 DEF SweepStep
  <2>2. buckets' \in [Clients -> Requests \union {None}] /\ swept' \in [Clients -> Nat]
      BY DEF BucketTypes, SweepStep, BeginSweep, Visit, Judge, Delete, EndSweep, SweepPanics, limiter,
             history
  <2> QED
      BY <1>2, <2>1, <2>2 DEF BucketTypes
<1> QED
    BY <1>1, <1>3, <1>4, <1>5, PartsInv

LEMMA TickSteps ==
    ASSUME GatesInv, Tick
    PROVE  GatesInv'
<1> USE InvParts, Numbers
<1>1. BucketPart'
    BY TickKeeps
<1>2. UNCHANGED <<pc, client, buckets, held, lastSeen, sweep, sweepPanics, slots,
                swept, late, spent, stampedAt>>
    BY DEF Tick
<1>3. SlotPart'
    BY <1>2, SlotsKept DEF SlotPart
<1>4. clock' \in 0..MaxTime
    BY DEF Tick, BucketTypes
<1>5. tokens' \in [Requests -> 0..Burst]
    BY DEF Tick, BucketTypes, Refill
<1>6. due' \in [Clients -> Int]
    BY DEF Tick, BucketTypes, Refill
<1> QED
    BY <1>1, <1>2, <1>3, <1>4, <1>5, <1>6, PartsInv DEF BucketTypes, GatesInv, GatesTypeOK

LEMMA StutterSteps ==
    ASSUME GatesInv, UNCHANGED gatesVars
    PROVE  GatesInv'
<1> USE InvParts
<1>1. UNCHANGED <<clock, pc, client, limiter, sweep, sweepPanics, slots, history>>
    BY DEF gatesVars
<1>2. BucketPart'
    BY <1>1, PastTheBucket
<1>3. SlotPart'
    BY <1>1, SlotsKept DEF SlotPart
<1> QED
    BY <1>1, <1>2, <1>3, PartsInv DEF BucketTypes, limiter, history, GatesInv, GatesTypeOK

\* Every state of the gates satisfies their inductive invariant.
THEOREM GatesInvariance == GatesSpec => []GatesInv
<1>1. ASSUME GatesInv, [GatesNext]_gatesVars
      PROVE  GatesInv'
  <2>1. ASSUME NEW r \in Requests, Arrive(r) \/ RequestStep(r)
        PROVE  GatesInv'
      BY <1>1, <2>1, PassesOn, SlotSteps, LimitSteps DEF Arrive, RequestStep
  <2>2. CASE SweepStep \/ SweepPanics
      BY <1>1, <2>2, SweepSteps
  <2>3. CASE Tick
      BY <1>1, <2>3, TickSteps
  <2>4. CASE AllServed \/ UNCHANGED gatesVars
      BY <1>1, <2>4, StutterSteps DEF AllServed
  <2> QED
      BY <1>1, <2>1, <2>2, <2>3, <2>4 DEF GatesNext
<1> QED
    BY <1>1, GatesInitInv, PTL DEF GatesSpec

\* Requests past the limiter (ConcurrencyLimiter.acquire) are counted exactly and never more
\* than MaxConcurrentPerIP, for every number of clients, of requests and of slots.
THEOREM SlotsAreExact == GatesSpec => []SlotsExact
<1>1. GatesInv => SlotsExact
    BY DEF GatesInv
<1> QED
    BY <1>1, GatesInvariance, PTL

\* A client gets no more tokens (RateLimiter.Limit) than one bucket gives it, but for those that
\* its requests took late and for what a deleted bucket lacked, for every rate, burst and
\* interval; where the interval fills a bucket, a deletion gives nothing away.
THEOREM RateIsKept == GatesSpec => []RateKept
<1>1. ASSUME GatesInv
      PROVE  RateKept
  <2> SUFFICES ASSUME NEW c \in Clients
               PROVE  due[c] >= 0 - Allowance(c)
      BY DEF RateKept, Allowance
  <2>1. BucketTypes
      BY <1>1, InvParts
  <2>2. due[c] + Allowance(c) >= Level(c) + Spent(c)
      BY <1>1 DEF GatesInv, Covered
  <2> QED
      BY <2>1, <2>2, ClientNumbers, Numbers
<1> QED
    BY <1>1, GatesInvariance, PTL
================================================================================
