-------------------------- MODULE AdministrationProofs --------------------------
(* What is proved of the administration of plugins and of the commands that        *)
(* publish them, for every licence, every number of calls, plugins, versions and   *)
(* attempts and every size of a page: the limit is exceeded by creations that      *)
(* overlap, and by no more than they are; what a call is told is true of some      *)
(* moment of it; a listing is sound whatever changes between its pages; a command  *)
(* has done what its exit says.                                                    *)
EXTENDS Catalogue, Publish, FiniteSetTheorems, TLAPS

-------------------------------------------------------------------------------
(* The limit *)

LEMMA AttemptsFinite == IsFiniteSet(Calls \X Attempts)
<1>1. MaxRetries + 1 \in Int /\ 1 \in Int
    BY CatalogueAssumption
<1>2. IsFiniteSet(Attempts)
    BY <1>1, FS_Interval DEF Attempts
<1> QED
    BY <1>2, FS_Product, CatalogueAssumption

LEMMA CreatingFinite == IsFiniteSet(Creating) /\ Cardinality(Creating) \in Nat
<1>1. Creating \in SUBSET (Calls \X Attempts)
    BY DEF Creating
<1>2. IsFiniteSet(Creating)
    BY <1>1, AttemptsFinite, FS_Subset
<1> QED
    BY <1>2, FS_CardinalityType

\* After a step as before it.
LEMMA CreatingFiniteNext == IsFiniteSet(Creating') /\ Cardinality(Creating') \in Nat
<1>1. Creating' \in SUBSET (Calls \X Attempts)
    BY DEF Creating
<1>2. IsFiniteSet(Creating')
    BY <1>1, AttemptsFinite, FS_Subset
<1> QED
    BY <1>2, FS_CardinalityType

LEMMA LimitType == Limit \in Int
BY CatalogueAssumption, SMT

\* A step that inserts nothing and lets no creation past the check.
LEMMA Fewer ==
    ASSUME Reserved, IsFiniteSet(rows), overlap \in Nat,
           rows' \subseteq rows, Creating' \subseteq Creating, overlap' = overlap
    PROVE  IsFiniteSet(rows') /\ Reserved'
<1>1. /\ IsFiniteSet(rows')
      /\ Cardinality(rows') \in Nat /\ Cardinality(rows) \in Nat
      /\ Cardinality(rows') <= Cardinality(rows)
    BY FS_Subset, FS_CardinalityType
<1>2. /\ Cardinality(Creating') \in Nat /\ Cardinality(Creating) \in Nat
      /\ Cardinality(Creating') <= Cardinality(Creating)
    BY FS_Subset, CreatingFinite, CreatingFiniteNext
<1> DEFINE Excess == IF overlap > 1 THEN overlap - 1 ELSE 0
<1>3. Excess \in Int /\ Excess' = Excess
    OBVIOUS
<1>4. Limit >= 0 => Cardinality(rows) + Cardinality(Creating) <= Limit + Excess
    BY DEF Reserved
<1>5. Limit >= 0 => Cardinality(rows') + Cardinality(Creating') <= Limit + Excess
  <2> HIDE DEF Excess
  <2> QED
      BY <1>1, <1>2, <1>3, <1>4, LimitType
<1>6. Reserved'
    BY <1>5 DEF Reserved
<1> QED
    BY <1>1, <1>6

\* The client's steps and the answers leave no attempt past the check that was not.
LEMMA NoNewCreation ==
    ASSUME Tables,
           NEW c \in Calls, NEW a \in Attempts,
           \/ \E what \in Ops : \E p : Begin(c, what, p)
           \/ Receive(c) \/ Lose(c) \/ Retry(c) \/ Expire(c) \/ Page(c)
           \/ \E err : Refuse(c, a, err)
    PROVE  /\ at' \in [Calls -> [Attempts -> {"none", "arrived", "checked", "answered"}]]
           /\ \A d \in Calls, b \in Attempts : at'[d][b] = "checked" => at[d][b] = "checked"
           /\ rows' = rows /\ overlap' = overlap
<1>1. CASE \E what \in Ops : \E p : Begin(c, what, p)
  <2>1. /\ at' = [at EXCEPT ![c][1] = "arrived"]
        /\ rows' = rows /\ overlap' = overlap
      BY <1>1 DEF Begin
  <2> QED
      BY <2>1 DEF Tables
<1>2. CASE Receive(c)
    BY <1>2 DEF Tables, Receive, history
<1>3. CASE Lose(c)
    BY <1>3 DEF Tables, Lose, Abandon
<1>4. CASE Retry(c)
    BY <1>4 DEF Tables, Retry, history
<1>5. CASE Expire(c)
    BY <1>5 DEF Tables, Expire, Abandon
<1>6. CASE Page(c)
    BY <1>6 DEF Tables, Page, history
<1>7. CASE \E err : Refuse(c, a, err)
    BY <1>7 DEF Tables, Refuse, Answer, history
<1> QED
    BY <1>1, <1>2, <1>3, <1>4, <1>5, <1>6, <1>7

LEMMA QuietStep ==
    ASSUME IInv,
           NEW c \in Calls, NEW a \in Attempts,
           \/ \E what \in Ops : \E p : Begin(c, what, p)
           \/ Receive(c) \/ Lose(c) \/ Retry(c) \/ Expire(c) \/ Page(c)
           \/ \E err : Refuse(c, a, err)
    PROVE  IInv'
<1>1. /\ at' \in [Calls -> [Attempts -> {"none", "arrived", "checked", "answered"}]]
      /\ \A d \in Calls, b \in Attempts : at'[d][b] = "checked" => at[d][b] = "checked"
      /\ rows' = rows /\ overlap' = overlap
    BY NoNewCreation DEF IInv
<1>2. Creating' \subseteq Creating
    BY <1>1 DEF Creating
<1>3. IsFiniteSet(rows') /\ Reserved'
    BY <1>1, <1>2, Fewer DEF IInv, Tables
<1> QED
    BY <1>1, <1>3 DEF IInv, Tables

LEMMA CheckLimitInv ==
    ASSUME IInv, NEW c \in Calls, NEW a \in Attempts, CheckLimit(c, a)
    PROVE  IInv'
<1> DEFINE n == Cardinality(Creating)
<1>1. n \in Nat
    BY CreatingFinite
<1>2. /\ rows' = rows /\ IsFiniteSet(rows) /\ overlap \in Nat
      /\ at' = [at EXCEPT ![c][a] = "checked"]
      /\ overlap' = IF n + 1 > overlap THEN n + 1 ELSE overlap
    BY DEF CheckLimit, IInv, Tables
<1>3. overlap' \in Nat /\ overlap' >= n + 1
  <2> HIDE DEF n
  <2> QED
      BY <1>1, <1>2
<1>4. at' \in [Calls -> [Attempts -> {"none", "arrived", "checked", "answered"}]]
    BY <1>2 DEF IInv, Tables
<1>5. Tables'
    BY <1>2, <1>3, <1>4 DEF Tables
<1>6. Creating' = Creating \union {<<c, a>>} /\ <<c, a>> \notin Creating
  <2>1. at[c][a] # "checked" /\ at'[c][a] = "checked"
      BY <1>2 DEF CheckLimit, IInv, Tables
  <2>2. ASSUME NEW d \in Calls, NEW b \in Attempts, <<d, b>> # <<c, a>>
        PROVE  at'[d][b] = at[d][b]
      BY <1>2, <2>2 DEF IInv, Tables
  <2> QED
      BY <2>1, <2>2 DEF Creating
<1>7. Cardinality(Creating') = n + 1
    BY <1>6, CreatingFinite, FS_AddElement
<1>8. Cardinality(rows) \in Nat
    BY <1>2, FS_CardinalityType
<1>9. Limit >= 0 => Cardinality(rows) < Limit
    BY <1>8, LimitType DEF CheckLimit, OverLimit
<1>10. Limit >= 0 => Cardinality(rows) + (n + 1) <= Limit + (overlap' - 1)
  <2> HIDE DEF n
  <2> QED
      BY <1>1, <1>3, <1>8, <1>9, LimitType
<1>11. overlap' - 1 = IF overlap' > 1 THEN overlap' - 1 ELSE 0
  <2>1. overlap' > 1 \/ overlap' - 1 = 0
    <3> HIDE DEF n
    <3> QED
        BY <1>1, <1>3
  <2> QED
      BY <2>1
<1>12. Reserved'
    BY <1>2, <1>7, <1>10, <1>11 DEF Reserved
<1> QED
    BY <1>5, <1>12 DEF IInv

\* A creation that had passed the check is done, or not to be done any more.
LEMMA InsertInv ==
    ASSUME IInv, NEW c \in Calls, NEW a \in Attempts, Insert(c, a)
    PROVE  IInv'
<1>1. /\ rows' = rows \union {plugin[c]} /\ plugin[c] \notin rows
      /\ overlap' = overlap /\ at[c][a] = "checked"
    BY DEF Insert
<1>2. /\ IsFiniteSet(rows) /\ overlap \in Nat
    BY DEF IInv, Tables
<1>3. \E to \in {"none", "answered"} : at' = [at EXCEPT ![c][a] = to]
    BY DEF Insert, Answer
<1>4. at' \in [Calls -> [Attempts -> {"none", "arrived", "checked", "answered"}]]
    BY <1>3 DEF IInv, Tables
<1>5. Creating' = Creating \ {<<c, a>>} /\ <<c, a>> \in Creating
  <2>1. at'[c][a] # "checked"
      BY <1>3 DEF IInv, Tables
  <2>2. ASSUME NEW d \in Calls, NEW b \in Attempts, <<d, b>> # <<c, a>>
        PROVE  at'[d][b] = at[d][b]
      BY <1>3, <2>2 DEF IInv, Tables
  <2> QED
      BY <1>1, <2>1, <2>2 DEF Creating
<1>6. Cardinality(Creating') = Cardinality(Creating) - 1
    BY <1>5, CreatingFinite, FS_RemoveElement
<1>7. /\ IsFiniteSet(rows') /\ Cardinality(rows) \in Nat
      /\ Cardinality(rows') = Cardinality(rows) + 1
    BY <1>1, <1>2, FS_AddElement, FS_CardinalityType
<1>8. Cardinality(rows') + Cardinality(Creating') = Cardinality(rows) + Cardinality(Creating)
    BY <1>6, <1>7, CreatingFinite
<1>9. Reserved'
    BY <1>1, <1>8 DEF IInv, Reserved
<1> QED
    BY <1>1, <1>2, <1>4, <1>7, <1>9 DEF IInv, Tables

LEMMA DeleteInv ==
    ASSUME IInv, NEW c \in Calls, NEW a \in Attempts, Delete(c, a)
    PROVE  IInv'
<1>1. rows' \subseteq rows /\ overlap' = overlap
    BY DEF Delete
<1>2. \E to \in {"none", "answered"} : at' = [at EXCEPT ![c][a] = to]
    BY DEF Delete, Answer
<1>3. /\ at' \in [Calls -> [Attempts -> {"none", "arrived", "checked", "answered"}]]
      /\ \A d \in Calls, b \in Attempts : at'[d][b] = "checked" => at[d][b] = "checked"
    BY <1>2 DEF IInv, Tables
<1>4. Creating' \subseteq Creating
    BY <1>3 DEF Creating
<1>5. IsFiniteSet(rows') /\ Reserved'
    BY <1>1, <1>4, Fewer DEF IInv, Tables
<1> QED
    BY <1>1, <1>3, <1>5 DEF IInv, Tables

LEMMA InitInv == Init => IInv
<1> SUFFICES ASSUME Init PROVE IInv
    OBVIOUS
<1>1. rows \subseteq Plugins /\ (Limit >= 0 => Cardinality(rows) <= Limit)
    BY DEF Init
<1>2. IsFiniteSet(rows) /\ Cardinality(rows) \in Nat
    BY <1>1, CatalogueAssumption, FS_Subset, FS_CardinalityType
<1>3. Tables
    BY <1>2 DEF Init, Tables
<1>4. Creating = {}
    BY DEF Init, Creating
<1>5. Cardinality(Creating) = 0 /\ overlap = 0
    BY <1>4, FS_EmptySet DEF Init
<1>6. Reserved
    BY <1>1, <1>2, <1>5, LimitType DEF Reserved
<1> QED
    BY <1>3, <1>6 DEF IInv

LEMMA StutterInv == IInv /\ UNCHANGED vars => IInv'
<1> SUFFICES ASSUME IInv, UNCHANGED vars PROVE IInv'
    OBVIOUS
<1>1. rows' = rows /\ at' = at /\ overlap' = overlap
    BY DEF vars, history
<1>2. Creating' = Creating
    BY <1>1 DEF Creating
<1> QED
    BY <1>1, <1>2 DEF IInv, Tables, Reserved

LEMMA HandlerInv ==
    ASSUME IInv, NEW c \in Calls, NEW a \in Attempts, HandlerStep(c, a)
    PROVE  IInv'
<1>1. CASE \E err : Refuse(c, a, err)
    BY <1>1, QuietStep
<1>2. CASE Invalid(c, a) \/ Fails(c, a) \/ LimitExceeded(c, a) \/ NoArchive(c, a)
           \/ Conflict(c, a) \/ Missing(c, a)
    BY <1>1, <1>2 DEF Invalid, Fails, LimitExceeded, NoArchive, Conflict, Missing
<1>3. CASE Update(c, a)
    BY <1>1, <1>3 DEF Update
<1>4. CASE CheckLimit(c, a)
    BY <1>4, CheckLimitInv
<1>5. CASE Insert(c, a)
    BY <1>5, InsertInv
<1>6. CASE Delete(c, a)
    BY <1>6, DeleteInv
<1> QED
    BY <1>2, <1>3, <1>4, <1>5, <1>6 DEF HandlerStep

LEMMA StepInv == IInv /\ [Next]_vars => IInv'
<1> SUFFICES ASSUME IInv, [Next]_vars PROVE IInv'
    OBVIOUS
<1>1. 1 \in Attempts
    BY CatalogueAssumption DEF Attempts
<1>2. ASSUME NEW c \in Calls, Start(c) PROVE IInv'
  <2>1. \E what \in Ops : \E p : Begin(c, what, p)
      BY <1>2 DEF Start, Ops
  <2> QED
      BY <1>1, <2>1, QuietStep
<1>3. ASSUME NEW c \in Calls, ClientStep(c) \/ Lose(c) \/ Expire(c) PROVE IInv'
    BY <1>1, <1>3, QuietStep DEF ClientStep
<1>4. ASSUME NEW c \in Calls, NEW a \in Attempts, HandlerStep(c, a) PROVE IInv'
    BY <1>4, HandlerInv
<1>5. CASE UNCHANGED vars \/ Over
    BY <1>5, StutterInv DEF Over
<1> QED
    BY <1>2, <1>3, <1>4, <1>5 DEF Next

\* In every state: creations that have passed the check are within the limit as
\* if they had inserted (Core.CreatePlugin).
THEOREM Invariance == Spec => []IInv
<1>1. Init => IInv
    BY InitInv
<1>2. IInv /\ [Next]_vars => IInv'
    BY StepInv
<1> QED
    BY <1>1, <1>2, PTL DEF Spec

LEMMA OvershootFromInv == IInv => LimitOvershoot
<1> SUFFICES ASSUME IInv, Limit >= 0
             PROVE  Cardinality(rows) <= (IF overlap > 1 THEN Limit + overlap - 1 ELSE Limit)
    BY DEF LimitOvershoot
<1>1. Cardinality(rows) \in Nat /\ overlap \in Nat
    BY FS_CardinalityType DEF IInv, Tables
<1>2. Cardinality(rows) + Cardinality(Creating) <= Limit + (IF overlap > 1 THEN overlap - 1 ELSE 0)
    BY DEF IInv, Reserved
<1> QED
    BY <1>1, <1>2, CreatingFinite, LimitType

\* A licence's limit is exceeded by as many plugins as there were creations at
\* once between the check and the INSERT, less one, however many calls there are
\* and however often they are repeated (Core.CreatePlugin, Registry.Create).
THEOREM LimitExceededOnlyByOverlap == Spec => []LimitOvershoot
BY Invariance, OvershootFromInv, PTL

-------------------------------------------------------------------------------
(* Sets of plugins and the pages that are cut from them *)

\* What is below or above a number is smaller, as a set, for the least or greatest one.
LEMMA LeastOfASet ==
    ASSUME NEW T \in SUBSET Nat, T # {}
    PROVE  \E m \in T : \A p \in T : m <= p
<1> DEFINE S == FiniteSubsetsOf(Nat)
           R == StrictSubsetOrdering(Nat)
           U == {0..p : p \in T}
<1>1. IsWellFoundedOn(R, S)
    BY FS_StrictSubsetOrderingWellFounded
<1>2. U \subseteq S /\ U # {}
  <2>1. ASSUME NEW p \in T PROVE 0..p \in S
    <3>1. p \in Nat /\ 0 \in Int /\ 0..p \in SUBSET Nat
        OBVIOUS
    <3>2. IsFiniteSet(0..p)
        BY <3>1, FS_Interval
    <3> QED
        BY <3>1, <3>2 DEF FiniteSubsetsOf
  <2>2. U \subseteq S
      BY <2>1
  <2>3. U # {}
      OBVIOUS
  <2> QED
      BY <2>2, <2>3
<1>3. \E x \in U : \A y \in U : ~(<<y, x>> \in R)
  <2> HIDE DEF R, S, U
  <2> QED
      BY <1>1, <1>2, WFMin
<1>4. PICK m \in T : \A p \in T : <<0..p, 0..m>> \notin R
    BY <1>3
<1>5. ASSUME NEW p \in T, p < m
      PROVE  <<0..p, 0..m>> \in R
  <2>1. m \in 0..m /\ m \notin 0..p /\ 0..p \subseteq 0..m
      BY <1>5
  <2>2. 0..p \in SUBSET Nat /\ 0..m \in SUBSET Nat
      OBVIOUS
  <2>3. 0..p # 0..m
      BY <2>1
  <2> QED
      BY <2>1, <2>2, <2>3 DEF StrictSubsetOrdering
<1>6. \A p \in T : ~(p < m)
    BY <1>4, <1>5
<1> QED
    BY <1>6

LEMMA GreatestOfASet ==
    ASSUME NEW T \in SUBSET Nat, IsFiniteSet(T), T # {}
    PROVE  \E m \in T : \A p \in T : p <= m
<1> DEFINE Above(p) == {q \in T : q > p}
           S == FiniteSubsetsOf(T)
           R == StrictSubsetOrdering(T)
           U == {Above(p) : p \in T}
<1>1. IsWellFoundedOn(R, S)
    BY FS_StrictSubsetOrderingWellFounded
<1>2. U \subseteq S /\ U # {}
  <2>1. ASSUME NEW p \in T PROVE Above(p) \in SUBSET T /\ IsFiniteSet(Above(p))
      BY FS_Subset
  <2> QED
      BY <2>1 DEF FiniteSubsetsOf
<1>3. \E x \in U : \A y \in U : ~(<<y, x>> \in R)
  <2> HIDE DEF R, S, U
  <2> QED
      BY <1>1, <1>2, WFMin
<1>4. PICK m \in T : \A p \in T : <<Above(p), Above(m)>> \notin R
    BY <1>3
<1>5. ASSUME NEW p \in T, p > m
      PROVE  <<Above(p), Above(m)>> \in R
  <2>1. \A q \in T : q \in Nat
      OBVIOUS
  <2>2. \A q \in T : q > p => q > m
      BY <1>5, <2>1
  <2>3. p \in Above(m) /\ p \notin Above(p)
      BY <1>5, <2>1
  <2>4. Above(p) \subseteq Above(m)
      BY <2>2
  <2> QED
      BY <2>3, <2>4 DEF StrictSubsetOrdering
<1>6. \A p \in T : ~(p > m)
    BY <1>4, <1>5
<1> QED
    BY <1>6

\* Less than n elements are below those of a page, and below whatever is below them.
LEMMA FirstIsASegment ==
    ASSUME NEW S \in SUBSET Nat, IsFiniteSet(S), NEW n \in Nat,
           NEW p \in S, NEW q \in First(n, S), p <= q
    PROVE  p \in First(n, S)
<1> DEFINE Below(x) == {y \in S : y < x}
<1>1. q \in S /\ Cardinality(Below(q)) < n
    BY DEF First
<1>2. Below(p) \in SUBSET Below(q)
  <2>1. p \in Nat /\ q \in Nat /\ \A y \in S : y \in Nat
      BY <1>1
  <2>2. \A y \in S : y < p => y < q
      BY <2>1
  <2> QED
      BY <2>2
<1>3. IsFiniteSet(Below(q))
    BY FS_Subset
<1>4. /\ Cardinality(Below(p)) <= Cardinality(Below(q))
      /\ Cardinality(Below(p)) \in Nat /\ Cardinality(Below(q)) \in Nat
    BY <1>2, <1>3, FS_Subset, FS_CardinalityType
<1> QED
    BY <1>1, <1>4 DEF First

\* A probe that does not fill has everything.
LEMMA ShortProbe ==
    ASSUME NEW S \in SUBSET Nat, IsFiniteSet(S), NEW n \in Nat,
           ~(Cardinality(First(n + 1, S)) > n)
    PROVE  First(n + 1, S) = S /\ First(n, S) = S
<1> DEFINE Below(x) == {y \in S : y < x}
           probe == First(n + 1, S)
<1>1. \A x \in S : IsFiniteSet(Below(x)) /\ Cardinality(Below(x)) \in Nat
    BY FS_Subset, FS_CardinalityType
<1>2. probe \in SUBSET S /\ IsFiniteSet(probe) /\ Cardinality(probe) \in Nat
    BY FS_Subset, FS_CardinalityType DEF First
<1>3. SUFFICES ASSUME NEW x \in S PROVE Cardinality(Below(x)) < n
  <2>1. \A x \in S : Cardinality(Below(x)) < n /\ Cardinality(Below(x)) < n + 1
      BY <1>1, <1>3
  <2> QED
      BY <2>1 DEF First
<1>4. S = probe
  <2>1. SUFFICES ASSUME S \ probe # {} PROVE FALSE
      BY <1>2
  <2>2. S \ probe \in SUBSET Nat
      OBVIOUS
  <2>3. PICK m \in S \ probe : \A p \in S \ probe : m <= p
      BY <2>1, <2>2, LeastOfASet
  <2>4. Below(m) \in SUBSET probe
    <3>1. \A y \in S : y \in Nat
        OBVIOUS
    <3>2. \A y \in S : y < m => y \in probe
        BY <2>3, <3>1
    <3> QED
        BY <3>2
  <2>5. Cardinality(Below(m)) <= Cardinality(probe)
      BY <1>2, <2>4, FS_Subset
  <2>6. Cardinality(Below(m)) < n + 1
      BY <1>1, <1>2, <2>3, <2>5
  <2> QED
      BY <2>3, <2>6 DEF First
<1>5. x \notin Below(x) /\ Below(x) \in SUBSET S
    OBVIOUS
<1>6. Cardinality(Below(x)) <= Cardinality(S) /\ Cardinality(Below(x)) # Cardinality(S)
    BY <1>5, FS_Subset
<1> QED
    BY <1>1, <1>2, <1>4, <1>6

\* The page that is taken from a longer probe ends with its greatest element, and leaves
\* nothing out below it.
LEMMA FullPage ==
    ASSUME NEW S \in SUBSET Nat, IsFiniteSet(S), NEW n \in Nat \ {0},
           NEW probe, probe = First(n + 1, S), Cardinality(probe) > n,
           NEW next, next = CHOOSE p \in First(n, probe) : \A q \in First(n, probe) : q <= p
    PROVE  /\ next \in First(n, probe)
           /\ \A p \in First(n, probe) : p <= next
           /\ \A p \in S : p <= next => p \in First(n, probe)
<1> DEFINE page == First(n, probe)
<1>1. probe \in SUBSET Nat /\ probe \subseteq S /\ IsFiniteSet(probe)
    BY FS_Subset DEF First
<1>2. page \in SUBSET Nat /\ page \subseteq probe /\ IsFiniteSet(page)
    BY <1>1, FS_Subset DEF First
<1>3. page # {}
  <2>1. probe # {}
      BY FS_EmptySet
  <2>2. PICK m \in probe : \A p \in probe : m <= p
      BY <1>1, <2>1, LeastOfASet
  <2>3. \A q \in probe : q \in Nat
      BY <1>1
  <2>4. {q \in probe : q < m} = {}
      BY <2>2, <2>3
  <2>5. Cardinality({q \in probe : q < m}) = 0
      BY <2>4, FS_EmptySet
  <2> QED
      BY <2>2, <2>5 DEF First
<1>4. \E m \in page : \A p \in page : p <= m
    BY <1>2, <1>3, GreatestOfASet
<1>5. next \in page /\ \A p \in page : p <= next
    BY <1>4
<1>6. ASSUME NEW p \in S, p <= next
      PROVE  p \in page
  <2>1. next \in probe /\ next \in First(n + 1, S) /\ n + 1 \in Nat
      BY <1>2, <1>5
  <2>2. p \in First(n + 1, S)
      BY <1>6, <2>1, FirstIsASegment
  <2> QED
      BY <1>1, <1>5, <1>6, <2>2, FirstIsASegment
<1> QED
    BY <1>5, <1>6

-------------------------------------------------------------------------------
(* Calls and their attempts *)

\* The domain errors, and what they are to a client.
Errors == {"OK", "ErrInvalid", "ErrMaxPluginsExceeded", "ErrStorageUnavailable",
           "ErrBinaryNotUploaded", "ErrAlreadyExists", "ErrNotFound", "Other"}

LEMMA StatusIsACode ==
    /\ \A err \in Errors : Status[err] \in Codes
    /\ "OK" \in Codes /\ "Unavailable" \in Codes /\ "DeadlineExceeded" \in Codes
    /\ Status["OK"] = "OK" /\ Status["Other"] = "Internal"
    /\ Status["ErrAlreadyExists"] = "AlreadyExists" /\ Status["ErrNotFound"] = "NotFound"
    /\ \A err \in Errors \ {"OK", "ErrAlreadyExists", "ErrNotFound"} :
           Status[err] \notin {"OK", "AlreadyExists", "NotFound"}
<1>1. DOMAIN Status = Errors
    BY DEF Status, Errors
<1>2. \A err \in Errors : Status[err] \in Codes
    BY <1>1 DEF Codes
<1>3. Status["OK"] = "OK" /\ Status["ErrStorageUnavailable"] = "Unavailable"
    BY DEF Status
<1>4. "OK" \in Codes /\ "Unavailable" \in Codes
    BY <1>2, <1>3 DEF Errors
<1> QED
    BY <1>2, <1>3, <1>4 DEF Codes, Status, Errors

LEMMA AttemptsType ==
    /\ MaxRetries \in Nat /\ Attempts \subseteq Nat /\ 1 \in Attempts
    /\ \A a \in Attempts : a <= MaxRetries => a + 1 \in Attempts
BY CatalogueAssumption DEF Attempts

\* What is true of a call stays true while it gains effects and sees more of the table.
LEMMA TruthLasts ==
    ASSUME TypeOK, NEW c \in Calls, NEW code,
           UNCHANGED <<op, plugin>>, effects'[c] \in Nat, effects[c] <= effects'[c],
           always'[c] \subseteq always[c], ever[c] \subseteq ever'[c],
           Truth(c, code)
    PROVE  Truth(c, code)'
<1>1. effects[c] \in Nat
    BY DEF TypeOK
<1> QED
    BY <1>1 DEF Truth

\* A listing is left as it is: by all steps but its beginning and its pages.
LEMMA ListingKept ==
    ASSUME CallsInv, UNCHANGED <<op, listing>>,
           \A d \in Calls :
               /\ (Running(d))' => Running(d)
               /\ pc'[d] = "idle" => pc[d] = "idle" /\ attempt'[d] = attempt[d]
               /\ result'[d] = "OK" /\ op[d] = "list" => result[d] = "OK"
               /\ always'[d] \subseteq always[d] /\ ever[d] \subseteq ever'[d]
    PROVE  ListedSoFar' /\ ListingSound'
<1>1. \A d \in Calls : (Got(d))' = Got(d) /\ listed'[d] = listed[d] /\ token'[d] = token[d]
    BY DEF Got, listing
<1>2. ListedSoFar'
  <2> SUFFICES ASSUME NEW d \in Calls
               PROVE  /\ pc'[d] = "idle" => attempt'[d] = 1 /\ listed'[d] = <<>> /\ token'[d] = 0
                      /\ op'[d] = "list" /\ (Running(d))' =>
                             /\ Ascending(listed'[d])
                             /\ \A p \in (Got(d))' : p <= token'[d]
                             /\ {p \in always'[d] : p <= token'[d]} \subseteq (Got(d))'
                             /\ (Got(d))' \subseteq ever'[d]
      BY DEF ListedSoFar, Ascending
  <2> QED
      BY <1>1 DEF CallsInv, ListedSoFar
<1>3. ListingSound'
  <2> SUFFICES ASSUME NEW d \in Calls, op'[d] = "list", result'[d] = "OK"
               PROVE  /\ Ascending(listed'[d])
                      /\ always'[d] \subseteq (Got(d))'
                      /\ (Got(d))' \subseteq ever'[d]
      BY DEF ListingSound, Ascending
  <2> QED
      BY <1>1 DEF CallsInv, ListingSound
<1> QED
    BY <1>2, <1>3

\* Types of an answer.
LEMMA AnswerType ==
    ASSUME TypeOK, NEW c \in Calls, NEW a \in Attempts, NEW err \in Errors, Answer(c, a, err)
    PROVE  /\ at' \in [Calls -> [Attempts -> {"none", "arrived", "checked", "answered"}]]
           /\ answer' \in [Calls -> [Attempts -> Codes]]
           /\ <<c, a>> \in forsaken => at'[c][a] = "none"
           /\ <<c, a>> \notin forsaken => at'[c][a] = "answered" /\ answer'[c][a] = Status[err]
           /\ \A d \in Calls, b \in Attempts :
                  d # c \/ b # a => at'[d][b] = at[d][b] /\ answer'[d][b] = answer[d][b]
<1>1. Status[err] \in Codes
    BY StatusIsACode
<1>2. CASE <<c, a>> \in forsaken
  <2>1. at' = [at EXCEPT ![c][a] = "none"] /\ answer' = answer
      BY <1>2 DEF Answer
  <2>2. at' \in [Calls -> [Attempts -> {"none", "arrived", "checked", "answered"}]]
      BY <2>1 DEF TypeOK
  <2>3. /\ at'[c][a] = "none"
        /\ \A d \in Calls, b \in Attempts : d # c \/ b # a => at'[d][b] = at[d][b]
      BY <2>1 DEF TypeOK
  <2> QED
      BY <1>2, <2>1, <2>2, <2>3 DEF TypeOK
<1>3. CASE <<c, a>> \notin forsaken
  <2>1. at' = [at EXCEPT ![c][a] = "answered"] /\ answer' = [answer EXCEPT ![c][a] = Status[err]]
      BY <1>3 DEF Answer
  <2>2. at' \in [Calls -> [Attempts -> {"none", "arrived", "checked", "answered"}]]
      BY <2>1 DEF TypeOK
  <2>3. answer' \in [Calls -> [Attempts -> Codes]]
      BY <1>1, <2>1 DEF TypeOK
  <2>4. /\ at'[c][a] = "answered"
        /\ \A d \in Calls, b \in Attempts : d # c \/ b # a => at'[d][b] = at[d][b]
      BY <2>1 DEF TypeOK
  <2>5. /\ answer'[c][a] = Status[err]
        /\ \A d \in Calls, b \in Attempts : d # c \/ b # a => answer'[d][b] = answer[d][b]
      BY <2>1 DEF TypeOK
  <2> QED
      BY <1>3, <2>2, <2>3, <2>4, <2>5
<1> QED
    BY <1>2, <1>3

\* An attempt that is answered, or dropped, goes on from being at work to rest.
LEMMA AtWork ==
    ASSUME CallsInv, NEW c \in Calls, NEW a \in Attempts, at[c][a] \in {"arrived", "checked"},
           \A b \in Attempts : <<c, b>> \notin forsaken
    PROVE  pc[c] = "calling" /\ a = attempt[c] /\ ~Settled(c) /\ effects[c] = 0
<1>1. pc[c] = "calling" /\ a = attempt[c]
    BY DEF CallsInv, InHand
<1>2. ~Settled(c)
    BY <1>1 DEF Settled
<1> QED
    BY <1>1, <1>2 DEF CallsInv, EffectsTold

LEMMA RefuseKeeps ==
    ASSUME CallsInv, NEW c \in Calls, NEW a \in Attempts, NEW err \in Errors,
           at[c][a] \in {"arrived", "checked"}, Refuse(c, a, err),
           <<c, a>> \notin forsaken => Truth(c, Status[err])
    PROVE  CallsInv'
<1>1. /\ Answer(c, a, err)
      /\ UNCHANGED <<rows, op, plugin, pc, attempt, token, listed, result, overlap, effects,
                     forsaken, always, ever>>
    BY DEF Refuse, listing, history
<1>2. /\ at' \in [Calls -> [Attempts -> {"none", "arrived", "checked", "answered"}]]
      /\ answer' \in [Calls -> [Attempts -> Codes]]
      /\ <<c, a>> \in forsaken => at'[c][a] = "none"
      /\ <<c, a>> \notin forsaken => at'[c][a] = "answered" /\ answer'[c][a] = Status[err]
      /\ \A d \in Calls, b \in Attempts :
             d # c \/ b # a => at'[d][b] = at[d][b] /\ answer'[d][b] = answer[d][b]
  <2> HIDE DEF Errors
  <2> QED
      BY <1>1, AnswerType DEF CallsInv
<1>3. TypeOK'
    BY <1>1, <1>2 DEF CallsInv, TypeOK
<1>4. Tracked'
    BY <1>1 DEF CallsInv, Tracked, Running
<1>5. InHand'
  <2> SUFFICES ASSUME NEW d \in Calls, NEW b \in Attempts
               PROVE  /\ at'[d][b] # "none" => <<d, b>> \in forsaken \/ (pc[d] = "calling" /\ b = attempt[d])
                      /\ <<d, b>> \in forsaken =>
                             /\ b <= attempt[d] /\ (pc[d] = "calling" => b # attempt[d])
                             /\ at'[d][b] # "answered"
                      /\ at'[d][b] = "checked" => op[d] = "create"
      BY <1>1 DEF InHand
  <2>1. CASE d = c /\ b = a
      BY <1>2, <2>1 DEF CallsInv, InHand
  <2>2. CASE d # c \/ b # a
      BY <1>2, <2>2 DEF CallsInv, InHand
  <2> QED
      BY <2>1, <2>2
<1>6. \A d \in Calls : \A code : Truth(d, code) => Truth(d, code)'
    BY <1>1 DEF Truth
<1>7. AnswersUnderWay'
  <2> SUFFICES ASSUME NEW d \in Calls, NEW b \in Attempts, at'[d][b] = "answered"
               PROVE  (Truth(d, answer[d][b]))'
      BY DEF AnswersUnderWay
  <2>1. PICK code : code = answer'[d][b]
      OBVIOUS
  <2>2. Truth(d, code)
      BY <1>2, <2>1 DEF CallsInv, AnswersUnderWay
  <2>3. Truth(d, code)'
      BY <1>6, <2>2
  <2> QED
      BY <2>1, <2>3 DEF Truth
<1>8. EffectsTold'
  <2> SUFFICES ASSUME NEW d \in Calls, effects[d] # 0, \A b \in Attempts : <<d, b>> \notin forsaken
               PROVE  effects[d] = 1 /\ (Settled(d))'
      BY <1>1 DEF CallsInv, EffectsTold
  <2>1. d # c
      BY AtWork
  <2>2. effects[d] = 1 /\ Settled(d)
      BY DEF CallsInv, EffectsTold
  <2>3. attempt[d] \in Attempts
      BY DEF CallsInv, TypeOK
  <2> QED
      BY <1>1, <1>2, <2>1, <2>2, <2>3 DEF Settled
<1>9. ListedSoFar' /\ ListingSound'
    BY <1>1, ListingKept DEF Running, listing
<1>10. AnswersTrue'
    BY <1>1 DEF CallsInv, AnswersTrue, Truth
<1> QED
    BY <1>3, <1>4, <1>5, <1>7, <1>8, <1>9, <1>10 DEF CallsInv

LEMMA CheckKeeps ==
    ASSUME CallsInv, NEW c \in Calls, NEW a \in Attempts, CheckLimit(c, a)
    PROVE  CallsInv'
<1>1. /\ at[c][a] = "arrived" /\ op[c] = "create" /\ at' = [at EXCEPT ![c][a] = "checked"]
      /\ UNCHANGED <<rows, op, plugin, pc, attempt, answer, token, listed, result, effects,
                     forsaken, always, ever>>
    BY DEF CheckLimit, listing
<1>2. /\ at' \in [Calls -> [Attempts -> {"none", "arrived", "checked", "answered"}]]
      /\ at'[c][a] = "checked"
      /\ \A d \in Calls, b \in Attempts : d # c \/ b # a => at'[d][b] = at[d][b]
    BY <1>1 DEF CallsInv, TypeOK
<1>3. overlap' \in Nat
  <2>1. Cardinality(Creating) \in Nat /\ overlap \in Nat
      BY CreatingFinite DEF CallsInv, TypeOK
  <2> QED
      BY <2>1 DEF CheckLimit
<1>4. TypeOK'
    BY <1>1, <1>2, <1>3 DEF CallsInv, TypeOK
<1>5. Tracked'
    BY <1>1 DEF CallsInv, Tracked, Running
<1>6. InHand'
  <2> SUFFICES ASSUME NEW d \in Calls, NEW b \in Attempts
               PROVE  /\ at'[d][b] # "none" => <<d, b>> \in forsaken \/ (pc[d] = "calling" /\ b = attempt[d])
                      /\ <<d, b>> \in forsaken =>
                             /\ b <= attempt[d] /\ (pc[d] = "calling" => b # attempt[d])
                             /\ at'[d][b] # "answered"
                      /\ at'[d][b] = "checked" => op[d] = "create"
      BY <1>1 DEF InHand
  <2>1. CASE d = c /\ b = a
      BY <1>1, <1>2, <2>1 DEF CallsInv, InHand
  <2>2. CASE d # c \/ b # a
      BY <1>2, <2>2 DEF CallsInv, InHand
  <2> QED
      BY <2>1, <2>2
<1>7. \A d \in Calls, b \in Attempts : at'[d][b] = "answered" => at[d][b] = "answered"
    BY <1>2
<1>8. AnswersUnderWay'
    BY <1>1, <1>7 DEF CallsInv, AnswersUnderWay, Truth
<1>9. \A d \in Calls : Settled(d) => (Settled(d))'
  <2>1. \A d \in Calls : attempt[d] \in Attempts
      BY DEF CallsInv, TypeOK
  <2>2. \A d \in Calls, b \in Attempts : at[d][b] = "answered" => at'[d][b] = "answered"
      BY <1>1, <1>2
  <2> QED
      BY <1>1, <2>1, <2>2 DEF Settled
<1>10. EffectsTold'
    BY <1>1, <1>9 DEF CallsInv, EffectsTold
<1>11. ListedSoFar' /\ ListingSound'
    BY <1>1, ListingKept DEF Running, listing
<1>12. AnswersTrue'
    BY <1>1 DEF CallsInv, AnswersTrue, Truth
<1> QED
    BY <1>4, <1>5, <1>6, <1>8, <1>10, <1>11, <1>12 DEF CallsInv

\* A row is inserted or deleted: a call that is creating or deleting has done it.
LEMMA ChangeKeeps ==
    ASSUME CallsInv, NEW c \in Calls, NEW a \in Attempts, Insert(c, a) \/ Delete(c, a)
    PROVE  CallsInv'
<1>1. /\ at[c][a] \in {"arrived", "checked"} /\ op[c] \in {"create", "delete"}
      /\ rows' \subseteq Plugins /\ Changed(c)
      /\ \E err \in {"OK", "Other"} : Answer(c, a, err)
      /\ UNCHANGED <<op, plugin, pc, attempt, token, listed, result, overlap, forsaken>>
  <2>1. rows \subseteq Plugins /\ plugin[c] \in Plugins \union {None}
      BY DEF CallsInv, TypeOK
  <2>2. CASE Insert(c, a)
    <3>1. op[c] = "create"
        BY <2>2 DEF Insert, CallsInv, InHand
    <3>2. pc[c] # "idle"
        BY <2>2 DEF Insert, CallsInv, InHand, EffectsTold
    <3>3. plugin[c] \in Plugins
        BY <3>1, <3>2 DEF CallsInv, EffectsTold
    <3> QED
        BY <2>1, <2>2, <3>1, <3>3 DEF Insert, listing
  <2>3. CASE Delete(c, a)
      BY <2>1, <2>3 DEF Delete, listing
  <2> QED
      BY <2>2, <2>3
<1>2. PICK err \in {"OK", "Other"} : Answer(c, a, err)
    BY <1>1
<1>3. err \in Errors /\ Status[err] \in {"OK", "Internal"}
    BY StatusIsACode DEF Errors
<1>4. /\ at' \in [Calls -> [Attempts -> {"none", "arrived", "checked", "answered"}]]
      /\ answer' \in [Calls -> [Attempts -> Codes]]
      /\ <<c, a>> \in forsaken => at'[c][a] = "none"
      /\ <<c, a>> \notin forsaken => at'[c][a] = "answered" /\ answer'[c][a] = Status[err]
      /\ \A d \in Calls, b \in Attempts :
             d # c \/ b # a => at'[d][b] = at[d][b] /\ answer'[d][b] = answer[d][b]
  <2> HIDE DEF Errors
  <2> QED
      BY <1>2, <1>3, AnswerType DEF CallsInv
<1>5. /\ effects' \in [Calls -> Nat] /\ effects'[c] = effects[c] + 1
      /\ \A d \in Calls : d # c => effects'[d] = effects[d]
    BY <1>1 DEF Changed, CallsInv, TypeOK
<1>6. /\ always' \in [Calls -> SUBSET Plugins] /\ ever' \in [Calls -> SUBSET Plugins]
      /\ \A d \in Calls : /\ always'[d] \subseteq always[d] /\ ever[d] \subseteq ever'[d]
                          /\ Running(d) => always'[d] \subseteq rows' /\ rows' \subseteq ever'[d]
    BY <1>1 DEF Changed, CallsInv, TypeOK
<1>7. TypeOK'
    BY <1>1, <1>4, <1>5, <1>6 DEF CallsInv, TypeOK
<1>8. Tracked'
    BY <1>1, <1>6 DEF CallsInv, Tracked, Running
<1>9. InHand'
  <2> SUFFICES ASSUME NEW d \in Calls, NEW b \in Attempts
               PROVE  /\ at'[d][b] # "none" => <<d, b>> \in forsaken \/ (pc[d] = "calling" /\ b = attempt[d])
                      /\ <<d, b>> \in forsaken =>
                             /\ b <= attempt[d] /\ (pc[d] = "calling" => b # attempt[d])
                             /\ at'[d][b] # "answered"
                      /\ at'[d][b] = "checked" => op[d] = "create"
      BY <1>1 DEF InHand
  <2>1. CASE d = c /\ b = a
      BY <1>1, <1>4, <2>1 DEF CallsInv, InHand
  <2>2. CASE d # c \/ b # a
      BY <1>4, <2>2 DEF CallsInv, InHand
  <2> QED
      BY <2>1, <2>2
<1>10. ASSUME NEW d \in Calls, NEW code, Truth(d, code)
       PROVE  Truth(d, code)'
  <2>1. effects[d] \in Nat /\ effects'[d] \in Nat /\ effects[d] <= effects'[d]
    <3>1. effects[d] \in Nat
        BY DEF CallsInv, TypeOK
    <3>2. CASE d = c
        BY <1>5, <3>1, <3>2
    <3>3. CASE d # c
        BY <1>5, <3>1, <3>3
    <3> QED
        BY <3>1, <3>2, <3>3
  <2> QED
      BY <1>1, <1>6, <1>10, <2>1, TruthLasts DEF CallsInv
<1>11. AnswersUnderWay'
  <2> SUFFICES ASSUME NEW d \in Calls, NEW b \in Attempts, at'[d][b] = "answered"
               PROVE  (Truth(d, answer[d][b]))'
      BY DEF AnswersUnderWay
  <2>1. PICK code : code = answer'[d][b]
      OBVIOUS
  <2>2. CASE d = c /\ b = a
    <3>1. code \in {"OK", "Internal"}
        BY <1>3, <1>4, <2>1, <2>2
    <3>2. effects'[c] > 0
        BY <1>5 DEF CallsInv, TypeOK
    <3>3. Truth(d, code)'
        BY <1>1, <2>2, <3>1, <3>2 DEF Truth
    <3> QED
        BY <2>1, <3>3 DEF Truth
  <2>3. CASE d # c \/ b # a
    <3>1. Truth(d, code)
        BY <1>4, <2>1, <2>3 DEF CallsInv, AnswersUnderWay
    <3>2. Truth(d, code)'
        BY <1>10, <3>1
    <3> QED
        BY <2>1, <3>2 DEF Truth
  <2> QED
      BY <2>2, <2>3
<1>12. EffectsTold'
  <2> SUFFICES ASSUME NEW d \in Calls
               PROVE  /\ pc[d] = "idle" => \A b \in Attempts : <<d, b>> \notin forsaken
                      /\ pc[d] = "idle" \/ op[d] \in {"list", "update"} => effects'[d] = 0
                      /\ pc[d] # "idle" /\ op[d] # "list" => plugin[d] \in Plugins
                      /\ \/ effects'[d] = 0 \/ (effects'[d] = 1 /\ (Settled(d))')
                         \/ \E b \in Attempts : <<d, b>> \in forsaken
      BY <1>1 DEF EffectsTold
  <2>1. attempt[d] \in Attempts
      BY DEF CallsInv, TypeOK
  <2>2. CASE d # c
    <3>1. Settled(d) => (Settled(d))'
        BY <1>1, <1>4, <2>1, <2>2 DEF Settled
    <3> QED
        BY <1>5, <2>2, <3>1 DEF CallsInv, EffectsTold
  <2>3. CASE d = c
    <3>1. pc[c] # "idle"
        BY <1>1 DEF CallsInv, InHand, EffectsTold
    <3>2. ASSUME \A b \in Attempts : <<c, b>> \notin forsaken
          PROVE  effects'[c] = 1 /\ (Settled(c))'
      <4>1. pc[c] = "calling" /\ a = attempt[c] /\ effects[c] = 0
          BY <1>1, <3>2, AtWork
      <4> QED
          BY <1>1, <1>3, <1>4, <1>5, <3>2, <4>1 DEF Settled
    <3> QED
        BY <1>1, <2>3, <3>1, <3>2 DEF CallsInv, EffectsTold
  <2> QED
      BY <2>2, <2>3
<1>13. ListedSoFar' /\ ListingSound'
    BY <1>1, <1>6, ListingKept DEF Running, listing
<1>14. AnswersTrue'
  <2> SUFFICES ASSUME NEW d \in Calls
               PROVE  (Truth(d, result[d]))'
      BY DEF AnswersTrue
  <2>1. PICK code : code = result[d]
      OBVIOUS
  <2>2. Truth(d, code)'
      BY <1>10, <2>1 DEF CallsInv, AnswersTrue
  <2> QED
      BY <1>1, <2>1, <2>2 DEF Truth
<1> QED
    BY <1>7, <1>8, <1>9, <1>11, <1>12, <1>13, <1>14 DEF CallsInv

\* A call hears no more of its attempt: Lose and Expire.
LEMMA LeaveKeeps ==
    ASSUME CallsInv, NEW c \in Calls, Lose(c) \/ Expire(c)
    PROVE  CallsInv'
<1> DEFINE a == attempt[c]
<1>1. /\ Running(c) /\ Abandon(c, a)
      /\ UNCHANGED <<rows, op, plugin, attempt, token, listed, overlap, effects, always, ever>>
      /\ pc[c] = "calling" => forsaken' = forsaken \union {<<c, a>>}
      /\ pc[c] # "calling" => forsaken' = forsaken
    BY DEF Lose, Expire, Running, listing
<1>2. \/ /\ pc' = [pc EXCEPT ![c] = "backoff"] /\ result' = result
         /\ attempt[c] <= MaxRetries /\ pc[c] = "calling"
      \/ /\ pc' = [pc EXCEPT ![c] = "returned"]
         /\ \E code \in {"Unavailable", "DeadlineExceeded"} : result' = [result EXCEPT ![c] = code]
    BY DEF Lose, Expire, Conclude, Return
<1>3. a \in Attempts /\ pc[c] \in {"calling", "backoff"} /\ op[c] \in Ops
    BY <1>1 DEF CallsInv, TypeOK, Running
<1>4. /\ pc' \in [Calls -> {"idle", "calling", "backoff", "returned"}]
      /\ pc'[c] \in {"backoff", "returned"} /\ \A d \in Calls : d # c => pc'[d] = pc[d]
      /\ result' \in [Calls -> Codes \union {"none"}]
      /\ pc'[c] = "returned" => result'[c] \in {"Unavailable", "DeadlineExceeded"}
      /\ pc'[c] = "backoff" => result'[c] = result[c]
      /\ \A d \in Calls : d # c => result'[d] = result[d]
  <2>1. \A code \in {"Unavailable", "DeadlineExceeded"} : code \in Codes
      BY StatusIsACode
  <2>2. CASE /\ pc' = [pc EXCEPT ![c] = "backoff"] /\ result' = result
      BY <2>2 DEF CallsInv, TypeOK
  <2>3. ASSUME NEW code \in {"Unavailable", "DeadlineExceeded"},
               pc' = [pc EXCEPT ![c] = "returned"], result' = [result EXCEPT ![c] = code]
        PROVE  /\ pc' \in [Calls -> {"idle", "calling", "backoff", "returned"}]
               /\ pc'[c] = "returned" /\ \A d \in Calls : d # c => pc'[d] = pc[d]
               /\ result' \in [Calls -> Codes \union {"none"}] /\ result'[c] = code
               /\ \A d \in Calls : d # c => result'[d] = result[d]
      BY <2>1, <2>3 DEF CallsInv, TypeOK
  <2> QED
      BY <1>2, <2>2, <2>3
<1> HIDE DEF a
<1>5. /\ at' \in [Calls -> [Attempts -> {"none", "arrived", "checked", "answered"}]]
      /\ at'[c][a] \in {at[c][a], "none"} /\ at'[c][a] # "answered"
      /\ \A d \in Calls, b \in Attempts : d # c \/ b # a => at'[d][b] = at[d][b]
  <2>1. \/ at' = [at EXCEPT ![c][a] = "none"]
        \/ at' = at /\ at[c][a] # "answered"
      BY <1>1 DEF Abandon
  <2>2. /\ a \in Attempts
        /\ at \in [Calls -> [Attempts -> {"none", "arrived", "checked", "answered"}]]
      BY <1>3 DEF CallsInv, TypeOK
  <2> QED
      BY <2>1, <2>2
<1>6. /\ answer' \in [Calls -> [Attempts -> Codes]]
      /\ \A d \in Calls, b \in Attempts : d # c \/ b # a => answer'[d][b] = answer[d][b]
  <2>1. answer' = [answer EXCEPT ![c][a] = "OK"] /\ "OK" \in Codes
      BY <1>1, StatusIsACode DEF Abandon
  <2>2. a \in Attempts /\ answer \in [Calls -> [Attempts -> Codes]]
      BY <1>3 DEF CallsInv, TypeOK
  <2> QED
      BY <2>1, <2>2
<1>7. /\ forsaken \subseteq forsaken'
      /\ \A d \in Calls, b \in Attempts :
             <<d, b>> \in forsaken' => <<d, b>> \in forsaken \/ (d = c /\ b = a)
    BY <1>1
<1>8. TypeOK'
  <2>1. forsaken' \subseteq Calls \X Attempts
      BY <1>1, <1>3 DEF CallsInv, TypeOK
  <2> QED
      BY <1>1, <1>4, <1>5, <1>6, <2>1 DEF CallsInv, TypeOK
<1>9. Tracked'
  <2> SUFFICES ASSUME NEW d \in Calls
               PROVE  /\ (Running(d))' => always[d] \subseteq rows /\ rows \subseteq ever[d]
                      /\ pc'[d] = "backoff" => attempt[d] <= MaxRetries
                      /\ pc'[d] # "returned" <=> result'[d] = "none"
      BY <1>1 DEF Tracked
  <2>1. CASE d = c
    <3>1. pc'[c] = "backoff" => attempt[c] <= MaxRetries
        BY <1>2, <1>4 DEF CallsInv, TypeOK
    <3> QED
        BY <1>1, <1>3, <1>4, <2>1, <3>1 DEF CallsInv, Tracked, Running
  <2>2. CASE d # c
      BY <1>4, <2>2 DEF CallsInv, Tracked, Running
  <2> QED
      BY <2>1, <2>2
<1>10. InHand'
  <2> SUFFICES ASSUME NEW d \in Calls, NEW b \in Attempts
               PROVE  /\ at'[d][b] # "none" => <<d, b>> \in forsaken' \/ (pc'[d] = "calling" /\ b = attempt[d])
                      /\ <<d, b>> \in forsaken' =>
                             /\ b <= attempt[d] /\ (pc'[d] = "calling" => b # attempt[d])
                             /\ at'[d][b] # "answered"
                      /\ at'[d][b] = "checked" => op[d] = "create"
      BY <1>1 DEF InHand
  <2>1. CASE d = c /\ b = a
    <3>1. at'[c][a] # "none" => <<c, a>> \in forsaken'
      <4>1. CASE pc[c] = "calling"
          BY <1>1, <4>1
      <4>2. CASE pc[c] # "calling"
          BY <1>3, <1>5, <1>7, <4>2 DEF CallsInv, InHand
      <4> QED
          BY <4>1, <4>2
    <3>2. a <= attempt[c] /\ pc'[c] # "calling"
      <4>1. a \in Nat /\ a = attempt[c]
          BY <1>3, AttemptsType DEF a
      <4> QED
          BY <1>4, <4>1
    <3> QED
        BY <1>3, <1>5, <2>1, <3>1, <3>2 DEF CallsInv, InHand
  <2>2. CASE d = c /\ b # a
    <3>1. at'[c][b] = at[c][b] /\ (<<c, b>> \in forsaken' <=> <<c, b>> \in forsaken)
        BY <1>5, <1>7, <2>2
    <3> QED
        BY <1>4, <2>2, <3>1 DEF CallsInv, InHand, a
  <2>3. CASE d # c
    <3>1. at'[d][b] = at[d][b] /\ (<<d, b>> \in forsaken' <=> <<d, b>> \in forsaken)
        BY <1>5, <1>7, <2>3
    <3> QED
        BY <1>4, <2>3, <3>1 DEF CallsInv, InHand
  <2> QED
      BY <2>1, <2>2, <2>3
<1>11. \A d \in Calls : \A code : Truth(d, code) => Truth(d, code)'
    BY <1>1 DEF Truth
<1>12. AnswersUnderWay'
  <2> SUFFICES ASSUME NEW d \in Calls, NEW b \in Attempts, at'[d][b] = "answered"
               PROVE  (Truth(d, answer[d][b]))'
      BY DEF AnswersUnderWay
  <2>1. PICK code : code = answer'[d][b]
      OBVIOUS
  <2>2. d # c \/ b # a
      BY <1>5
  <2>3. Truth(d, code)
      BY <1>5, <1>6, <2>1, <2>2 DEF CallsInv, AnswersUnderWay
  <2>4. Truth(d, code)'
      BY <1>11, <2>3
  <2> QED
      BY <2>1, <2>4 DEF Truth
<1>13. EffectsTold'
  <2> SUFFICES ASSUME NEW d \in Calls
               PROVE  /\ pc'[d] = "idle" => \A b \in Attempts : <<d, b>> \notin forsaken'
                      /\ pc'[d] = "idle" \/ op[d] \in {"list", "update"} => effects[d] = 0
                      /\ pc'[d] # "idle" /\ op[d] # "list" => plugin[d] \in Plugins
                      /\ \/ effects[d] = 0 \/ (effects[d] = 1 /\ (Settled(d))')
                         \/ \E b \in Attempts : <<d, b>> \in forsaken'
      BY <1>1 DEF EffectsTold
  <2>1. CASE d = c
    <3>1. effects[c] = 0 \/ \E b \in Attempts : <<c, b>> \in forsaken'
      <4>1. CASE pc[c] = "calling"
          BY <1>1, <1>3, <4>1 DEF a
      <4>2. CASE pc[c] # "calling"
          BY <1>1, <1>3, <1>7, <4>2 DEF CallsInv, EffectsTold, Settled
      <4> QED
          BY <4>1, <4>2
    <3> QED
        BY <1>3, <1>4, <2>1, <3>1 DEF CallsInv, EffectsTold
  <2>2. CASE d # c
    <3>1. attempt[d] \in Attempts
        BY DEF CallsInv, TypeOK
    <3>2. Settled(d) => (Settled(d))'
        BY <1>1, <1>4, <1>5, <1>6, <2>2, <3>1 DEF Settled
    <3>3. \A b \in Attempts : <<d, b>> \in forsaken' <=> <<d, b>> \in forsaken
        BY <1>7, <2>2
    <3> QED
        BY <1>4, <2>2, <3>2, <3>3 DEF CallsInv, EffectsTold
  <2> QED
      BY <2>1, <2>2
<1>14. ListedSoFar' /\ ListingSound'
  <2>1. \A d \in Calls :
            /\ (Running(d))' => Running(d)
            /\ pc'[d] = "idle" => pc[d] = "idle"
            /\ result'[d] = "OK" => result[d] = "OK"
    <3> SUFFICES ASSUME NEW d \in Calls
                 PROVE  /\ (Running(d))' => Running(d)
                        /\ pc'[d] = "idle" => pc[d] = "idle"
                        /\ result'[d] = "OK" => result[d] = "OK"
        OBVIOUS
    <3>1. CASE d = c
        BY <1>1, <1>4, <3>1 DEF Running
    <3>2. CASE d # c
        BY <1>4, <3>2 DEF Running
    <3> QED
        BY <3>1, <3>2
  <2> QED
      BY <1>1, <2>1, ListingKept DEF listing
<1>15. AnswersTrue'
  <2> SUFFICES ASSUME NEW d \in Calls
               PROVE  (Truth(d, result[d]))'
      BY DEF AnswersTrue
  <2>1. PICK code : code = result'[d]
      OBVIOUS
  <2>2. Truth(d, code)
    <3>1. CASE code = result[d]
        BY <3>1 DEF CallsInv, AnswersTrue
    <3>2. CASE code \in {"Unavailable", "DeadlineExceeded"}
        BY <3>2 DEF Truth
    <3> QED
        BY <1>4, <2>1, <3>1, <3>2
  <2>3. Truth(d, code)'
      BY <1>11, <2>2
  <2> QED
      BY <2>1, <2>3 DEF Truth
<1> QED
    BY <1>8, <1>9, <1>10, <1>12, <1>13, <1>14, <1>15 DEF CallsInv

\* The answer arrives: it ends the call, or is repeated when it is not final.
LEMMA ReceiveKeeps ==
    ASSUME CallsInv, NEW c \in Calls, Receive(c)
    PROVE  CallsInv'
<1> DEFINE a == attempt[c]
           code == answer[c][a]
<1>1. /\ pc[c] = "calling" /\ at[c][a] = "answered" /\ (op[c] = "list" => code # "OK")
      /\ Conclude(c, code)
      /\ at' = [at EXCEPT ![c][a] = "none"] /\ answer' = [answer EXCEPT ![c][a] = "OK"]
      /\ UNCHANGED <<rows, op, plugin, attempt, token, listed, overlap, effects, forsaken, always, ever>>
    BY DEF Receive, listing, history
<1>2. a \in Attempts /\ code \in Codes
    BY DEF CallsInv, TypeOK
<1>3. Truth(c, code)
    BY <1>1, <1>2 DEF CallsInv, AnswersUnderWay
<1>4. \/ /\ pc' = [pc EXCEPT ![c] = "backoff"] /\ result' = result
         /\ attempt[c] <= MaxRetries /\ code = "Unavailable"
      \/ /\ pc' = [pc EXCEPT ![c] = "returned"] /\ result' = [result EXCEPT ![c] = code]
    BY <1>1 DEF Conclude, Return, IsTransient
<1>5. code \notin {"none"}
  <2>1. DOMAIN Status = Errors
      BY DEF Status, Errors
  <2>2. \A err \in Errors : Status[err] # "none"
      BY DEF Status, Errors
  <2> QED
      BY <1>2, <2>1, <2>2 DEF Codes
<1> HIDE DEF a, code
<1>6. /\ pc' \in [Calls -> {"idle", "calling", "backoff", "returned"}]
      /\ pc'[c] \in {"backoff", "returned"} /\ \A d \in Calls : d # c => pc'[d] = pc[d]
      /\ result' \in [Calls -> Codes \union {"none"}]
      /\ pc'[c] = "returned" => result'[c] = code
      /\ pc'[c] = "backoff" => result'[c] = result[c] /\ attempt[c] <= MaxRetries /\ code = "Unavailable"
      /\ \A d \in Calls : d # c => result'[d] = result[d]
  <2>1. CASE pc' = [pc EXCEPT ![c] = "backoff"] /\ result' = result
             /\ attempt[c] <= MaxRetries /\ code = "Unavailable"
      BY <2>1 DEF CallsInv, TypeOK
  <2>2. CASE pc' = [pc EXCEPT ![c] = "returned"] /\ result' = [result EXCEPT ![c] = code]
      BY <1>2, <2>2 DEF CallsInv, TypeOK
  <2> QED
      BY <1>4, <2>1, <2>2
<1>7. /\ at' \in [Calls -> [Attempts -> {"none", "arrived", "checked", "answered"}]]
      /\ at'[c][a] = "none"
      /\ \A d \in Calls, b \in Attempts : d # c \/ b # a => at'[d][b] = at[d][b]
    BY <1>1, <1>2 DEF CallsInv, TypeOK
<1>8. /\ answer' \in [Calls -> [Attempts -> Codes]]
      /\ \A d \in Calls, b \in Attempts : d # c \/ b # a => answer'[d][b] = answer[d][b]
  <2>1. "OK" \in Codes
      BY StatusIsACode
  <2> QED
      BY <1>1, <1>2, <2>1 DEF CallsInv, TypeOK
<1>9. TypeOK'
    BY <1>1, <1>6, <1>7, <1>8 DEF CallsInv, TypeOK
<1>10. Tracked'
  <2> SUFFICES ASSUME NEW d \in Calls
               PROVE  /\ (Running(d))' => always[d] \subseteq rows /\ rows \subseteq ever[d]
                      /\ pc'[d] = "backoff" => attempt[d] <= MaxRetries
                      /\ pc'[d] # "returned" <=> result'[d] = "none"
      BY <1>1 DEF Tracked
  <2>1. CASE d = c
      BY <1>1, <1>5, <1>6, <2>1 DEF CallsInv, Tracked, Running
  <2>2. CASE d # c
      BY <1>6, <2>2 DEF CallsInv, Tracked, Running
  <2> QED
      BY <2>1, <2>2
<1>11. InHand'
  <2> SUFFICES ASSUME NEW d \in Calls, NEW b \in Attempts
               PROVE  /\ at'[d][b] # "none" => <<d, b>> \in forsaken \/ (pc'[d] = "calling" /\ b = attempt[d])
                      /\ <<d, b>> \in forsaken =>
                             /\ b <= attempt[d] /\ (pc'[d] = "calling" => b # attempt[d])
                             /\ at'[d][b] # "answered"
                      /\ at'[d][b] = "checked" => op[d] = "create"
      BY <1>1 DEF InHand
  <2>1. CASE d = c /\ b = a
      BY <1>6, <1>7, <2>1 DEF CallsInv, InHand
  <2>2. CASE d = c /\ b # a
      BY <1>1, <1>6, <1>7, <2>2 DEF CallsInv, InHand, a
  <2>3. CASE d # c
      BY <1>6, <1>7, <2>3 DEF CallsInv, InHand
  <2> QED
      BY <2>1, <2>2, <2>3
<1>12. \A d \in Calls : \A s : Truth(d, s) => Truth(d, s)'
    BY <1>1 DEF Truth
<1>13. AnswersUnderWay'
  <2> SUFFICES ASSUME NEW d \in Calls, NEW b \in Attempts, at'[d][b] = "answered"
               PROVE  (Truth(d, answer[d][b]))'
      BY DEF AnswersUnderWay
  <2>1. PICK s : s = answer'[d][b]
      OBVIOUS
  <2>2. d # c \/ b # a
      BY <1>7
  <2>3. Truth(d, s)
      BY <1>7, <1>8, <2>1, <2>2 DEF CallsInv, AnswersUnderWay
  <2>4. Truth(d, s)'
      BY <1>12, <2>3
  <2> QED
      BY <2>1, <2>4 DEF Truth
<1>14. EffectsTold'
  <2> SUFFICES ASSUME NEW d \in Calls
               PROVE  /\ pc'[d] = "idle" => \A b \in Attempts : <<d, b>> \notin forsaken
                      /\ pc'[d] = "idle" \/ op[d] \in {"list", "update"} => effects[d] = 0
                      /\ pc'[d] # "idle" /\ op[d] # "list" => plugin[d] \in Plugins
                      /\ \/ effects[d] = 0 \/ (effects[d] = 1 /\ (Settled(d))')
                         \/ \E b \in Attempts : <<d, b>> \in forsaken
      BY <1>1 DEF EffectsTold
  <2>1. CASE d = c
    <3>1. Settled(c) => (Settled(c))'
      <4>1. Settled(c) => code \in {"OK", "Internal"}
          BY <1>1 DEF Settled, code, a
      <4> QED
          BY <1>6, <4>1 DEF Settled
    <3> QED
        BY <1>1, <1>6, <2>1, <3>1 DEF CallsInv, EffectsTold
  <2>2. CASE d # c
    <3>1. attempt[d] \in Attempts
        BY DEF CallsInv, TypeOK
    <3>2. Settled(d) => (Settled(d))'
        BY <1>1, <1>6, <1>7, <1>8, <2>2, <3>1 DEF Settled
    <3> QED
        BY <1>6, <2>2, <3>2 DEF CallsInv, EffectsTold
  <2> QED
      BY <2>1, <2>2
<1>15. ListedSoFar' /\ ListingSound'
  <2>1. \A d \in Calls :
            /\ (Running(d))' => Running(d)
            /\ pc'[d] = "idle" => pc[d] = "idle"
            /\ result'[d] = "OK" /\ op[d] = "list" => result[d] = "OK"
    <3> SUFFICES ASSUME NEW d \in Calls
                 PROVE  /\ (Running(d))' => Running(d)
                        /\ pc'[d] = "idle" => pc[d] = "idle"
                        /\ result'[d] = "OK" /\ op[d] = "list" => result[d] = "OK"
        OBVIOUS
    <3>1. CASE d = c
      <4>1. op[c] = "list" => code # "OK"
          BY <1>1 DEF code, a
      <4> QED
          BY <1>1, <1>6, <3>1, <4>1 DEF Running
    <3>2. CASE d # c
        BY <1>6, <3>2 DEF Running
    <3> QED
        BY <3>1, <3>2
  <2> QED
      BY <1>1, <2>1, ListingKept DEF listing
<1>16. AnswersTrue'
  <2> SUFFICES ASSUME NEW d \in Calls
               PROVE  (Truth(d, result[d]))'
      BY DEF AnswersTrue
  <2>1. PICK s : s = result'[d]
      OBVIOUS
  <2>2. Truth(d, s)
    <3>1. CASE s = result[d]
        BY <3>1 DEF CallsInv, AnswersTrue
    <3>2. CASE d = c /\ s = code
        BY <1>3, <3>2
    <3> QED
        BY <1>6, <2>1, <3>1, <3>2
  <2>3. Truth(d, s)'
      BY <1>12, <2>2
  <2> QED
      BY <2>1, <2>3 DEF Truth
<1> QED
    BY <1>9, <1>10, <1>11, <1>13, <1>14, <1>15, <1>16 DEF CallsInv

LEMMA RetryKeeps ==
    ASSUME CallsInv, NEW c \in Calls, Retry(c)
    PROVE  CallsInv'
<1> DEFINE a == attempt[c] + 1
<1>1. /\ pc[c] = "backoff" /\ pc' = [pc EXCEPT ![c] = "calling"]
      /\ attempt' = [attempt EXCEPT ![c] = a] /\ at' = [at EXCEPT ![c][a] = "arrived"]
      /\ UNCHANGED <<rows, op, plugin, answer, token, listed, result, overlap, effects, forsaken,
                     always, ever>>
    BY DEF Retry, listing, history
<1>2. a \in Attempts /\ attempt[c] \in Attempts
    BY <1>1, AttemptsType DEF CallsInv, TypeOK, Tracked
<1>3. \A b \in Attempts : <<c, b>> \in forsaken => b < a
  <2>1. a \in Nat /\ attempt[c] \in Nat /\ \A b \in Attempts : b \in Nat
      BY <1>2, AttemptsType
  <2> QED
      BY <2>1 DEF CallsInv, InHand
<1>4. \A b \in Attempts : b < a => b # a
    BY <1>2, AttemptsType
<1> HIDE DEF a
<1>5. /\ pc' \in [Calls -> {"idle", "calling", "backoff", "returned"}]
      /\ pc'[c] = "calling" /\ \A d \in Calls : d # c => pc'[d] = pc[d]
      /\ attempt' \in [Calls -> Attempts] /\ attempt'[c] = a
      /\ \A d \in Calls : d # c => attempt'[d] = attempt[d]
    BY <1>1, <1>2 DEF CallsInv, TypeOK
<1>6. /\ at' \in [Calls -> [Attempts -> {"none", "arrived", "checked", "answered"}]]
      /\ at'[c][a] = "arrived"
      /\ \A d \in Calls, b \in Attempts : d # c \/ b # a => at'[d][b] = at[d][b]
    BY <1>1, <1>2 DEF CallsInv, TypeOK
<1>7. TypeOK'
    BY <1>1, <1>5, <1>6 DEF CallsInv, TypeOK
<1>8. Tracked'
  <2> SUFFICES ASSUME NEW d \in Calls
               PROVE  /\ (Running(d))' => always[d] \subseteq rows /\ rows \subseteq ever[d]
                      /\ pc'[d] = "backoff" => attempt'[d] <= MaxRetries
                      /\ pc'[d] # "returned" <=> result[d] = "none"
      BY <1>1 DEF Tracked
  <2>1. CASE d = c
      BY <1>1, <1>5, <2>1 DEF CallsInv, Tracked, Running
  <2>2. CASE d # c
      BY <1>5, <2>2 DEF CallsInv, Tracked, Running
  <2> QED
      BY <2>1, <2>2
<1>9. InHand'
  <2> SUFFICES ASSUME NEW d \in Calls, NEW b \in Attempts
               PROVE  /\ at'[d][b] # "none" => <<d, b>> \in forsaken \/ (pc'[d] = "calling" /\ b = attempt'[d])
                      /\ <<d, b>> \in forsaken =>
                             /\ b <= attempt'[d] /\ (pc'[d] = "calling" => b # attempt'[d])
                             /\ at'[d][b] # "answered"
                      /\ at'[d][b] = "checked" => op[d] = "create"
      BY <1>1 DEF InHand
  <2>1. CASE d = c /\ b = a
      BY <1>3, <1>4, <1>5, <1>6, <2>1
  <2>2. CASE d = c /\ b # a
    <3>1. at'[c][b] = at[c][b] /\ pc[c] # "calling" /\ attempt'[c] = a
        BY <1>1, <1>5, <1>6, <2>2
    <3>2. <<c, b>> \in forsaken => b <= a
      <4>1. a \in Nat /\ b \in Nat
          BY <1>2, AttemptsType
      <4> QED
          BY <1>3, <4>1
    <3> QED
        BY <2>2, <3>1, <3>2 DEF CallsInv, InHand
  <2>3. CASE d # c
      BY <1>5, <1>6, <2>3 DEF CallsInv, InHand
  <2> QED
      BY <2>1, <2>2, <2>3
<1>10. \A d \in Calls, b \in Attempts : at'[d][b] = "answered" => at[d][b] = "answered"
    BY <1>6
<1>11. AnswersUnderWay'
    BY <1>1, <1>10 DEF CallsInv, AnswersUnderWay, Truth
<1>12. EffectsTold'
  <2> SUFFICES ASSUME NEW d \in Calls
               PROVE  /\ pc'[d] = "idle" => \A b \in Attempts : <<d, b>> \notin forsaken
                      /\ pc'[d] = "idle" \/ op[d] \in {"list", "update"} => effects[d] = 0
                      /\ pc'[d] # "idle" /\ op[d] # "list" => plugin[d] \in Plugins
                      /\ \/ effects[d] = 0 \/ (effects[d] = 1 /\ (Settled(d))')
                         \/ \E b \in Attempts : <<d, b>> \in forsaken
      BY <1>1 DEF EffectsTold
  <2>1. CASE d = c
      BY <1>1, <1>5, <2>1 DEF CallsInv, EffectsTold, Settled
  <2>2. CASE d # c
    <3>1. attempt[d] \in Attempts
        BY DEF CallsInv, TypeOK
    <3>2. Settled(d) => (Settled(d))'
        BY <1>1, <1>5, <1>6, <2>2, <3>1 DEF Settled
    <3> QED
        BY <1>5, <2>2, <3>2 DEF CallsInv, EffectsTold
  <2> QED
      BY <2>1, <2>2
<1>13. ListedSoFar' /\ ListingSound'
  <2>1. \A d \in Calls :
            /\ (Running(d))' => Running(d)
            /\ pc'[d] = "idle" => pc[d] = "idle" /\ attempt'[d] = attempt[d]
    <3> SUFFICES ASSUME NEW d \in Calls
                 PROVE  /\ (Running(d))' => Running(d)
                        /\ pc'[d] = "idle" => pc[d] = "idle" /\ attempt'[d] = attempt[d]
        OBVIOUS
    <3>1. CASE d = c
        BY <1>1, <1>5, <3>1 DEF Running
    <3>2. CASE d # c
        BY <1>5, <3>2 DEF Running
    <3> QED
        BY <3>1, <3>2
  <2> QED
      BY <1>1, <2>1, ListingKept DEF listing
<1>14. AnswersTrue'
    BY <1>1 DEF CallsInv, AnswersTrue, Truth
<1> QED
    BY <1>7, <1>8, <1>9, <1>11, <1>12, <1>13, <1>14 DEF CallsInv

LEMMA BeginKeeps ==
    ASSUME CallsInv, NEW c \in Calls, NEW what \in Ops, NEW p \in Plugins \union {None},
           what # "list" => p \in Plugins, Begin(c, what, p)
    PROVE  CallsInv'
<1>1. /\ pc[c] = "idle" /\ pc' = [pc EXCEPT ![c] = "calling"]
      /\ op' = [op EXCEPT ![c] = what] /\ plugin' = [plugin EXCEPT ![c] = p]
      /\ at' = [at EXCEPT ![c][1] = "arrived"]
      /\ always' = [always EXCEPT ![c] = rows] /\ ever' = [ever EXCEPT ![c] = rows]
      /\ UNCHANGED <<rows, attempt, answer, token, listed, result, overlap, effects, forsaken>>
    BY DEF Begin, listing
<1>2. /\ attempt[c] = 1 /\ listed[c] = <<>> /\ token[c] = 0 /\ effects[c] = 0
      /\ \A a \in Attempts : <<c, a>> \notin forsaken /\ at[c][a] = "none"
    BY <1>1 DEF CallsInv, ListedSoFar, EffectsTold, InHand
<1>3. /\ pc' \in [Calls -> {"idle", "calling", "backoff", "returned"}] /\ pc'[c] = "calling"
      /\ op' \in [Calls -> Ops] /\ op'[c] = what
      /\ plugin' \in [Calls -> Plugins \union {None}] /\ plugin'[c] = p
      /\ \A d \in Calls : d # c => pc'[d] = pc[d] /\ op'[d] = op[d] /\ plugin'[d] = plugin[d]
    BY <1>1 DEF CallsInv, TypeOK
<1>4. /\ always' \in [Calls -> SUBSET Plugins] /\ ever' \in [Calls -> SUBSET Plugins]
      /\ always'[c] = rows /\ ever'[c] = rows
      /\ \A d \in Calls : d # c => always'[d] = always[d] /\ ever'[d] = ever[d]
    BY <1>1 DEF CallsInv, TypeOK
<1>5. /\ at' \in [Calls -> [Attempts -> {"none", "arrived", "checked", "answered"}]]
      /\ at'[c][1] = "arrived"
      /\ \A d \in Calls, b \in Attempts : d # c \/ b # 1 => at'[d][b] = at[d][b]
  <2>1. /\ 1 \in Attempts
        /\ at \in [Calls -> [Attempts -> {"none", "arrived", "checked", "answered"}]]
      BY AttemptsType DEF CallsInv, TypeOK
  <2> QED
      BY <1>1, <2>1
<1>6. TypeOK'
    BY <1>1, <1>3, <1>4, <1>5 DEF CallsInv, TypeOK
<1>7. Tracked'
  <2> SUFFICES ASSUME NEW d \in Calls
               PROVE  /\ (Running(d))' => always'[d] \subseteq rows /\ rows \subseteq ever'[d]
                      /\ pc'[d] = "backoff" => attempt[d] <= MaxRetries
                      /\ pc'[d] # "returned" <=> result[d] = "none"
      BY <1>1 DEF Tracked
  <2>1. CASE d = c
      BY <1>1, <1>3, <1>4, <2>1 DEF CallsInv, Tracked, Running
  <2>2. CASE d # c
      BY <1>3, <1>4, <2>2 DEF CallsInv, Tracked, Running
  <2> QED
      BY <2>1, <2>2
<1>8. InHand'
  <2> SUFFICES ASSUME NEW d \in Calls, NEW b \in Attempts
               PROVE  /\ at'[d][b] # "none" => <<d, b>> \in forsaken \/ (pc'[d] = "calling" /\ b = attempt[d])
                      /\ <<d, b>> \in forsaken =>
                             /\ b <= attempt[d] /\ (pc'[d] = "calling" => b # attempt[d])
                             /\ at'[d][b] # "answered"
                      /\ at'[d][b] = "checked" => op'[d] = "create"
      BY <1>1 DEF InHand
  <2>1. CASE d = c
      BY <1>2, <1>3, <1>5, <2>1
  <2>2. CASE d # c
      BY <1>3, <1>5, <2>2 DEF CallsInv, InHand
  <2> QED
      BY <2>1, <2>2
<1>9. \A d \in Calls : \A s : d # c => (Truth(d, s) <=> Truth(d, s)')
    BY <1>1, <1>3, <1>4 DEF Truth
<1>10. AnswersUnderWay'
  <2> SUFFICES ASSUME NEW d \in Calls, NEW b \in Attempts, at'[d][b] = "answered"
               PROVE  (Truth(d, answer[d][b]))'
      BY DEF AnswersUnderWay
  <2>1. PICK s : s = answer'[d][b]
      OBVIOUS
  <2>2. d # c
      BY <1>2, <1>5
  <2>3. Truth(d, s)
      BY <1>1, <1>5, <2>1, <2>2 DEF CallsInv, AnswersUnderWay
  <2>4. Truth(d, s)'
      BY <1>9, <2>2, <2>3
  <2> QED
      BY <2>1, <2>4 DEF Truth
<1>11. EffectsTold'
  <2> SUFFICES ASSUME NEW d \in Calls
               PROVE  /\ pc'[d] = "idle" => \A b \in Attempts : <<d, b>> \notin forsaken
                      /\ pc'[d] = "idle" \/ op'[d] \in {"list", "update"} => effects[d] = 0
                      /\ pc'[d] # "idle" /\ op'[d] # "list" => plugin'[d] \in Plugins
                      /\ \/ effects[d] = 0 \/ (effects[d] = 1 /\ (Settled(d))')
                         \/ \E b \in Attempts : <<d, b>> \in forsaken
      BY <1>1 DEF EffectsTold
  <2>1. CASE d = c
      BY <1>2, <1>3, <2>1
  <2>2. CASE d # c
    <3>1. attempt[d] \in Attempts
        BY DEF CallsInv, TypeOK
    <3>2. Settled(d) => (Settled(d))'
        BY <1>1, <1>3, <1>5, <2>2, <3>1 DEF Settled
    <3> QED
        BY <1>3, <2>2, <3>2 DEF CallsInv, EffectsTold
  <2> QED
      BY <2>1, <2>2
<1>12. ListedSoFar'
  <2> SUFFICES ASSUME NEW d \in Calls
               PROVE  /\ pc'[d] = "idle" => attempt[d] = 1 /\ listed[d] = <<>> /\ token[d] = 0
                      /\ op'[d] = "list" /\ (Running(d))' =>
                             /\ Ascending(listed[d])
                             /\ \A q \in Got(d) : q <= token[d]
                             /\ {q \in always'[d] : q <= token[d]} \subseteq Got(d)
                             /\ Got(d) \subseteq ever'[d]
      BY <1>1 DEF ListedSoFar, Ascending, Got
  <2>1. CASE d = c
    <3>1. DOMAIN listed[c] = {}
        BY <1>2
    <3>2. Ascending(listed[c]) /\ Got(c) = {}
        BY <3>1 DEF Ascending, Got
    <3>3. \A q \in rows : ~(q <= 0)
        BY CatalogueAssumption DEF CallsInv, TypeOK
    <3> QED
        BY <1>2, <1>3, <1>4, <2>1, <3>2, <3>3
  <2>2. CASE d # c
      BY <1>3, <1>4, <2>2 DEF CallsInv, ListedSoFar, Running
  <2> QED
      BY <2>1, <2>2
<1>13. ListingSound'
  <2> SUFFICES ASSUME NEW d \in Calls, op'[d] = "list", result[d] = "OK"
               PROVE  /\ Ascending(listed[d])
                      /\ always'[d] \subseteq Got(d)
                      /\ Got(d) \subseteq ever'[d]
      BY <1>1 DEF ListingSound, Ascending, Got
  <2>1. d # c
      BY <1>1 DEF CallsInv, Tracked
  <2> QED
      BY <1>3, <1>4, <2>1 DEF CallsInv, ListingSound
<1>14. AnswersTrue'
  <2> SUFFICES ASSUME NEW d \in Calls
               PROVE  (Truth(d, result[d]))'
      BY DEF AnswersTrue
  <2>1. PICK s : s = result[d]
      OBVIOUS
  <2>2. CASE d = c
    <3>1. s = "none"
        BY <1>1, <2>1, <2>2 DEF CallsInv, Tracked
    <3> QED
        BY <1>1, <2>1, <3>1 DEF Truth
  <2>3. CASE d # c
    <3>1. Truth(d, s)'
        BY <1>9, <2>1, <2>3 DEF CallsInv, AnswersTrue
    <3> QED
        BY <1>1, <2>1, <3>1 DEF Truth
  <2> QED
      BY <2>2, <2>3
<1> QED
    BY <1>6, <1>7, <1>8, <1>10, <1>11, <1>12, <1>13, <1>14 DEF CallsInv

-------------------------------------------------------------------------------
(* A page of a listing *)

\* What a page has, and where the next one goes on.
LEMMA PageOfRows ==
    ASSUME rows \subseteq Plugins, NEW key \in Nat,
           NEW probe, probe = First(PageSize + 1, After(key)),
           NEW page, page = First(PageSize, probe),
           NEW next, next = Continuation(probe)
    PROVE  /\ page \subseteq rows /\ \A p \in page : p > key
           /\ next \in Plugins \union {0}
           /\ next # 0 => /\ next > key /\ \A p \in page : p <= next
                          /\ \A p \in rows : p > key /\ p <= next => p \in page
           /\ next = 0 => \A p \in rows : p > key => p \in page
<1>1. /\ Plugins \subseteq Nat \ {0} /\ IsFiniteSet(Plugins)
      /\ PageSize \in Nat \ {0} /\ PageSize + 1 \in Nat
    BY CatalogueAssumption
<1> DEFINE S == After(key)
<1>2. S \in SUBSET Nat /\ IsFiniteSet(S) /\ S \subseteq rows /\ \A p \in S : p > key
  <2>1. S \in SUBSET Plugins
      BY DEF After
  <2> QED
      BY <1>1, <2>1, FS_Subset DEF After
<1>3. \A p \in rows : p > key => p \in S
    BY DEF After
<1>4. page \subseteq probe /\ probe \subseteq S
    BY DEF First
<1>5. page \subseteq rows /\ \A p \in page : p > key
    BY <1>2, <1>4
<1> HIDE DEF S
<1>6. CASE Cardinality(probe) > PageSize
  <2>1. next = CHOOSE p \in First(PageSize, probe) : \A q \in First(PageSize, probe) : q <= p
      BY <1>6 DEF Continuation
  <2>2. probe = First(PageSize + 1, S)
      BY DEF S
  <2>3. /\ next \in First(PageSize, probe)
        /\ \A p \in First(PageSize, probe) : p <= next
        /\ \A p \in S : p <= next => p \in First(PageSize, probe)
      BY <1>1, <1>2, <1>6, <2>1, <2>2, FullPage
  <2>4. next \in Plugins /\ next # 0 /\ next > key
      BY <1>1, <1>5, <2>3
  <2> QED
      BY <1>3, <1>5, <2>3, <2>4
<1>7. CASE ~(Cardinality(probe) > PageSize)
  <2>1. next = 0
      BY <1>7 DEF Continuation
  <2>2. probe = First(PageSize + 1, S) /\ PageSize \in Nat
      BY <1>1 DEF S
  <2>3. probe = S /\ First(PageSize, S) = S
      BY <1>2, <1>7, <2>2, ShortProbe
  <2> QED
      BY <1>3, <1>5, <2>1, <2>3
<1> QED
    BY <1>6, <1>7

\* A list of pages with one more, all of which is above what the others have.
LEMMA OnePageMore ==
    ASSUME NEW pages \in Seq(SUBSET Plugins), NEW page \in SUBSET Plugins, NEW key \in Nat,
           Ascending(pages), \A i \in DOMAIN pages : \A p \in pages[i] : p <= key,
           \A q \in page : q > key
    PROVE  /\ Append(pages, page) \in Seq(SUBSET Plugins) /\ Ascending(Append(pages, page))
           /\ \A p : (\E i \in DOMAIN Append(pages, page) : p \in Append(pages, page)[i])
                        <=> p \in page \/ \E i \in DOMAIN pages : p \in pages[i]
<1> DEFINE longer == Append(pages, page)
<1>1. /\ longer \in Seq(SUBSET Plugins) /\ Len(pages) \in Nat
      /\ DOMAIN pages = 1..Len(pages) /\ DOMAIN longer = 1..(Len(pages) + 1)
      /\ \A i \in 1..Len(pages) : longer[i] = pages[i]
      /\ longer[Len(pages) + 1] = page
    OBVIOUS
<1> HIDE DEF longer
<1>2. DOMAIN longer = DOMAIN pages \union {Len(pages) + 1}
    BY <1>1
<1>3. Ascending(longer)
  <2> SUFFICES ASSUME NEW i \in DOMAIN longer, NEW j \in DOMAIN longer, i < j,
                      NEW p \in longer[i], NEW q \in longer[j]
               PROVE  p < q
      BY DEF Ascending
  <2>1. i \in DOMAIN pages /\ p \in pages[i]
      BY <1>1
  <2>2. CASE j \in DOMAIN pages
      BY <1>1, <2>1, <2>2 DEF Ascending
  <2>3. CASE j = Len(pages) + 1
    <3>1. p <= key /\ q > key
        BY <1>1, <2>1, <2>3
    <3>2. p \in Plugins /\ q \in Plugins
        BY <1>1, <2>1, <2>3
    <3>3. p \in Nat /\ q \in Nat
        BY <3>2, CatalogueAssumption
    <3> QED
        BY <3>1, <3>3
  <2> QED
      BY <1>2, <2>2, <2>3
<1>4. \A p : (\E i \in DOMAIN longer : p \in longer[i])
                <=> p \in page \/ \E i \in DOMAIN pages : p \in pages[i]
  <2>1. \A i \in DOMAIN pages : longer[i] = pages[i]
      BY <1>1
  <2> QED
      BY <1>1, <1>2, <2>1
<1> QED
    BY <1>1, <1>3, <1>4 DEF longer

LEMMA PageKeeps ==
    ASSUME CallsInv, NEW c \in Calls, Page(c)
    PROVE  CallsInv'
<1> DEFINE a == attempt[c]
           key == token[c]
           probe == First(PageSize + 1, After(key))
           page == First(PageSize, probe)
           next == Continuation(probe)
<1>1. /\ pc[c] = "calling" /\ op[c] = "list" /\ result[c] = "none"
      /\ listed' = [listed EXCEPT ![c] = Append(listed[c], page)]
      /\ token' = [token EXCEPT ![c] = next]
      /\ attempt' = [attempt EXCEPT ![c] = 1]
      /\ at' = [at EXCEPT ![c] = [b \in Attempts |-> IF next # 0 /\ b = 1 THEN "arrived" ELSE "none"]]
      /\ next = 0 => /\ pc' = [pc EXCEPT ![c] = "returned"]
                     /\ result' = [result EXCEPT ![c] = "OK"]
      /\ next # 0 => pc' = pc /\ result' = result
      /\ forsaken' = {x \in forsaken : x[1] # c}
      /\ UNCHANGED <<rows, op, plugin, answer, overlap, effects, always, ever>>
    BY DEF Page, Return, CallsInv, Tracked
<1>2. key \in Nat /\ rows \subseteq Plugins /\ listed[c] \in Seq(SUBSET Plugins)
  <2>1. token[c] \in Plugins \union {0} /\ rows \subseteq Plugins
        /\ listed[c] \in Seq(SUBSET Plugins)
      BY DEF CallsInv, TypeOK
  <2>2. Plugins \union {0} \subseteq Nat
      BY CatalogueAssumption
  <2> QED
      BY <2>1, <2>2
<1>3. /\ page \subseteq rows /\ \A p \in page : p > key
      /\ next \in Plugins \union {0}
      /\ next # 0 => /\ next > key /\ \A p \in page : p <= next
                     /\ \A p \in rows : p > key /\ p <= next => p \in page
      /\ next = 0 => \A p \in rows : p > key => p \in page
  <2> HIDE DEF probe, page, next, key
  <2>1. probe = First(PageSize + 1, After(key)) /\ page = First(PageSize, probe)
        /\ next = Continuation(probe)
      BY DEF probe, page, next
  <2> QED
      BY <1>2, <2>1, PageOfRows
<1>4. /\ Ascending(listed[c]) /\ \A p \in Got(c) : p <= key
      /\ {p \in always[c] : p <= key} \subseteq Got(c) /\ Got(c) \subseteq ever[c]
      /\ always[c] \subseteq rows /\ rows \subseteq ever[c]
    BY <1>1 DEF CallsInv, ListedSoFar, Tracked, Running
<1> HIDE DEF a, key, probe, page, next
<1>5. PICK longer : longer = Append(listed[c], page)
    OBVIOUS
<1>6. /\ longer \in Seq(SUBSET Plugins) /\ Ascending(longer)
      /\ UNION {longer[i] : i \in DOMAIN longer} = Got(c) \union page
  <2>1. PICK pages, more, k : pages = listed[c] /\ more = page /\ k = key
      OBVIOUS
  <2>2. /\ pages \in Seq(SUBSET Plugins) /\ more \in SUBSET Plugins /\ k \in Nat
        /\ longer = Append(pages, more) /\ Ascending(pages)
        /\ \A q \in more : q > k
      BY <1>2, <1>3, <1>4, <1>5, <2>1
  <2>3. \A i \in DOMAIN pages : \A p \in pages[i] : p <= k
      BY <1>4, <2>1 DEF Got
  <2>4. /\ Append(pages, more) \in Seq(SUBSET Plugins) /\ Ascending(Append(pages, more))
        /\ \A p : (\E i \in DOMAIN Append(pages, more) : p \in Append(pages, more)[i])
                     <=> p \in more \/ \E i \in DOMAIN pages : p \in pages[i]
      BY <2>2, <2>3, OnePageMore
  <2>5. \A p : p \in Got(c) <=> \E i \in DOMAIN pages : p \in pages[i]
      BY <2>1 DEF Got
  <2>6. \A p : p \in UNION {longer[i] : i \in DOMAIN longer} <=> p \in Got(c) \union page
      BY <2>1, <2>2, <2>4, <2>5
  <2> QED
      BY <2>2, <2>4, <2>6
<1>7. /\ listed' \in [Calls -> Seq(SUBSET Plugins)] /\ listed'[c] = longer
      /\ token' \in [Calls -> Plugins \union {0}] /\ token'[c] = next
      /\ \A d \in Calls : d # c => listed'[d] = listed[d] /\ token'[d] = token[d]
    BY <1>1, <1>3, <1>5, <1>6 DEF CallsInv, TypeOK
<1>8. /\ pc' \in [Calls -> {"idle", "calling", "backoff", "returned"}]
      /\ result' \in [Calls -> Codes \union {"none"}]
      /\ next = 0 => pc'[c] = "returned" /\ result'[c] = "OK"
      /\ next # 0 => pc'[c] = "calling" /\ result'[c] = "none"
      /\ \A d \in Calls : d # c => pc'[d] = pc[d] /\ result'[d] = result[d]
  <2>1. "OK" \in Codes
      BY StatusIsACode
  <2>2. CASE next = 0
    <3>1. pc' = [pc EXCEPT ![c] = "returned"] /\ result' = [result EXCEPT ![c] = "OK"]
        BY <1>1, <2>2
    <3>2. /\ pc \in [Calls -> {"idle", "calling", "backoff", "returned"}]
          /\ result \in [Calls -> Codes \union {"none"}]
        BY DEF CallsInv, TypeOK
    <3> QED
        BY <2>1, <2>2, <3>1, <3>2
  <2>3. CASE next # 0
      BY <1>1, <2>3 DEF CallsInv, TypeOK
  <2> QED
      BY <2>2, <2>3
<1>9. /\ attempt' \in [Calls -> Attempts] /\ attempt'[c] = 1
      /\ at' \in [Calls -> [Attempts -> {"none", "arrived", "checked", "answered"}]]
      /\ \A b \in Attempts : /\ at'[c][b] \in {"none", "arrived"}
                             /\ at'[c][b] # "none" => next # 0 /\ b = 1
      /\ \A d \in Calls : d # c => attempt'[d] = attempt[d] /\ at'[d] = at[d]
  <2>1. 1 \in Attempts
      BY AttemptsType
  <2>2. [b \in Attempts |-> IF next # 0 /\ b = 1 THEN "arrived" ELSE "none"]
            \in [Attempts -> {"none", "arrived", "checked", "answered"}]
      OBVIOUS
  <2>3. attempt' \in [Calls -> Attempts] /\ attempt'[c] = 1
      BY <1>1, <2>1 DEF CallsInv, TypeOK
  <2>4. /\ at' \in [Calls -> [Attempts -> {"none", "arrived", "checked", "answered"}]]
        /\ at'[c] = [b \in Attempts |-> IF next # 0 /\ b = 1 THEN "arrived" ELSE "none"]
      BY <1>1, <2>2 DEF CallsInv, TypeOK
  <2>5. \A d \in Calls : d # c => attempt'[d] = attempt[d] /\ at'[d] = at[d]
      BY <1>1 DEF CallsInv, TypeOK
  <2> QED
      BY <2>3, <2>4, <2>5
<1>10. /\ forsaken' \subseteq forsaken
       /\ \A d \in Calls, b \in Attempts : <<d, b>> \in forsaken' <=> <<d, b>> \in forsaken /\ d # c
    BY <1>1
<1>11. TypeOK'
    BY <1>1, <1>7, <1>8, <1>9, <1>10 DEF CallsInv, TypeOK
<1>12. Tracked'
  <2> SUFFICES ASSUME NEW d \in Calls
               PROVE  /\ (Running(d))' => always[d] \subseteq rows /\ rows \subseteq ever[d]
                      /\ pc'[d] = "backoff" => attempt'[d] <= MaxRetries
                      /\ pc'[d] # "returned" <=> result'[d] = "none"
      BY <1>1 DEF Tracked
  <2>1. CASE d = c
      BY <1>4, <1>8, <2>1
  <2>2. CASE d # c
      BY <1>8, <1>9, <2>2 DEF CallsInv, Tracked, Running
  <2> QED
      BY <2>1, <2>2
<1>13. InHand'
  <2> SUFFICES ASSUME NEW d \in Calls, NEW b \in Attempts
               PROVE  /\ at'[d][b] # "none" => <<d, b>> \in forsaken' \/ (pc'[d] = "calling" /\ b = attempt'[d])
                      /\ <<d, b>> \in forsaken' =>
                             /\ b <= attempt'[d] /\ (pc'[d] = "calling" => b # attempt'[d])
                             /\ at'[d][b] # "answered"
                      /\ at'[d][b] = "checked" => op[d] = "create"
      BY <1>1 DEF InHand
  <2>1. CASE d = c
      BY <1>8, <1>9, <1>10, <2>1
  <2>2. CASE d # c
      BY <1>8, <1>9, <1>10, <2>2 DEF CallsInv, InHand
  <2> QED
      BY <2>1, <2>2
<1>14. \A d \in Calls : \A s : Truth(d, s) => Truth(d, s)'
    BY <1>1 DEF Truth
<1>15. AnswersUnderWay'
  <2> SUFFICES ASSUME NEW d \in Calls, NEW b \in Attempts, at'[d][b] = "answered"
               PROVE  (Truth(d, answer[d][b]))'
      BY DEF AnswersUnderWay
  <2>1. PICK s : s = answer'[d][b]
      OBVIOUS
  <2>2. d # c
      BY <1>9
  <2>3. Truth(d, s)
      BY <1>1, <1>9, <2>1, <2>2 DEF CallsInv, AnswersUnderWay
  <2>4. Truth(d, s)'
      BY <1>14, <2>3
  <2> QED
      BY <2>1, <2>4 DEF Truth
<1>16. EffectsTold'
  <2> SUFFICES ASSUME NEW d \in Calls
               PROVE  /\ pc'[d] = "idle" => \A b \in Attempts : <<d, b>> \notin forsaken'
                      /\ pc'[d] = "idle" \/ op[d] \in {"list", "update"} => effects[d] = 0
                      /\ pc'[d] # "idle" /\ op[d] # "list" => plugin[d] \in Plugins
                      /\ \/ effects[d] = 0 \/ (effects[d] = 1 /\ (Settled(d))')
                         \/ \E b \in Attempts : <<d, b>> \in forsaken'
      BY <1>1 DEF EffectsTold
  <2>1. CASE d = c
      BY <1>1, <1>8, <2>1 DEF CallsInv, EffectsTold
  <2>2. CASE d # c
    <3>1. attempt[d] \in Attempts
        BY DEF CallsInv, TypeOK
    <3>2. Settled(d) => (Settled(d))'
        BY <1>1, <1>8, <1>9, <2>2, <3>1 DEF Settled
    <3> QED
        BY <1>8, <1>10, <2>2, <3>2 DEF CallsInv, EffectsTold
  <2> QED
      BY <2>1, <2>2
<1>17. /\ (Got(c))' = Got(c) \union page
       /\ \A d \in Calls : d # c => (Got(d))' = Got(d)
  <2>1. (Got(c))' = Got(c) \union page
      BY <1>6, <1>7 DEF Got
  <2>2. ASSUME NEW d \in Calls, d # c
        PROVE  (Got(d))' = Got(d)
      BY <1>7, <2>2 DEF Got
  <2> QED
      BY <2>1, <2>2
<1>18. ListedSoFar'
  <2> SUFFICES ASSUME NEW d \in Calls
               PROVE  /\ pc'[d] = "idle" => attempt'[d] = 1 /\ listed'[d] = <<>> /\ token'[d] = 0
                      /\ op[d] = "list" /\ (Running(d))' =>
                             /\ Ascending(listed'[d])
                             /\ \A q \in (Got(d))' : q <= token'[d]
                             /\ {q \in always[d] : q <= token'[d]} \subseteq (Got(d))'
                             /\ (Got(d))' \subseteq ever[d]
      BY <1>1 DEF ListedSoFar, Ascending
  <2>1. CASE d = c /\ next # 0
    <3>1. \A q \in Got(c) \union page : q <= next
      <4>1. next \in Nat /\ key \in Nat /\ next > key
          BY <1>2, <1>3, <2>1, CatalogueAssumption
      <4>2. \A q \in Got(c) : q \in Nat /\ q <= key
        <5>1. Got(c) \subseteq Plugins
            BY <1>4 DEF CallsInv, TypeOK
        <5> QED
            BY <1>4, <5>1, CatalogueAssumption
      <4> QED
          BY <1>3, <4>1, <4>2
    <3>2. ASSUME NEW q \in always[c], q <= next
          PROVE  q \in Got(c) \union page
      <4>1. q \in Nat /\ key \in Nat /\ q \in rows
          BY <1>2, <1>4, CatalogueAssumption
      <4> QED
          BY <1>3, <1>4, <2>1, <3>2, <4>1
    <3>3. Got(c) \union page \subseteq ever[c]
        BY <1>3, <1>4
    <3> QED
        BY <1>6, <1>7, <1>8, <1>17, <2>1, <3>1, <3>2, <3>3
  <2>2. CASE d = c /\ next = 0
      BY <1>8, <2>2 DEF Running
  <2>3. CASE d # c
    <3>1. /\ pc'[d] = pc[d] /\ attempt'[d] = attempt[d] /\ listed'[d] = listed[d]
          /\ token'[d] = token[d] /\ (Got(d))' = Got(d)
        BY <1>7, <1>8, <1>9, <1>17, <2>3
    <3>2. (Running(d))' <=> Running(d)
        BY <3>1 DEF Running
    <3> QED
        BY <3>1, <3>2 DEF CallsInv, ListedSoFar
  <2> QED
      BY <2>1, <2>2, <2>3
<1>19. ListingSound'
  <2> SUFFICES ASSUME NEW d \in Calls, op[d] = "list", result'[d] = "OK"
               PROVE  /\ Ascending(listed'[d])
                      /\ always[d] \subseteq (Got(d))'
                      /\ (Got(d))' \subseteq ever[d]
      BY <1>1 DEF ListingSound, Ascending
  <2>1. CASE d = c
    <3>1. next = 0
        BY <1>8, <2>1
    <3>2. ASSUME NEW q \in always[c]
          PROVE  q \in Got(c) \union page
      <4>1. q \in Nat /\ key \in Nat /\ q \in rows
          BY <1>2, <1>4, CatalogueAssumption
      <4> QED
          BY <1>3, <1>4, <3>1, <4>1
    <3> QED
        BY <1>3, <1>4, <1>6, <1>7, <1>17, <2>1, <3>2
  <2>2. CASE d # c
      BY <1>7, <1>8, <1>17, <2>2 DEF CallsInv, ListingSound
  <2> QED
      BY <2>1, <2>2
<1>20. AnswersTrue'
  <2> SUFFICES ASSUME NEW d \in Calls
               PROVE  (Truth(d, result[d]))'
      BY DEF AnswersTrue
  <2>1. CASE d = c
    <3>1. op'[c] = "list" /\ result'[c] \in {"OK", "none"}
        BY <1>1, <1>8
    <3> QED
        BY <2>1, <3>1 DEF Truth
  <2>2. CASE d # c
    <3>1. PICK s : s = result[d]
        OBVIOUS
    <3>2. Truth(d, s)'
        BY <1>14, <3>1 DEF CallsInv, AnswersTrue
    <3> QED
        BY <1>8, <2>2, <3>1, <3>2 DEF Truth
  <2> QED
      BY <2>1, <2>2
<1> QED
    BY <1>11, <1>12, <1>13, <1>15, <1>16, <1>18, <1>19, <1>20 DEF CallsInv

-------------------------------------------------------------------------------
(* What calls are told *)

LEMMA CallsInitInv == Init => CallsInv
<1> SUFFICES ASSUME Init PROVE CallsInv
    OBVIOUS
<1>1. "OK" \in Codes
    BY StatusIsACode
<1>2. TypeOK
    BY <1>1, AttemptsType DEF Init, TypeOK, Ops
<1>3. Tracked /\ InHand
    BY DEF Init, Tracked, InHand, Running
<1>4. AnswersUnderWay /\ EffectsTold
    BY DEF Init, AnswersUnderWay, EffectsTold
<1>5. ListedSoFar /\ AnswersTrue /\ ListingSound
    BY DEF Init, ListedSoFar, AnswersTrue, ListingSound, Running, Truth
<1> QED
    BY <1>2, <1>3, <1>4, <1>5 DEF CallsInv

\* What a handler refuses is true of the table at that moment, which is one of the call
\* if the call hears it.
LEMMA HandlerKeeps ==
    ASSUME CallsInv, NEW c \in Calls, NEW a \in Attempts, HandlerStep(c, a)
    PROVE  CallsInv'
<1> USE StatusIsACode DEF Errors
<1>1. ASSUME NEW err \in Errors \ {"OK", "ErrAlreadyExists", "ErrNotFound"},
             at[c][a] \in {"arrived", "checked"}, Refuse(c, a, err)
      PROVE  CallsInv'
  <2>1. Truth(c, Status[err])
      BY <1>1 DEF Truth
  <2> QED
      BY <1>1, <2>1, RefuseKeeps
<1>2. CASE Invalid(c, a) \/ Fails(c, a) \/ LimitExceeded(c, a) \/ NoArchive(c, a)
    BY <1>1, <1>2 DEF Invalid, Fails, LimitExceeded, NoArchive
<1>3. at[c][a] \in {"arrived", "checked"} /\ <<c, a>> \notin forsaken =>
          Running(c) /\ always[c] \subseteq rows /\ rows \subseteq ever[c]
    BY DEF CallsInv, InHand, Tracked, Running
<1>4. CASE Conflict(c, a)
  <2>1. at[c][a] = "checked" /\ plugin[c] \in rows /\ Refuse(c, a, "ErrAlreadyExists")
      BY <1>4 DEF Conflict
  <2>2. <<c, a>> \notin forsaken => Truth(c, Status["ErrAlreadyExists"])
      BY <1>3, <2>1 DEF Truth
  <2> QED
      BY <2>1, <2>2, RefuseKeeps
<1>5. CASE Missing(c, a)
  <2>1. at[c][a] = "arrived" /\ plugin[c] \notin rows /\ Refuse(c, a, "ErrNotFound")
      BY <1>5 DEF Missing
  <2>2. <<c, a>> \notin forsaken => Truth(c, Status["ErrNotFound"])
      BY <1>3, <2>1 DEF Truth
  <2> QED
      BY <2>1, <2>2, RefuseKeeps
<1>6. CASE Update(c, a)
  <2>1. /\ at[c][a] = "arrived" /\ op[c] = "update"
        /\ Refuse(c, a, IF plugin[c] \in rows THEN "OK" ELSE "ErrNotFound")
      BY <1>6 DEF Update
  <2>2. CASE plugin[c] \in rows
    <3>1. <<c, a>> \notin forsaken => Truth(c, Status["OK"])
        BY <1>3, <2>1, <2>2 DEF Truth
    <3> QED
        BY <2>1, <2>2, <3>1, RefuseKeeps
  <2>3. CASE plugin[c] \notin rows
    <3>1. <<c, a>> \notin forsaken => Truth(c, Status["ErrNotFound"])
        BY <1>3, <2>1, <2>3 DEF Truth
    <3> QED
        BY <2>1, <2>3, <3>1, RefuseKeeps
  <2> QED
      BY <2>2, <2>3
<1>7. CASE CheckLimit(c, a)
    BY <1>7, CheckKeeps
<1>8. CASE Insert(c, a) \/ Delete(c, a)
    BY <1>8, ChangeKeeps
<1> QED
    BY <1>2, <1>4, <1>5, <1>6, <1>7, <1>8 DEF HandlerStep

LEMMA CallsStutter ==
    ASSUME CallsInv, UNCHANGED vars
    PROVE  CallsInv'
<1>1. UNCHANGED <<rows, op, plugin, pc, attempt, at, answer, token, listed, result, overlap, effects,
                  forsaken, always, ever>>
    BY DEF vars, listing, history
<1>2. TypeOK' /\ Tracked' /\ InHand'
    BY <1>1 DEF CallsInv, TypeOK, Tracked, InHand, Running
<1>3. AnswersUnderWay' /\ EffectsTold' /\ AnswersTrue'
    BY <1>1 DEF CallsInv, AnswersUnderWay, EffectsTold, Settled, AnswersTrue, Truth
<1>4. ListedSoFar' /\ ListingSound'
    BY <1>1, ListingKept DEF Running, listing
<1> QED
    BY <1>2, <1>3, <1>4 DEF CallsInv

\* In every state: what calls have been told, what is under way to them and what they have listed
\* is accounted for, for every number of calls, plugins, retries and every size of a page.
THEOREM CallsInvariance == Spec => []CallsInv
<1>1. ASSUME CallsInv, [Next]_vars
      PROVE  CallsInv'
  <2>1. ASSUME NEW c \in Calls, Start(c)
        PROVE  CallsInv'
    <3>1. CASE Begin(c, "list", None)
        BY <1>1, <3>1, BeginKeeps DEF Ops
    <3>2. ASSUME NEW what \in Ops \ {"list"}, NEW p \in Plugins, Begin(c, what, p)
          PROVE  CallsInv'
        BY <1>1, <3>2, BeginKeeps
    <3> QED
        BY <2>1, <3>1, <3>2 DEF Start
  <2>2. ASSUME NEW c \in Calls, ClientStep(c) \/ Lose(c) \/ Expire(c)
        PROVE  CallsInv'
      BY <1>1, <2>2, ReceiveKeeps, RetryKeeps, PageKeeps, LeaveKeeps DEF ClientStep
  <2>3. ASSUME NEW c \in Calls, NEW a \in Attempts, HandlerStep(c, a)
        PROVE  CallsInv'
      BY <1>1, <2>3, HandlerKeeps
  <2>4. CASE Over \/ UNCHANGED vars
      BY <1>1, <2>4, CallsStutter DEF Over
  <2> QED
      BY <1>1, <2>1, <2>2, <2>3, <2>4 DEF Next
<1> QED
    BY <1>1, CallsInitInv, PTL DEF Spec

\* A listing that ends has, in order and once, everything that was in the table all the time of
\* the call and nothing that never was (Client.ListPlugins, Registry.List), whatever is created and
\* deleted between its pages.
THEOREM ListingsAreSound == Spec => []ListingSound
<1>1. CallsInv => ListingSound
    BY DEF CallsInv
<1> QED
    BY <1>1, CallsInvariance, PTL

\* What a call is told is true of some moment of the call (Core, Registry, retryUnaryInterceptor).
THEOREM AnswersAreTrue == Spec => []AnswersTrue
<1>1. CallsInv => AnswersTrue
    BY DEF CallsInv
<1> QED
    BY <1>1, CallsInvariance, PTL

\* A call meets its own effect, or has it twice, only if the connection to an attempt of it broke
\* (retry.go, isTransient).
THEOREM OwnEffectIsRare == Spec => []OwnEffectOnlyAfterLoss
<1>1. ASSUME CallsInv
      PROVE  OwnEffectOnlyAfterLoss
  <2> SUFFICES ASSUME NEW c \in Calls,
                      effects[c] > 1 \/ (effects[c] = 1 /\ result[c] \in {"AlreadyExists", "NotFound"}),
                      \A a \in Attempts : <<c, a>> \notin forsaken
               PROVE  FALSE
      BY DEF OwnEffectOnlyAfterLoss
  <2>1. effects[c] # 0
      OBVIOUS
  <2>2. effects[c] = 1 /\ Settled(c)
      BY <1>1, <2>1 DEF CallsInv, EffectsTold
  <2>3. result[c] \in {"AlreadyExists", "NotFound"}
      BY <2>2
  <2> QED
      BY <1>1, <2>2, <2>3 DEF CallsInv, Tracked, Settled
<1> QED
    BY <1>1, CallsInvariance, PTL

\* Every variable of the administration keeps its type.
THEOREM TypesOfCalls == Spec => []TypeOK
<1>1. CallsInv => TypeOK
    BY DEF CallsInv
<1> QED
    BY <1>1, CallsInvariance, PTL

-------------------------------------------------------------------------------
(* The commands that publish *)

\* What a step does to disks, storage and the table: nothing is lost there, and
\* nothing is cut short.
Grows ==
    /\ dir' \in [Versions -> Contents] /\ temp' \in [Versions -> Contents]
    /\ file' \in [Versions -> Contents] /\ object' \in [Versions -> Contents]
    /\ row' \subseteq Versions
    /\ \A w \in Versions :
           /\ dir[w] # "none" => dir'[w] # "none"
           /\ file[w] # "none" => file'[w] # "none"
           /\ object[w] # "none" => object'[w] # "none"
           /\ dir'[w] # "cut" /\ file'[w] # "cut" /\ object'[w] # "cut"
    /\ row \subseteq row'

\* Each version has a temporary file of its own.
OthersKeep(v) == \A w \in Versions : w # v => temp'[w] = temp[w]

LEMMA SameDisk ==
    ASSUME PublishInv, UNCHANGED disk
    PROVE  Grows /\ temp' = temp /\ \A v \in Versions : OthersKeep(v)
BY DEF PublishInv, PublishTypeOK, NothingCut, ArchivesWhole, Grows, disk, OthersKeep

LEMMA DoneStays ==
    ASSUME Grows, cmd \in Options, cmd' = cmd, NEW w \in Versions, Done(w)
    PROVE  Done(w)'
<1>1. cmd.kind \in {"build", "pack", "push", "register"}
    BY DEF Options
<1>2. CASE cmd.kind = "build"
    BY <1>2 DEF Grows, Done
<1>3. CASE cmd.kind = "pack"
    BY <1>3 DEF Grows, Done
<1>4. CASE cmd.kind = "push"
    BY <1>4 DEF Grows, Done
<1>5. CASE cmd.kind = "register"
    BY <1>5 DEF Grows, Done
<1> QED
    BY <1>1, <1>2, <1>3, <1>4, <1>5

\* A step of a version that the command found leaves it found.
LEMMA VersionStep ==
    ASSUME PublishInv, exit = "none", exit' = exit, cmd' = cmd, cancelled' = cancelled,
           Grows,
           NEW v \in Versions, item[v] # "out", OthersKeep(v),
           NEW how \in {"working", "exporting", "archiving", "ok", "skipped", "failed",
                        "unstarted"},
           item' = [item EXCEPT ![v] = how],
           tally' \in [ok : Nat, skipped : Nat, failed : Nat],
           tally'.failed >= tally.failed, how = "failed" => tally'.failed > 0,
           aborted' \in BOOLEAN, groupErr' \in BOOLEAN,
           aborted => aborted', groupErr => groupErr',
           how = "unstarted" =>
               groupErr' /\ aborted' /\ cmd.kind \in {"push", "register"},
           how \in {"ok", "skipped"} => Done(v)',
           how = "exporting" => cmd.kind = "build",
           how = "archiving" =>
               cmd.kind \in {"pack", "push"} /\ ~FromFile /\ temp'[v] # "none",
           tried \subseteq tried', tried' \subseteq tried \union {v},
           GoesOn /\ ~cancelled => ~aborted' /\ v \in tried'
    PROVE  PublishInv'
<1>1. cmd \in Options
    BY DEF PublishInv, AtRest
<1>2. PublishTypeOK'
    BY <1>1 DEF PublishInv, PublishTypeOK, Grows
<1>3. NothingCut'
    BY DEF Grows, NothingCut, ArchivesWhole
<1>4. Scanned' = Scanned
    BY DEF PublishInv, PublishTypeOK, Scanned
<1>5. SourceThere'
    BY <1>4 DEF PublishInv, SourceThere, Scanned, Grows
<1>6. Outcomes'
  <2> SUFFICES ASSUME NEW w \in Versions
               PROVE  /\ item'[w] = "failed" => tally'.failed > 0
                      /\ item'[w] = "unstarted" =>
                             groupErr' /\ aborted' /\ cmd.kind \in {"push", "register"}
                      /\ item'[w] \in {"ok", "skipped"} => Done(w)'
                      /\ item'[w] = "exporting" => cmd.kind = "build"
                      /\ item'[w] = "archiving" =>
                             cmd.kind \in {"pack", "push"} /\ ~FromFile /\ temp'[w] # "none"
      BY DEF Outcomes, FromFile
  <2>1. CASE w = v
      BY <2>1 DEF PublishInv, PublishTypeOK
  <2>2. CASE w # v
    <3>1. item'[w] = item[w]
        BY <2>2 DEF PublishInv, PublishTypeOK
    <3>2. item[w] = "failed" => tally'.failed > 0
        BY DEF PublishInv, PublishTypeOK, Outcomes
    <3>3. item[w] \in {"ok", "skipped"} => Done(w)'
        BY <1>1, DoneStays DEF PublishInv, Outcomes
    <3>4. temp'[w] = temp[w]
        BY <2>2 DEF OthersKeep
    <3> QED
        BY <3>1, <3>2, <3>3, <3>4 DEF PublishInv, Outcomes
  <2> QED
      BY <2>1, <2>2
<1>7. AtRest'
    BY <1>1 DEF AtRest, Options
<1>8. BegunIsTried'
  <2>1. /\ \A w \in Versions : w # v => item'[w] = item[w]
        /\ item'[v] = how /\ tried \subseteq Versions
      BY DEF PublishInv, PublishTypeOK
  <2>2. \A w \in tried' : item'[w] \notin {"out", "queued"}
      BY <2>1 DEF PublishInv, BegunIsTried
  <2>3. ASSUME GoesOn, ~cancelled
        PROVE  /\ ~aborted'
               /\ \A w \in Versions : item'[w] \notin {"out", "queued"} => w \in tried'
      BY <2>1, <2>3 DEF PublishInv, BegunIsTried
  <2> QED
      BY <2>2, <2>3 DEF BegunIsTried, GoesOn
<1>9. ExitIsTrue' /\ NoneStranded'
    BY DEF ExitIsTrue, NoneStranded
<1> QED
    BY <1>2, <1>3, <1>5, <1>6, <1>7, <1>8, <1>9 DEF PublishInv

\* tracker.finish counts.
LEMMA Counted ==
    ASSUME PublishInv, NEW v \in Versions, NEW how \in {"ok", "skipped", "failed"},
           Finish(v, how)
    PROVE  /\ tally' \in [ok : Nat, skipped : Nat, failed : Nat]
           /\ tally'.failed >= tally.failed
           /\ how = "failed" => tally'.failed > 0
BY DEF PublishInv, PublishTypeOK, Finish

LEMMA NotCounted ==
    ASSUME PublishInv, UNCHANGED tally
    PROVE  /\ tally' \in [ok : Nat, skipped : Nat, failed : Nat]
           /\ tally'.failed >= tally.failed
<1>1. tally \in [ok : Nat, skipped : Nat, failed : Nat] /\ tally.failed \in Nat
    BY DEF PublishInv, PublishTypeOK
<1> QED
    BY <1>1

\* What is at work belongs to a command that runs, and it was begun in time.
LEMMA BegunAtWork ==
    ASSUME PublishInv, NEW v \in Versions, item[v] \in {"working", "exporting", "archiving"}
    PROVE  /\ exit = "none" /\ item[v] # "out"
           /\ GoesOn /\ ~cancelled => ~aborted /\ v \in tried
BY DEF PublishInv, AtRest, Working, BegunIsTried

LEMMA StartItemInv ==
    ASSUME PublishInv, NEW v \in Versions, StartItem(v)
    PROVE  PublishInv'
<1>1. /\ exit = "none" /\ item[v] = "queued" /\ Grows /\ OthersKeep(v)
    BY SameDisk DEF StartItem, Turn
<1>2. /\ tried \subseteq tried' /\ tried' \subseteq tried \union {v}
      /\ GoesOn /\ ~cancelled => ~aborted' /\ v \in tried'
    BY DEF StartItem, flags, PublishInv, PublishTypeOK, BegunIsTried
<1> QED
    BY <1>1, <1>2, NotCounted, VersionStep
    DEF StartItem, flags, PublishInv, PublishTypeOK

LEMMA SkipInv ==
    ASSUME PublishInv, NEW v \in Versions, Skip(v)
    PROVE  PublishInv'
<1>1. /\ exit = "none" /\ item[v] = "queued" /\ Grows /\ OthersKeep(v)
    BY SameDisk DEF Skip, Turn
<1>2. Done(v)'
    BY DEF Skip, Done, disk
<1>3. /\ tried \subseteq tried' /\ tried' \subseteq tried \union {v}
      /\ GoesOn /\ ~cancelled => ~aborted' /\ v \in tried'
    BY DEF Skip, flags, PublishInv, PublishTypeOK, BegunIsTried
<1> QED
    BY <1>1, <1>2, <1>3, Counted, VersionStep
    DEF Skip, Finish, flags, PublishInv, PublishTypeOK

LEMMA UnstartedInv ==
    ASSUME PublishInv, NEW v \in Versions, Unstarted(v)
    PROVE  PublishInv'
<1>1. /\ exit = "none" /\ item[v] = "queued" /\ Grows /\ OthersKeep(v)
    BY SameDisk DEF Unstarted, Turn
<1>2. ~(GoesOn /\ ~cancelled)
    BY DEF Unstarted, PublishInv, BegunIsTried
<1> QED
    BY <1>1, <1>2, NotCounted, VersionStep DEF Unstarted, PublishInv, PublishTypeOK

\* An item at work ends in success.
LEMMA FinishesInv ==
    ASSUME PublishInv, NEW v \in Versions, item[v] \in {"working", "exporting", "archiving"},
           NEW how \in {"ok", "skipped"}, Finish(v, how), Same, Grows, OthersKeep(v), Done(v)'
    PROVE  PublishInv'
BY BegunAtWork, Counted, VersionStep DEF Finish, Same, flags, PublishInv, PublishTypeOK

\* An item at work fails.
LEMMA FailsInv ==
    ASSUME PublishInv, NEW v \in Versions, item[v] \in {"working", "exporting", "archiving"},
           NEW cause \in {"other", "Canceled", "DeadlineExceeded"}, Fail(v, cause), Grows,
           OthersKeep(v),
           cause = "Canceled" => aborted,
           cause = "DeadlineExceeded" => cmd.kind = "register"
    PROVE  PublishInv'
<1>1. /\ exit = "none" /\ item[v] # "out"
      /\ GoesOn /\ ~cancelled => ~aborted /\ v \in tried
    BY BegunAtWork
<1>2. GoesOn /\ ~cancelled => ~Aborts(cause)
    BY <1>1 DEF GoesOn, Aborts
<1>3. Aborts(cause) \in BOOLEAN
  <2>1. cmd \in Options
      BY <1>1 DEF PublishInv, AtRest
  <2> QED
      BY <2>1 DEF Aborts, Options, PublishInv, PublishTypeOK
<1>4. /\ aborted' = (aborted \/ Aborts(cause)) /\ groupErr' = (groupErr \/ Aborts(cause))
      /\ Finish(v, "failed") /\ cmd' = cmd /\ cancelled' = cancelled /\ tried' = tried
      /\ exit' = exit
    BY DEF Fail
<1>5. aborted' \in BOOLEAN /\ groupErr' \in BOOLEAN
    BY <1>3, <1>4 DEF PublishInv, PublishTypeOK
<1> QED
    BY <1>1, <1>2, <1>4, <1>5, Counted, VersionStep
    DEF Finish, PublishInv, PublishTypeOK

LEMMA ExportInv ==
    ASSUME PublishInv, NEW v \in Versions, Export(v)
    PROVE  PublishInv'
<1>1. Grows /\ OthersKeep(v)
    BY DEF Export, OthersKeep, Same, PublishInv, PublishTypeOK, Contents, NothingCut, ArchivesWhole,
           Grows
<1>2. item[v] = "working" /\ cmd.kind = "build"
    BY DEF Export, Building
<1> QED
    BY <1>1, <1>2, BegunAtWork, NotCounted, VersionStep
    DEF Export, Same, flags, PublishInv, PublishTypeOK

LEMMA BuildInv ==
    ASSUME PublishInv, NEW v \in Versions,
           Built(v) \/ DockerFails(v) \/ NoEntrypoint(v)
    PROVE  PublishInv'
<1>1. CASE Built(v)
  <2>1. Grows /\ OthersKeep(v)
      BY <1>1 DEF Built, OthersKeep, PublishInv, PublishTypeOK, Contents, NothingCut, ArchivesWhole,
                  Grows
  <2>2. cmd.kind = "build" /\ cmd' = cmd
      BY <1>1 DEF Built, Same, PublishInv, Outcomes
  <2>3. dir'[v] = "whole"
      BY <1>1 DEF Built, PublishInv, PublishTypeOK
  <2>4. Done(v)'
      BY <2>2, <2>3 DEF Done
  <2> QED
      BY <1>1, <2>1, <2>4, FinishesInv DEF Built
<1>2. CASE DockerFails(v)
    BY <1>2, SameDisk, FailsInv DEF DockerFails, Building
<1>3. CASE NoEntrypoint(v)
  <2>1. item[v] = "working" /\ cmd.kind = "build" /\ Grows /\ OthersKeep(v)
      BY <1>3, SameDisk DEF NoEntrypoint, Building
  <2>2. CASE Cached(v)
    <3>1. Finish(v, "ok") /\ Same
        BY <1>3, <2>2 DEF NoEntrypoint
    <3>2. Done(v)'
        BY <1>3, <2>1, <2>2, <3>1 DEF NoEntrypoint, Same, Done, Cached, disk
    <3> QED
        BY <2>1, <3>1, <3>2, FinishesInv
  <2>3. CASE ~Cached(v)
    <3>1. Fail(v, "other")
        BY <1>3, <2>3 DEF NoEntrypoint
    <3> QED
        BY <2>1, <3>1, FailsInv
  <2> QED
      BY <2>2, <2>3
<1> QED
    BY <1>1, <1>2, <1>3

\* The temporary file is begun, or ended: what is archived has a directory.
LEMMA ArchivingInv ==
    ASSUME PublishInv, NEW v \in Versions, Archive(v) \/ CloseTemp(v)
    PROVE  PublishInv'
<1>1. /\ item[v] \in {"working", "archiving"} /\ Same /\ UNCHANGED tally
      /\ cmd.kind \in {"pack", "push"} /\ ~FromFile
      /\ UNCHANGED <<dir, file, object, row>>
    BY DEF Archive, CloseTemp, Doing, FromFile, PublishInv, Outcomes
<1>2. dir[v] # "none" /\ dir[v] \in Contents
    BY <1>1 DEF FromFile, PublishInv, PublishTypeOK, SourceThere, Scanned
<1>3. PICK x \in {"cut", dir[v]} : temp' = [temp EXCEPT ![v] = x]
    BY DEF Archive, CloseTemp
<1>4. /\ temp' \in [Versions -> Contents] /\ temp'[v] # "none" /\ OthersKeep(v)
    BY <1>2, <1>3 DEF Contents, OthersKeep, PublishInv, PublishTypeOK
<1>5. Grows
    BY <1>1, <1>4 DEF Grows, PublishInv, PublishTypeOK, NothingCut, ArchivesWhole
<1>6. item' = [item EXCEPT ![v] = "archiving"]
    BY DEF Archive, CloseTemp, PublishInv, PublishTypeOK
<1> QED
    BY <1>1, <1>4, <1>5, <1>6, BegunAtWork, NotCounted, VersionStep
    DEF Same, flags, PublishInv, PublishTypeOK

LEMMA PublishStepInv ==
    ASSUME PublishInv, NEW v \in Versions, PublishStep(v)
    PROVE  PublishInv'
<1>1. CASE Pack(v)
  <2>1. item[v] = "archiving" /\ cmd.kind = "pack" /\ cmd' = cmd /\ Finish(v, "ok") /\ Same
      BY <1>1 DEF Pack, Same
  <2>2. temp[v] # "none" /\ temp[v] # "cut" /\ temp[v] \in Contents
      BY <1>1, <2>1 DEF Pack, PublishInv, PublishTypeOK, Outcomes
  <2>3. Grows /\ file'[v] # "none" /\ OthersKeep(v)
      BY <1>1, <2>2 DEF Pack, PublishInv, PublishTypeOK, NothingCut, ArchivesWhole, Grows,
                        OthersKeep, Contents
  <2>4. Done(v)'
      BY <2>1, <2>3 DEF Done
  <2> QED
      BY <2>1, <2>3, <2>4, FinishesInv
<1>2. CASE Upload(v)
  <2>1. /\ item[v] \in {"working", "archiving"} /\ cmd.kind = "push" /\ cmd' = cmd
        /\ Finish(v, "ok") /\ Same
      BY <1>2 DEF Upload, Same
  <2>2. PICK x \in Contents : /\ x # "none" /\ x # "cut"
                              /\ object' = [object EXCEPT ![v] = x]
    <3>1. CASE FromFile
      <4>1. file[v] # "none" /\ file[v] # "cut" /\ file[v] \in Contents
          BY <1>2, <2>1, <3>1 DEF FromFile, PublishInv, PublishTypeOK, SourceThere, Scanned,
                                  NothingCut, ArchivesWhole
      <4> QED
          BY <1>2, <3>1, <4>1 DEF Upload
    <3>2. CASE ~FromFile
      <4>1. temp[v] # "none" /\ temp[v] # "cut" /\ temp[v] \in Contents
          BY <1>2, <3>2 DEF Upload, PublishInv, PublishTypeOK, Outcomes
      <4> QED
          BY <1>2, <3>2, <4>1 DEF Upload
    <3> QED
        BY <3>1, <3>2
  <2>3. temp' \in [Versions -> Contents] /\ OthersKeep(v) /\ UNCHANGED <<dir, file, row>>
      BY <1>2 DEF Upload, PublishInv, PublishTypeOK, OthersKeep, Contents
  <2>4. Grows /\ object'[v] # "none"
      BY <2>2, <2>3 DEF PublishInv, PublishTypeOK, NothingCut, ArchivesWhole, Grows
  <2>5. Done(v)'
      BY <2>1, <2>4 DEF Done
  <2> QED
      BY <2>1, <2>3, <2>4, <2>5, FinishesInv
<1>3. CASE Register(v)
  <2>1. item[v] = "working" /\ cmd.kind = "register" /\ cmd' = cmd /\ Finish(v, "ok")
        /\ Same
      BY <1>3 DEF Register, Doing, Same
  <2>2. Grows /\ OthersKeep(v) /\ v \in row'
      BY <1>3 DEF Register, PublishInv, PublishTypeOK, NothingCut, ArchivesWhole, Grows,
                  OthersKeep
  <2>3. Done(v)'
      BY <2>1, <2>2 DEF Done
  <2> QED
      BY <2>1, <2>2, <2>3, FinishesInv
<1>4. CASE RegisterSkips(v)
  <2>1. item[v] = "working" /\ cmd.kind = "register" /\ cmd' = cmd /\ Same
        /\ Finish(v, "skipped") /\ Grows /\ OthersKeep(v) /\ v \in row'
      BY <1>4, SameDisk DEF RegisterSkips, Doing, Same, disk
  <2>2. Done(v)'
      BY <2>1 DEF Done
  <2> QED
      BY <2>1, <2>2, FinishesInv
<1>5. CASE ItemFails(v)
  <2>1. Grows /\ OthersKeep(v)
      BY <1>5 DEF ItemFails, PublishInv, PublishTypeOK, NothingCut, ArchivesWhole, Grows,
                  OthersKeep, Contents
  <2>2. item[v] \in {"working", "archiving"}
      BY <1>5 DEF ItemFails
  <2>3. CASE aborted
      BY <1>5, <2>1, <2>2, <2>3, FailsInv DEF ItemFails
  <2>4. CASE ~aborted
      BY <1>5, <2>1, <2>2, <2>4, FailsInv DEF ItemFails
  <2> QED
      BY <2>3, <2>4
<1>6. CASE CallExpires(v)
    BY <1>6, SameDisk, FailsInv DEF CallExpires, Doing
<1>7. CASE Archive(v) \/ CloseTemp(v)
    BY <1>7, ArchivingInv
<1> QED
    BY <1>1, <1>2, <1>3, <1>4, <1>5, <1>6, <1>7 DEF PublishStep

LEMMA BeginCommandInv ==
    ASSUME PublishInv, NEW c \in Options, BeginCommand(c)
    PROVE  PublishInv'
<1>1. /\ cmd' = c /\ exit' = "none" /\ UNCHANGED disk /\ tried' = {}
      /\ item' = [v \in Versions |-> IF v \in Scan(c) THEN "queued" ELSE "out"]
      /\ tally' = [ok |-> 0, skipped |-> 0, failed |-> 0]
      /\ cancelled' = FALSE /\ aborted' = FALSE /\ groupErr' = FALSE
    BY DEF BeginCommand
<1>2. PublishTypeOK'
    BY <1>1 DEF PublishInv, PublishTypeOK, disk
<1>3. NothingCut'
    BY <1>1 DEF PublishInv, NothingCut, ArchivesWhole, disk
<1>4. SourceThere'
  <2>1. c.kind \in {"build", "pack", "push", "register"} /\ c.packed \in BOOLEAN
      BY DEF Options
  <2>2. \A v \in Scanned' : v \in Versions /\ v \in Scan(c)
      BY <1>1 DEF Scanned
  <2>3. c.kind = "pack" => ~c.packed
      BY DEF BeginCommand, Sensible
  <2>4. c.kind # "build" /\ ~c.packed => \A v \in Scan(c) : dir[v] # "none"
      BY DEF Scan, Cached
  <2>5. c.kind # "build" /\ c.packed => \A v \in Scan(c) : file[v] # "none"
      BY DEF Scan
  <2> QED
      BY <1>1, <2>1, <2>2, <2>3, <2>4, <2>5 DEF SourceThere, disk
<1>5. Outcomes' /\ BegunIsTried'
    BY <1>1 DEF Outcomes, BegunIsTried
<1>6. AtRest'
    BY <1>1 DEF AtRest, Options
<1>7. ExitIsTrue' /\ NoneStranded'
    BY <1>1 DEF ExitIsTrue, NoneStranded
<1> QED
    BY <1>2, <1>3, <1>4, <1>5, <1>6, <1>7 DEF PublishInv

\* A command that ends without an error has nothing queued, failed or unstarted.
LEMMA EndInv ==
    ASSUME PublishInv, End
    PROVE  PublishInv'
<1>1. /\ exit = "none" /\ exit' = ExitStatus
      /\ UNCHANGED <<disk, cmd, item, tally, flags, tried>>
    BY DEF End
<1>2. ExitStatus \in {"ok", "error"}
    BY DEF ExitStatus
<1>3. Working = {}
    BY DEF End, ItemOver, Working
<1>4. PublishTypeOK'
    BY <1>1, <1>2 DEF PublishInv, PublishTypeOK, disk, flags
<1>5. NothingCut' /\ SourceThere'
    BY <1>1 DEF PublishInv, NothingCut, ArchivesWhole, SourceThere, Scanned, disk
<1>6. Outcomes' /\ BegunIsTried'
    BY <1>1 DEF PublishInv, Outcomes, Done, BegunIsTried, GoesOn, FromFile, disk, flags
<1>7. AtRest'
    BY <1>1, <1>2, <1>3 DEF PublishInv, AtRest, Working, Scanned
<1>8. ExitIsTrue'
  <2> SUFFICES ASSUME ExitStatus = "ok", ~(cmd.kind = "register" /\ cmd.goOn),
                      NEW v \in Scanned
               PROVE  Done(v)'
      BY <1>1 DEF ExitIsTrue, Scanned
  <2>1. cmd \in Options /\ v \in Versions /\ item[v] # "out"
      BY <1>1 DEF PublishInv, AtRest, Scanned
  <2>2. item[v] # "queued"
      BY <2>1 DEF ExitStatus
  <2>3. cmd.kind \in {"build", "pack", "push", "register"} /\ cmd.goOn \in BOOLEAN
      BY <2>1 DEF Options
  <2>4. item[v] # "failed"
      BY <2>1, <2>3 DEF ExitStatus, PublishInv, Outcomes
  <2>5. item[v] # "unstarted"
      BY <2>1 DEF ExitStatus, PublishInv, Outcomes
  <2>6. item[v] \in {"ok", "skipped"}
      BY <1>3, <2>1, <2>2, <2>4, <2>5 DEF PublishInv, PublishTypeOK, Working
  <2> QED
      BY <1>1, <2>1, <2>6 DEF PublishInv, Outcomes, Done, disk
<1>9. NoneStranded'
  <2> SUFFICES ASSUME ~cancelled, GoesOn, NEW v \in Scanned
               PROVE  v \in tried
      BY <1>1 DEF NoneStranded, GoesOn, Scanned, flags
  <2>1. ~aborted
      BY DEF PublishInv, BegunIsTried
  <2>2. ItemOver(v) /\ v \in Versions /\ item[v] # "out"
      BY <2>1 DEF End, Scanned
  <2> QED
      BY <2>2 DEF PublishInv, BegunIsTried, ItemOver
<1> QED
    BY <1>4, <1>5, <1>6, <1>7, <1>8, <1>9 DEF PublishInv

LEMMA OutsideInv ==
    ASSUME PublishInv, Refused \/ Interrupt \/ Kill
    PROVE  PublishInv'
<1>1. CASE Refused
  <2>1. Working' = {}
      BY <1>1 DEF Refused, Working
  <2> QED
      BY <1>1, <2>1 DEF Refused, PublishInv, PublishTypeOK, NothingCut, ArchivesWhole,
          SourceThere, Scanned, Outcomes, Done, AtRest, BegunIsTried, GoesOn, ExitIsTrue, NoneStranded,
          FromFile, disk, flags
<1>2. CASE Interrupt
    BY <1>2 DEF Interrupt, PublishInv, PublishTypeOK, NothingCut, ArchivesWhole,
        SourceThere, Scanned, Outcomes, Done, AtRest, Working, BegunIsTried, ExitIsTrue, NoneStranded, GoesOn,
        FromFile, disk
<1>3. CASE Kill
  <2>1. Scanned' = {} /\ Working' = {}
      BY <1>3 DEF Kill, Scanned, Working
  <2> QED
      BY <1>3, <2>1 DEF Kill, PublishInv, PublishTypeOK, NothingCut, ArchivesWhole,
          SourceThere, Outcomes, AtRest, BegunIsTried, ExitIsTrue, NoneStranded, GoesOn, Contents, FromFile, disk
<1> QED
    BY <1>1, <1>2, <1>3

LEMMA PublishInvInit == PublishInit => PublishInv
<1> SUFFICES ASSUME PublishInit PROVE PublishInv
    OBVIOUS
<1>1. Scanned = {} /\ Working = {}
    BY DEF PublishInit, Scanned, Working
<1> QED
    BY <1>1 DEF PublishInit, PublishInv, PublishTypeOK, Contents, NothingCut,
        ArchivesWhole, SourceThere, Outcomes, AtRest, BegunIsTried, ExitIsTrue, NoneStranded

LEMMA PublishInvNext == PublishInv /\ [PublishNext]_publishVars => PublishInv'
<1> SUFFICES ASSUME PublishInv, [PublishNext]_publishVars PROVE PublishInv'
    OBVIOUS
<1>1. CASE \E c \in Options : BeginCommand(c)
    BY <1>1, BeginCommandInv
<1>2. CASE \E v \in Versions : StartItem(v) \/ Skip(v) \/ Unstarted(v)
    BY <1>2, StartItemInv, SkipInv, UnstartedInv
<1>3. CASE \E v \in Versions : BuildStep(v)
    BY <1>3, ExportInv, BuildInv DEF BuildStep
<1>4. CASE \E v \in Versions : PublishStep(v)
    BY <1>4, PublishStepInv
<1>5. CASE End
    BY <1>5, EndInv
<1>6. CASE Refused \/ Interrupt \/ Kill
    BY <1>6, OutsideInv
<1>7. CASE UNCHANGED publishVars
    BY <1>7 DEF publishVars, PublishInv, PublishTypeOK, NothingCut, ArchivesWhole,
        SourceThere, Scanned, Outcomes, Done, AtRest, Working, BegunIsTried, GoesOn,
        ExitIsTrue, NoneStranded, FromFile, disk, flags
<1> QED
    BY <1>1, <1>2, <1>3, <1>4, <1>5, <1>6, <1>7 DEF PublishNext, Progress

\* Whatever commands follow one another, with however many versions and however
\* many of them at once: what a command has done stays, and is what its exit says.
THEOREM PublishInvariance == PublishSpec => []PublishInv
BY PublishInvInit, PublishInvNext, PTL DEF PublishSpec

THEOREM TypesOfCommands == PublishSpec => []PublishTypeOK
<1>1. PublishInv => PublishTypeOK
    BY DEF PublishInv
<1> QED
    BY <1>1, PublishInvariance, PTL

\* A command that exits without an error has done its work for every version that it
\* found: the next command of a script may rely on it.
THEOREM ExitsAreTrue == PublishSpec => []ExitIsTrue
<1>1. PublishInv => ExitIsTrue
    BY DEF PublishInv
<1> QED
    BY <1>1, PublishInvariance, PTL

\* No archive on disk or in storage is without its end, wherever a command failed or was
\* killed while it wrote one.
THEOREM ArchivesAreWhole == PublishSpec => []ArchivesWhole
<1>1. PublishInv => ArchivesWhole
    BY DEF PublishInv, NothingCut
<1> QED
    BY <1>1, PublishInvariance, PTL

\* A failure strands nothing: a command that goes on after one, and has begun anything, has
\* begun every version it found when it ends, unless it was interrupted.
THEOREM NothingIsStranded == PublishSpec => []NoneStranded
<1>1. PublishInv => NoneStranded
    BY DEF PublishInv
<1> QED
    BY <1>1, PublishInvariance, PTL
================================================================================
