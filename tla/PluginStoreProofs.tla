--------------------------- MODULE PluginStoreProofs ---------------------------
(***************************************************************************)
(* Proofs about PluginStore, for any plugins, archives, calls and          *)
(* administrators, and any number of restarts: nothing is unpacked or run  *)
(* that was never registered for its directory, one call at a time unpacks *)
(* a plugin, no call waits on a flight that is over, the cache's total is  *)
(* the size of its entries, and a registered plugin has its archive unless *)
(* its row was written in the middle of a deletion.                        *)
(***************************************************************************)
EXTENDS PluginStore, FiniteSetTheorems, TLAPS

LEMMA NoneIsNothing ==
    /\ None \notin Plugins /\ None \notin Contents /\ None \notin Calls
    /\ Warm \notin Calls /\ Contents \subseteq Nat /\ 0 \notin Contents
    /\ Plugins \subseteq Dirs /\ None \notin Dirs
    /\ Unchecked \notin Contents /\ Unchecked # None
  BY PluginStoreAssumption

-------------------------------------------------------------------------------
(* The initial states *)

LEMMA InitInv == Init => IInv
<1>. SUFFICES ASSUME Init PROVE IInv
  OBVIOUS
<1>1. TypeOK
  <2>1. /\ row \in [Plugins -> Contents \union {Unchecked, None}]
        /\ archive \in [Plugins -> Contents \union {None}] /\ home \in [Plugins -> Dirs]
        /\ disk \in [Dirs -> Contents \union {None}] /\ scan \subseteq Dirs
    BY DEF Init, OnDisk
  <2>2. recorded \in [Dirs -> SUBSET (Contents \union {Unchecked})]
    <3>1. \A d \in Dirs : recorded[d] = ({disk[d]} \ {None}) \union
                {row[p] : p \in {q \in Plugins : row[q] # None /\ home[q] = d}}
      BY DEF Init
    <3>2. \A d \in Dirs : recorded[d] \subseteq Contents \union {Unchecked}
      BY <2>1, <3>1
    <3>. QED  BY <3>2 DEF Init
  <2>. QED  BY <2>1, <2>2, PluginStoreAssumption DEF Init, TypeOK, Tasks, TaskState, AdminState,
            Operations
<1>2. AtWork /\ Registered /\ OnlyRegisteredRuns
  BY NoneIsNothing DEF Init, AtWork, Registered, OnlyRegisteredRuns, Known, OnDisk, Tasks
<1>3. OneFlight /\ FlightsTended /\ NoFollowerStranded
  BY NoneIsNothing DEF Init, OneFlight, FlightsTended, NoFollowerStranded, Tasks, Leading
<1>. QED  BY <1>1, <1>2, <1>3 DEF IInv

-------------------------------------------------------------------------------
(* Flights *)

\* A task that goes on without entering or leaving a flight disturbs none.
LEMMA GotoKeepsFlights ==
    ASSUME TypeOK, AtWork, OneFlight, FlightsTended, NoFollowerStranded,
           NEW t \in Tasks, NEW s \in TaskState \ {"follow"}, Goto(t, s),
           flight' = flight,
           \A g \in Calls : g # t => at'[g] = at[g],
           t \in Calls => /\ s \in Leading <=> pc[t] \in Leading
                          /\ pc[t] \in Leading => at'[t] = at[t]
    PROVE  OneFlight' /\ FlightsTended' /\ NoFollowerStranded'
<1>1. \A g \in Calls : pc'[g] = IF g = t THEN s ELSE pc[g]
  BY DEF Goto, TypeOK, Tasks
<1>2. OneFlight'
  BY <1>1 DEF OneFlight
<1>3. \A p \in Plugins : flight[p] # None => flight[p] \in Calls
  BY DEF TypeOK
<1>4. FlightsTended'
  BY <1>1, <1>3 DEF FlightsTended
<1>5. NoFollowerStranded'
  <2>. SUFFICES ASSUME NEW g \in Calls, pc'[g] = "follow"
                PROVE  /\ flight[at'[g]] # None
                       /\ pc'[flight[at'[g]]] \in Leading
                       /\ at'[flight[at'[g]]] = at'[g]
    BY DEF NoFollowerStranded
  <2>1. g # t /\ pc[g] = "follow" /\ at'[g] = at[g]
    BY <1>1
  <2>2. /\ flight[at[g]] # None
        /\ pc[flight[at[g]]] \in Leading /\ at[flight[at[g]]] = at[g]
    BY <2>1 DEF NoFollowerStranded
  <2>3. flight[at[g]] \in Calls
    BY <2>1, <2>2 DEF TypeOK, AtWork
  <2>. QED  BY <1>1, <2>1, <2>2, <2>3
<1>. QED  BY <1>2, <1>4, <1>5

\* A flight that ends takes its followers with it, and nobody else.
LEMMA EndFlightKeepsFlights ==
    ASSUME TypeOK, AtWork, OneFlight, FlightsTended, NoFollowerStranded,
           NEW g \in Calls, NEW s \in TaskState \ ({"follow"} \union Leading),
           pc[g] \in Leading, EndFlight(g, s), at' = at
    PROVE  OneFlight' /\ FlightsTended' /\ NoFollowerStranded'
<1>1. /\ flight[at[g]] = g /\ at[g] \in Plugins
      /\ flight' = [flight EXCEPT ![at[g]] = None]
  BY DEF OneFlight, EndFlight, AtWork, Leading
<1>2. \A d \in Calls : pc'[d] = IF d = g \/ (pc[d] = "follow" /\ at[d] = at[g])
                                THEN s ELSE pc[d]
  BY DEF EndFlight, Tasks
<1>3. "follow" \notin Leading
  BY DEF Leading
<1>4. OneFlight'
  <2>. SUFFICES ASSUME NEW d \in Calls, pc'[d] \in Leading PROVE flight'[at'[d]] = d
    BY DEF OneFlight
  <2>1. d # g /\ pc[d] \in Leading /\ flight[at[d]] = d
    BY <1>2 DEF OneFlight
  <2>. QED  BY <1>1, <2>1 DEF TypeOK
<1>5. FlightsTended'
  <2>. SUFFICES ASSUME NEW p \in Plugins, flight'[p] # None
                PROVE  pc'[flight'[p]] \in Leading /\ at'[flight'[p]] = p
    BY DEF FlightsTended
  <2>1. p # at[g] /\ flight'[p] = flight[p]
    BY <1>1 DEF TypeOK
  <2>2. flight[p] \in Calls /\ pc[flight[p]] \in Leading /\ at[flight[p]] = p
    BY <2>1 DEF FlightsTended, TypeOK
  <2>. QED  BY <1>2, <1>3, <2>1, <2>2
<1>6. NoFollowerStranded'
  <2>. SUFFICES ASSUME NEW d \in Calls, pc'[d] = "follow"
                PROVE  /\ flight'[at[d]] # None
                       /\ pc'[flight'[at[d]]] \in Leading
                       /\ at[flight'[at[d]]] = at[d]
    BY DEF NoFollowerStranded
  <2>1. pc[d] = "follow" /\ at[d] # at[g]
    BY <1>2
  <2>2. /\ flight[at[d]] # None
        /\ pc[flight[at[d]]] \in Leading /\ at[flight[at[d]]] = at[d]
    BY <2>1 DEF NoFollowerStranded
  <2>3. flight[at[d]] \in Calls /\ flight'[at[d]] = flight[at[d]]
    BY <1>1, <2>1, <2>2 DEF TypeOK, AtWork
  <2>. QED  BY <1>2, <1>3, <2>1, <2>2, <2>3
<1>. QED  BY <1>4, <1>5, <1>6

LEMMA OthersKeepFlights ==
    ASSUME OneFlight, FlightsTended, NoFollowerStranded, UNCHANGED <<pc, at, flight>>
    PROVE  OneFlight' /\ FlightsTended' /\ NoFollowerStranded'
  BY DEF OneFlight, FlightsTended, NoFollowerStranded

\* The entries stay sizes, and the recent ones known, when one of them changes.
LEMMA AccountType ==
    ASSUME TypeOK, NEW p \in Dirs, NEW s \in Nat, Account(p, s)
    PROVE  /\ entry' \in [Dirs -> Nat] /\ total' \in Int
           /\ \A q \in Dirs : entry'[q] = IF q = p THEN s ELSE entry[q]
<1>1. entry \in [Dirs -> Nat] /\ total \in Int
  BY DEF TypeOK
<1>2. entry' = [entry EXCEPT ![p] = s] /\ total' = total - entry[p] + s
  BY DEF Account
<1>3. entry[p] \in Int
  BY <1>1
<1>. QED  BY <1>1, <1>2, <1>3

-------------------------------------------------------------------------------
(* Get *)

LEMMA ReadRowInv ==
    ASSUME TypeOK, AtWork, Registered, OnlyRegisteredRuns,
           OneFlight, FlightsTended, NoFollowerStranded,
           NEW g \in Calls, NEW p \in Plugins, ReadRow(g, p)
    PROVE  IInv'
<1>1. TypeOK'
  BY NoneIsNothing DEF ReadRow, Goto, TypeOK, Tasks, TaskState, Leading, CallEnds, AdminState,
       Operations, stores, cache, callVars, adminVars
<1>2. AtWork'
  BY NoneIsNothing DEF ReadRow, Goto, AtWork, TypeOK, Tasks, stores, cache, callVars, adminVars
<1>3. Registered'
  BY NoneIsNothing DEF ReadRow, Goto, Registered, TypeOK, Tasks, stores, cache, callVars, adminVars
<1>4. OnlyRegisteredRuns'
  BY NoneIsNothing DEF ReadRow, Goto, OnlyRegisteredRuns, Known, OnDisk, TypeOK, Tasks, stores, cache,
       callVars, adminVars
<1>5. OneFlight' /\ FlightsTended' /\ NoFollowerStranded'
  <2>1. g \in Tasks /\ Goto(g, (IF row[p] = None THEN "failed" ELSE "stat")) /\ (IF row[p] = None THEN "failed" ELSE "stat") \in TaskState \ {"follow"}
    BY DEF ReadRow, Tasks, TaskState, Leading, CallEnds
  <2>. QED  BY <2>1, GotoKeepsFlights, NoneIsNothing DEF ReadRow, TaskState, Leading, CallEnds,
       TypeOK, Tasks
<1>. QED  BY <1>1, <1>2, <1>3, <1>4, <1>5 DEF IInv

LEMMA StatInv ==
    ASSUME TypeOK, AtWork, Registered, OnlyRegisteredRuns,
           OneFlight, FlightsTended, NoFollowerStranded,
           NEW g \in Calls, Stat(g) \/ Restat(g) \/ Verify(g)
    PROVE  IInv'
<1>1. TypeOK'
  BY NoneIsNothing DEF Stat, Restat, Verify, Goto, TypeOK, Tasks, TaskState, Leading, CallEnds,
       AdminState, Operations, stores, cache, callVars, adminVars
<1>2. AtWork'
  BY NoneIsNothing DEF Stat, Restat, Verify, Goto, AtWork, TypeOK, Tasks, stores, cache,
       callVars, adminVars
<1>3. Registered'
  BY NoneIsNothing DEF Stat, Restat, Verify, Goto, Registered, TypeOK, Tasks, stores, cache,
       callVars, adminVars
<1>4. OnlyRegisteredRuns'
  BY NoneIsNothing DEF Stat, Restat, Verify, Goto, OnlyRegisteredRuns, Known, OnDisk, TypeOK, Tasks,
       stores, cache, callVars, adminVars
<1>5. OneFlight' /\ FlightsTended' /\ NoFollowerStranded'
  <2>1. CASE Stat(g)
    BY <2>1, GotoKeepsFlights DEF Stat, Tasks, TaskState, Leading, callVars
  <2>2. CASE Restat(g)
    BY <2>2, GotoKeepsFlights DEF Restat, Tasks, TaskState, Leading, callVars
  <2>3. CASE Verify(g)
    BY <2>3, GotoKeepsFlights DEF Verify, Tasks, TaskState, Leading, callVars
  <2>. QED  BY <2>1, <2>2, <2>3
<1>. QED  BY <1>1, <1>2, <1>3, <1>4, <1>5 DEF IInv

LEMMA TouchInv ==
    ASSUME TypeOK, AtWork, Registered, OnlyRegisteredRuns,
           OneFlight, FlightsTended, NoFollowerStranded,
           NEW g \in Calls, Touch(g)
    PROVE  IInv'
<1>1. TypeOK'
  <2>1. recent' \subseteq {d \in Dirs : entry[d] > 0}
    BY DEF Touch, MarkUsed, AtWork, TypeOK
  <2>. QED  BY <2>1 DEF Touch, Goto, TypeOK, Tasks, TaskState, Leading, CallEnds, AdminState,
       Operations, stores, cache, callVars, adminVars
<1>2. AtWork'
  BY NoneIsNothing DEF Touch, Goto, AtWork, TypeOK, Tasks, stores, cache, callVars, adminVars
<1>3. Registered'
  BY NoneIsNothing DEF Touch, Goto, Registered, TypeOK, Tasks, stores, cache, callVars, adminVars
<1>4. OnlyRegisteredRuns'
  BY NoneIsNothing DEF Touch, Goto, OnlyRegisteredRuns, Known, OnDisk, TypeOK, Tasks, stores, cache,
       callVars, adminVars
<1>5. OneFlight' /\ FlightsTended' /\ NoFollowerStranded'
  BY GotoKeepsFlights DEF Touch, Tasks, TaskState, Leading, callVars
<1>. QED  BY <1>1, <1>2, <1>3, <1>4, <1>5 DEF IInv

LEMMA JoinInv ==
    ASSUME TypeOK, AtWork, Registered, OnlyRegisteredRuns,
           OneFlight, FlightsTended, NoFollowerStranded,
           NEW g \in Calls, Join(g)
    PROVE  IInv'
<1>1. TypeOK'
  BY NoneIsNothing DEF Join, Goto, AtWork, TypeOK, Tasks, TaskState, Leading, CallEnds, AdminState,
       Operations, stores, cache, callVars, adminVars
<1>2. AtWork'
  BY NoneIsNothing DEF Join, Goto, AtWork, TypeOK, Tasks, stores, cache, callVars, adminVars
<1>3. Registered'
  BY NoneIsNothing DEF Join, Goto, Registered, TypeOK, Tasks, stores, cache, callVars, adminVars
<1>4. OnlyRegisteredRuns'
  BY NoneIsNothing DEF Join, Goto, OnlyRegisteredRuns, Known, OnDisk, TypeOK, Tasks, stores, cache,
       callVars, adminVars
<1>5. OneFlight' /\ FlightsTended' /\ NoFollowerStranded'
  <2>1. at[g] \in Plugins /\ at' = at /\ pc[g] = "join"
    BY DEF Join, AtWork, callVars
  <2>2. CASE flight[at[g]] = None
    <3>1. /\ \A d \in Calls : pc'[d] = IF d = g THEN "restat" ELSE pc[d]
          /\ \A p \in Plugins : flight'[p] = IF p = at[g] THEN g ELSE flight[p]
      BY <2>2 DEF Join, Goto, TypeOK, Tasks
    <3>2. \A d \in Calls : pc[d] \in Leading \union {"follow"} => at[d] \in Plugins /\ at[d] # at[g]
      BY <2>2, NoneIsNothing DEF OneFlight, NoFollowerStranded, AtWork, Leading
    <3>3. "restat" \in Leading /\ "follow" \notin Leading /\ "join" \notin Leading
      BY DEF Leading
    <3>4. OneFlight'
      BY <2>1, <3>1, <3>2 DEF OneFlight
    <3>5. FlightsTended'
      BY <2>1, <3>1, <3>3 DEF FlightsTended, TypeOK
    <3>6. NoFollowerStranded'
      <4>1. ASSUME NEW d \in Calls, pc'[d] = "follow"
            PROVE  /\ flight[at[d]] \in Calls \ {g} /\ flight'[at[d]] = flight[at[d]]
                   /\ pc[flight[at[d]]] \in Leading /\ at[flight[at[d]]] = at[d]
        BY <2>1, <3>1, <3>2, <3>3, <4>1, NoneIsNothing DEF NoFollowerStranded, TypeOK
      <4>. QED  BY <2>1, <3>1, <4>1, NoneIsNothing DEF NoFollowerStranded
    <3>. QED  BY <3>4, <3>5, <3>6
  <2>3. CASE flight[at[g]] # None
    <3>1. /\ \A d \in Calls : pc'[d] = IF d = g THEN "follow" ELSE pc[d]
          /\ flight' = flight
      BY <2>3 DEF Join, Goto, TypeOK, Tasks
    <3>2. "follow" \notin Leading /\ "join" \notin Leading
      BY DEF Leading
    <3>3. OneFlight'
      BY <2>1, <3>1, <3>2 DEF OneFlight
    <3>4. FlightsTended'
      BY <2>1, <3>1, <3>2 DEF FlightsTended, TypeOK
    <3>5. NoFollowerStranded'
      <4>1. ASSUME NEW d \in Calls, pc'[d] = "follow"
            PROVE  /\ flight[at[d]] \in Calls \ {g} /\ flight[at[d]] # None
                   /\ pc[flight[at[d]]] \in Leading /\ at[flight[at[d]]] = at[d]
        BY <2>1, <2>3, <3>1, <3>2, <4>1 DEF NoFollowerStranded, FlightsTended, AtWork, TypeOK
      <4>. QED  BY <2>1, <3>1, <4>1 DEF NoFollowerStranded
    <3>. QED  BY <3>3, <3>4, <3>5
  <2>. QED  BY <2>2, <2>3
<1>. QED  BY <1>1, <1>2, <1>3, <1>4, <1>5 DEF IInv

LEMMA RetouchInv ==
    ASSUME TypeOK, AtWork, Registered, OnlyRegisteredRuns,
           OneFlight, FlightsTended, NoFollowerStranded,
           NEW g \in Calls, Retouch(g)
    PROVE  IInv'
<1>1. TypeOK'
  <2>1. recent' \subseteq {d \in Dirs : entry[d] > 0}
    BY DEF Retouch, MarkUsed, AtWork, TypeOK
  <2>. QED  BY <2>1 DEF Retouch, EndFlight, TypeOK, Tasks, TaskState, Leading, CallEnds,
       AdminState, Operations, stores, cache, callVars, adminVars
<1>2. AtWork'
  BY NoneIsNothing DEF Retouch, EndFlight, AtWork, TypeOK, Tasks, stores, cache, callVars, adminVars
<1>3. Registered'
  BY NoneIsNothing DEF Retouch, EndFlight, Registered, TypeOK, Tasks, stores, cache, callVars,
       adminVars
<1>4. OnlyRegisteredRuns'
  BY NoneIsNothing DEF Retouch, EndFlight, OnlyRegisteredRuns, Known, OnDisk, TypeOK, Tasks, stores,
       cache, callVars, adminVars
<1>5. OneFlight' /\ FlightsTended' /\ NoFollowerStranded'
  <2>1. EndFlight(g, "got") /\ pc[g] \in Leading /\ at' = at
    BY DEF Retouch, Leading, callVars
  <2>2. "got" \in TaskState \ ({"follow"} \union Leading)
    BY DEF TaskState, Leading, CallEnds
  <2>. QED  BY <2>1, <2>2, EndFlightKeepsFlights
<1>. QED  BY <1>1, <1>2, <1>3, <1>4, <1>5 DEF IInv

LEMMA DownloadInv ==
    ASSUME TypeOK, AtWork, Registered, OnlyRegisteredRuns,
           OneFlight, FlightsTended, NoFollowerStranded,
           NEW g \in Calls, Download(g)
    PROVE  IInv'
<1>1. TypeOK'
  BY NoneIsNothing DEF Download, Goto, AtWork, TypeOK, Tasks, TaskState, Leading, CallEnds,
       AdminState, Operations, stores, cache, callVars, adminVars
<1>2. AtWork'
  BY NoneIsNothing DEF Download, Goto, AtWork, TypeOK, Tasks, stores, cache, callVars, adminVars
<1>3. Registered'
  BY NoneIsNothing DEF Download, Goto, Registered, TypeOK, Tasks, stores, cache, callVars, adminVars
<1>4. OnlyRegisteredRuns'
  BY NoneIsNothing DEF Download, Goto, OnlyRegisteredRuns, Known, OnDisk, TypeOK, Tasks, stores,
       cache, callVars, adminVars
<1>5. OneFlight' /\ FlightsTended' /\ NoFollowerStranded'
  BY GotoKeepsFlights DEF Download, Tasks, TaskState, Leading
<1>. QED  BY <1>1, <1>2, <1>3, <1>4, <1>5 DEF IInv

LEMMA FlightFailsInv ==
    ASSUME TypeOK, AtWork, Registered, OnlyRegisteredRuns,
           OneFlight, FlightsTended, NoFollowerStranded,
           NEW g \in Calls, FlightFails(g)
    PROVE  IInv'
<1>1. TypeOK'
  BY NoneIsNothing DEF FlightFails, EndFlight, TypeOK, Tasks, TaskState, Leading, CallEnds,
       AdminState, Operations, stores, cache, callVars, adminVars
<1>2. AtWork'
  BY NoneIsNothing DEF FlightFails, EndFlight, AtWork, TypeOK, Tasks, stores, cache, callVars,
       adminVars
<1>3. Registered'
  BY NoneIsNothing DEF FlightFails, EndFlight, Registered, TypeOK, Tasks, stores, cache,
       callVars, adminVars
<1>4. OnlyRegisteredRuns'
  BY NoneIsNothing DEF FlightFails, EndFlight, OnlyRegisteredRuns, Known, OnDisk, TypeOK, Tasks,
       stores, cache, callVars, adminVars
<1>5. OneFlight' /\ FlightsTended' /\ NoFollowerStranded'
  <2>1. EndFlight(g, "failed") /\ pc[g] \in Leading /\ at' = at
    BY DEF FlightFails, Leading, callVars
  <2>2. "failed" \in TaskState \ ({"follow"} \union Leading)
    BY DEF TaskState, Leading, CallEnds
  <2>. QED  BY <2>1, <2>2, EndFlightKeepsFlights
<1>. QED  BY <1>1, <1>2, <1>3, <1>4, <1>5 DEF IInv

LEMMA ClearInv ==
    ASSUME TypeOK, AtWork, Registered, OnlyRegisteredRuns,
           OneFlight, FlightsTended, NoFollowerStranded,
           NEW g \in Calls, Clear(g)
    PROVE  IInv'
<1>1. TypeOK'
  BY NoneIsNothing DEF Clear, Goto, TypeOK, Tasks, TaskState, Leading, CallEnds, AdminState,
       Operations, stores, cache, callVars, adminVars
<1>2. AtWork'
  BY NoneIsNothing DEF Clear, Goto, AtWork, TypeOK, Tasks, stores, cache, callVars, adminVars
<1>3. Registered'
  BY NoneIsNothing DEF Clear, Goto, Registered, TypeOK, Tasks, stores, cache, callVars, adminVars
<1>4. OnlyRegisteredRuns'
  BY NoneIsNothing DEF Clear, Goto, OnlyRegisteredRuns, Known, OnDisk, TypeOK, Tasks, stores, cache,
       callVars, adminVars
<1>5. OneFlight' /\ FlightsTended' /\ NoFollowerStranded'
  BY GotoKeepsFlights DEF Clear, Tasks, TaskState, Leading, callVars
<1>. QED  BY <1>1, <1>2, <1>3, <1>4, <1>5 DEF IInv

LEMMA RenameInv ==
    ASSUME TypeOK, AtWork, Registered, OnlyRegisteredRuns,
           OneFlight, FlightsTended, NoFollowerStranded,
           NEW g \in Calls, Rename(g)
    PROVE  IInv'
<1>1. TypeOK'
  BY NoneIsNothing DEF Rename, Goto, TypeOK, Tasks, TaskState, Leading, CallEnds, AdminState,
       Operations, stores, cache, callVars, adminVars
<1>2. AtWork'
  BY NoneIsNothing DEF Rename, Goto, AtWork, TypeOK, Tasks, stores, cache, callVars, adminVars
<1>3. Registered'
  BY NoneIsNothing DEF Rename, Goto, Registered, TypeOK, Tasks, stores, cache, callVars, adminVars
<1>4. OnlyRegisteredRuns'
  <2>1. dir[g] \in Dirs /\ Known(content[g], dir[g])
    BY DEF Rename, AtWork, Registered, Known
  <2>2. \A d \in Dirs : disk'[d] = IF d = dir[g] THEN content[g] ELSE disk[d]
    BY DEF Rename, TypeOK
  <2>3. \A d \in Calls : pc'[d] = "ran" => pc[d] = "ran"
    BY DEF Rename, Goto, TypeOK, Tasks
  <2>. QED  BY <2>1, <2>2, <2>3 DEF Rename, OnlyRegisteredRuns, Known, OnDisk, stores, callVars
<1>5. OneFlight' /\ FlightsTended' /\ NoFollowerStranded'
  BY GotoKeepsFlights DEF Rename, Tasks, TaskState, Leading, callVars
<1>. QED  BY <1>1, <1>2, <1>3, <1>4, <1>5 DEF IInv

LEMMA MeasureInv ==
    ASSUME TypeOK, AtWork, Registered, OnlyRegisteredRuns,
           OneFlight, FlightsTended, NoFollowerStranded,
           NEW g \in Calls, Measure(g)
    PROVE  IInv'
<1>1. TypeOK'
  <2>1. content' \in [Tasks -> Contents \union {None}]
    BY DEF Measure, AtWork, TypeOK
  <2>2. flight' \in [Plugins -> Calls \union {None}] /\ pc' \in [Tasks -> TaskState]
    BY DEF Measure, Goto, EndFlight, TypeOK, TaskState, Leading
  <2>. QED  BY <2>1, <2>2 DEF Measure, TypeOK, stores, cache, adminVars
<1>2. AtWork'
  BY NoneIsNothing DEF Measure, Goto, EndFlight, AtWork, TypeOK, Tasks, stores, cache,
       callVars, adminVars
<1>3. Registered'
  BY NoneIsNothing DEF Measure, Goto, EndFlight, Registered, TypeOK, Tasks, stores, cache,
       callVars, adminVars
<1>4. OnlyRegisteredRuns'
  BY NoneIsNothing DEF Measure, Goto, EndFlight, OnlyRegisteredRuns, Known, OnDisk, TypeOK, Tasks,
       stores, cache, callVars, adminVars
<1>5. OneFlight' /\ FlightsTended' /\ NoFollowerStranded'
  <2>1. CASE disk[dir[g]] # None
    BY <2>1, GotoKeepsFlights DEF Measure, Tasks, TaskState, Leading
  <2>2. CASE disk[dir[g]] = None
    <3>1. EndFlight(g, "got") /\ pc[g] \in Leading /\ at' = at
      BY <2>2 DEF Measure, Leading
    <3>2. "got" \in TaskState \ ({"follow"} \union Leading)
      BY DEF TaskState, Leading
    <3>. QED  BY <3>1, <3>2, EndFlightKeepsFlights
  <2>. QED  BY <2>1, <2>2
<1>. QED  BY <1>1, <1>2, <1>3, <1>4, <1>5 DEF IInv

LEMMA AddInv ==
    ASSUME TypeOK, AtWork, Registered, OnlyRegisteredRuns,
           OneFlight, FlightsTended, NoFollowerStranded,
           NEW g \in Calls, Add(g)
    PROVE  IInv'
<1>1. TypeOK'
  <2>1. dir[g] \in Dirs /\ content[g] \in Nat /\ Account(dir[g], content[g])
    BY NoneIsNothing DEF Add, AtWork, Tasks
  <2>2. /\ entry' \in [Dirs -> Nat] /\ total' \in Int
        /\ \A q \in Dirs : entry'[q] = IF q = dir[g] THEN content[g] ELSE entry[q]
    BY <2>1, AccountType
  <2>3. recent' \subseteq {q \in Dirs : entry'[q] > 0}
    BY <2>1, <2>2, NoneIsNothing DEF Add, AtWork, TypeOK, Tasks
  <2>. QED  BY <2>2, <2>3 DEF Add, Goto, TypeOK, Tasks, TaskState, Leading, CallEnds,
       AdminState, Operations, stores, callVars, adminVars
<1>2. AtWork'
  BY NoneIsNothing DEF Add, Goto, AtWork, TypeOK, Tasks, stores, cache, callVars, adminVars
<1>3. Registered'
  BY NoneIsNothing DEF Add, Goto, Registered, TypeOK, Tasks, stores, cache, callVars, adminVars
<1>4. OnlyRegisteredRuns'
  BY NoneIsNothing DEF Add, Goto, OnlyRegisteredRuns, Known, OnDisk, TypeOK, Tasks, stores, cache,
       callVars, adminVars
<1>5. OneFlight' /\ FlightsTended' /\ NoFollowerStranded'
  BY GotoKeepsFlights DEF Add, Tasks, TaskState, Leading, callVars
<1>. QED  BY <1>1, <1>2, <1>3, <1>4, <1>5 DEF IInv

LEMMA ExecuteInv ==
    ASSUME TypeOK, AtWork, Registered, OnlyRegisteredRuns,
           OneFlight, FlightsTended, NoFollowerStranded,
           NEW g \in Calls, Execute(g)
    PROVE  IInv'
<1>1. TypeOK'
  BY NoneIsNothing DEF Execute, Goto, AtWork, TypeOK, Tasks, TaskState, Leading, CallEnds,
       AdminState, Operations, stores, cache, callVars, adminVars
<1>2. AtWork'
  BY NoneIsNothing DEF Execute, Goto, AtWork, TypeOK, Tasks, stores, cache, callVars, adminVars
<1>3. Registered'
  BY NoneIsNothing DEF Execute, Goto, Registered, TypeOK, Tasks, stores, cache, callVars, adminVars
<1>4. OnlyRegisteredRuns'
  <2>1. dir[g] \in Dirs
    BY DEF Execute, AtWork
  <2>2. \A d \in Calls : pc'[d] = "ran" /\ d # g => pc[d] = "ran" /\ content'[d] = content[d]
    BY DEF Execute, Goto, TypeOK, Tasks
  <2>3. pc'[g] = "ran" => Known(content'[g], dir[g])
    BY <2>1 DEF Execute, Goto, OnlyRegisteredRuns, OnDisk, TypeOK, Tasks
  <2>. QED  BY <2>2, <2>3 DEF Execute, OnlyRegisteredRuns, Known, OnDisk, stores
<1>5. OneFlight' /\ FlightsTended' /\ NoFollowerStranded'
  <2>1. g \in Tasks /\ Goto(g, (IF disk[dir[g]] = None THEN "missing" ELSE "ran")) /\ (IF disk[dir[g]] = None THEN "missing" ELSE "ran") \in TaskState \ {"follow"}
    BY DEF Execute, Tasks, TaskState, Leading, CallEnds
  <2>. QED  BY <2>1, GotoKeepsFlights, NoneIsNothing DEF Execute, TaskState, Leading, CallEnds
<1>. QED  BY <1>1, <1>2, <1>3, <1>4, <1>5 DEF IInv

-------------------------------------------------------------------------------
(* evict, warm *)

LEMMA NextVictimInv ==
    ASSUME TypeOK, AtWork, Registered, OnlyRegisteredRuns,
           OneFlight, FlightsTended, NoFollowerStranded,
           NEW t \in Tasks, NextVictim(t)
    PROVE  IInv'
<1>1. TypeOK'
  BY NoneIsNothing DEF NextVictim, Goto, TypeOK, Tasks, TaskState, Leading, CallEnds,
       AdminState, Operations, stores, cache, callVars, adminVars
<1>2. AtWork'
  BY NoneIsNothing DEF NextVictim, Goto, AtWork, TypeOK, Tasks, stores, cache, callVars, adminVars
<1>3. Registered'
  BY NoneIsNothing DEF NextVictim, Goto, Registered, TypeOK, Tasks, stores, cache, callVars,
       adminVars
<1>4. OnlyRegisteredRuns'
  BY NoneIsNothing DEF NextVictim, Goto, OnlyRegisteredRuns, Known, OnDisk, TypeOK, Tasks, stores,
       cache, callVars, adminVars
<1>5. OneFlight' /\ FlightsTended' /\ NoFollowerStranded'
  BY GotoKeepsFlights DEF NextVictim, TaskState, Leading
<1>. QED  BY <1>1, <1>2, <1>3, <1>4, <1>5 DEF IInv

LEMMA EvictionEndsInv ==
    ASSUME TypeOK, AtWork, Registered, OnlyRegisteredRuns,
           OneFlight, FlightsTended, NoFollowerStranded,
           NEW t \in Tasks, EvictionEnds(t)
    PROVE  IInv'
<1>1. TypeOK'
  BY NoneIsNothing DEF EvictionEnds, EndFlight, Goto, TypeOK, Tasks, TaskState, Leading,
       CallEnds, AdminState, Operations, stores, cache, callVars, adminVars
<1>2. AtWork'
  BY NoneIsNothing DEF EvictionEnds, EndFlight, Goto, AtWork, TypeOK, Tasks, stores, cache,
       callVars, adminVars
<1>3. Registered'
  BY NoneIsNothing DEF EvictionEnds, EndFlight, Goto, Registered, TypeOK, Tasks, stores, cache,
       callVars, adminVars
<1>4. OnlyRegisteredRuns'
  BY NoneIsNothing DEF EvictionEnds, EndFlight, Goto, OnlyRegisteredRuns, Known, OnDisk, TypeOK,
       Tasks, stores, cache, callVars, adminVars
<1>5. OneFlight' /\ FlightsTended' /\ NoFollowerStranded'
  <2>1. CASE t = Warm
    BY <2>1, NoneIsNothing, GotoKeepsFlights DEF EvictionEnds, TaskState, callVars
  <2>2. CASE t # Warm
    <3>1. t \in Calls /\ EndFlight(t, "got") /\ pc[t] \in Leading /\ at' = at
      BY <2>2 DEF EvictionEnds, Tasks, Leading, callVars
    <3>2. "got" \in TaskState \ ({"follow"} \union Leading)
      BY DEF TaskState, Leading
    <3>. QED  BY <3>1, <3>2, EndFlightKeepsFlights
  <2>. QED  BY <2>1, <2>2
<1>. QED  BY <1>1, <1>2, <1>3, <1>4, <1>5 DEF IInv

LEMMA RemoveInv ==
    ASSUME TypeOK, AtWork, Registered, OnlyRegisteredRuns,
           OneFlight, FlightsTended, NoFollowerStranded,
           NEW t \in Tasks, Remove(t)
    PROVE  IInv'
<1>1. TypeOK'
  BY NoneIsNothing DEF Remove, RemoveAll, Goto, TypeOK, Tasks, TaskState, Leading, CallEnds,
       AdminState, Operations, stores, cache, callVars, adminVars
<1>2. AtWork'
  BY NoneIsNothing DEF Remove, RemoveAll, Goto, AtWork, TypeOK, Tasks, stores, cache, callVars,
       adminVars
<1>3. Registered'
  BY NoneIsNothing DEF Remove, RemoveAll, Goto, Registered, TypeOK, Tasks, stores, cache,
       callVars, adminVars
<1>4. OnlyRegisteredRuns'
  BY NoneIsNothing DEF Remove, RemoveAll, Goto, OnlyRegisteredRuns, Known, OnDisk, TypeOK, Tasks,
       stores, cache, callVars, adminVars
<1>5. OneFlight' /\ FlightsTended' /\ NoFollowerStranded'
  BY GotoKeepsFlights DEF Remove, TaskState, Leading, callVars
<1>. QED  BY <1>1, <1>2, <1>3, <1>4, <1>5 DEF IInv

LEMMA ForgetInv ==
    ASSUME TypeOK, AtWork, Registered, OnlyRegisteredRuns,
           OneFlight, FlightsTended, NoFollowerStranded,
           NEW t \in Tasks, Forget(t)
    PROVE  IInv'
<1>1. TypeOK'
  <2>1. victim[t] \in Dirs /\ 0 \in Nat /\ Account(victim[t], 0)
    BY NoneIsNothing DEF Forget, AtWork
  <2>2. /\ entry' \in [Dirs -> Nat] /\ total' \in Int
        /\ \A q \in Dirs : entry'[q] = IF q = victim[t] THEN 0 ELSE entry[q]
    BY <2>1, AccountType
  <2>3. recent' \subseteq {q \in Dirs : entry'[q] > 0}
    BY <2>1, <2>2, NoneIsNothing DEF Forget, AtWork, TypeOK
  <2>. QED  BY <2>2, <2>3 DEF Forget, Goto, TypeOK, Tasks, TaskState, Leading, CallEnds,
       AdminState, Operations, stores, adminVars
<1>2. AtWork'
  BY NoneIsNothing DEF Forget, Goto, AtWork, TypeOK, Tasks, stores, cache, callVars, adminVars
<1>3. Registered'
  BY NoneIsNothing DEF Forget, Goto, Registered, TypeOK, Tasks, stores, cache, callVars, adminVars
<1>4. OnlyRegisteredRuns'
  BY NoneIsNothing DEF Forget, Goto, OnlyRegisteredRuns, Known, OnDisk, TypeOK, Tasks, stores, cache,
       callVars, adminVars
<1>5. OneFlight' /\ FlightsTended' /\ NoFollowerStranded'
  BY GotoKeepsFlights DEF Forget, TaskState, Leading
<1>. QED  BY <1>1, <1>2, <1>3, <1>4, <1>5 DEF IInv

LEMMA AgeInv ==
    ASSUME TypeOK, AtWork, Registered, OnlyRegisteredRuns,
           OneFlight, FlightsTended, NoFollowerStranded,
           NEW p \in Dirs, Age(p)
    PROVE  IInv'
<1>1. TypeOK'
  BY NoneIsNothing DEF Age, TypeOK, Tasks, TaskState, Leading, CallEnds, AdminState,
       Operations, stores, cache, callVars, adminVars
<1>2. AtWork'
  BY NoneIsNothing DEF Age, AtWork, TypeOK, Tasks, stores, cache, callVars, adminVars
<1>3. Registered'
  BY NoneIsNothing DEF Age, Registered, TypeOK, Tasks, stores, cache, callVars, adminVars
<1>4. OnlyRegisteredRuns'
  BY NoneIsNothing DEF Age, OnlyRegisteredRuns, Known, OnDisk, TypeOK, Tasks, stores, cache, callVars,
       adminVars
<1>5. OneFlight' /\ FlightsTended' /\ NoFollowerStranded'
  BY OthersKeepFlights DEF Age, callVars
<1>. QED  BY <1>1, <1>2, <1>3, <1>4, <1>5 DEF IInv

LEMMA WarmMeasureInv ==
    ASSUME TypeOK, AtWork, Registered, OnlyRegisteredRuns,
           OneFlight, FlightsTended, NoFollowerStranded,
           NEW p \in Dirs, WarmMeasure(p)
    PROVE  IInv'
<1>1. TypeOK'
  BY NoneIsNothing DEF WarmMeasure, Goto, TypeOK, Tasks, TaskState, Leading, CallEnds,
       AdminState, Operations, stores, cache, callVars, adminVars
<1>2. AtWork'
  BY NoneIsNothing DEF WarmMeasure, Goto, AtWork, TypeOK, Tasks, stores, cache, callVars, adminVars
<1>3. Registered'
  BY NoneIsNothing DEF WarmMeasure, Goto, Registered, TypeOK, Tasks, stores, cache, callVars,
       adminVars
<1>4. OnlyRegisteredRuns'
  BY NoneIsNothing DEF WarmMeasure, Goto, OnlyRegisteredRuns, Known, OnDisk, TypeOK, Tasks, stores,
       cache, callVars, adminVars
<1>5. OneFlight' /\ FlightsTended' /\ NoFollowerStranded'
  <2>1. CASE disk[p] # None
    BY <2>1, NoneIsNothing, GotoKeepsFlights DEF WarmMeasure, Tasks, TaskState, Leading, TypeOK
  <2>2. CASE disk[p] = None
    BY <2>2, OthersKeepFlights DEF WarmMeasure
  <2>. QED  BY <2>1, <2>2
<1>. QED  BY <1>1, <1>2, <1>3, <1>4, <1>5 DEF IInv

LEMMA WarmAddInv ==
    ASSUME TypeOK, AtWork, Registered, OnlyRegisteredRuns,
           OneFlight, FlightsTended, NoFollowerStranded,
           WarmAdd
    PROVE  IInv'
<1>1. TypeOK'
  <2>1. /\ entry' \in [Dirs -> Nat] /\ total' \in Int
        /\ recent' \subseteq {q \in Dirs : entry'[q] > 0}
    <3>1. dir[Warm] \in Dirs /\ content[Warm] \in Nat \ {0} /\ recent' = recent
      BY NoneIsNothing DEF WarmAdd, AtWork, Tasks
    <3>2. CASE entry[dir[Warm]] = 0
      <4>1. Account(dir[Warm], content[Warm])
        BY <3>2 DEF WarmAdd
      <4>2. /\ entry' \in [Dirs -> Nat] /\ total' \in Int
            /\ \A q \in Dirs : entry'[q] = IF q = dir[Warm] THEN content[Warm] ELSE entry[q]
        BY <3>1, <4>1, AccountType
      <4>. QED  BY <3>1, <4>2 DEF TypeOK
    <3>3. CASE entry[dir[Warm]] > 0
      BY <3>1, <3>3 DEF WarmAdd, TypeOK
    <3>. QED  BY <3>2, <3>3 DEF WarmAdd
  <2>. QED  BY <2>1 DEF WarmAdd, Goto, TypeOK, Tasks, TaskState, Leading, CallEnds, AdminState,
       Operations, stores, callVars, adminVars
<1>2. AtWork'
  BY NoneIsNothing DEF WarmAdd, Goto, AtWork, TypeOK, Tasks, stores, cache, callVars, adminVars
<1>3. Registered'
  BY NoneIsNothing DEF WarmAdd, Goto, Registered, TypeOK, Tasks, stores, cache, callVars, adminVars
<1>4. OnlyRegisteredRuns'
  BY NoneIsNothing DEF WarmAdd, Goto, OnlyRegisteredRuns, Known, OnDisk, TypeOK, Tasks, stores, cache,
       callVars, adminVars
<1>5. OneFlight' /\ FlightsTended' /\ NoFollowerStranded'
  BY GotoKeepsFlights, NoneIsNothing DEF WarmAdd, Tasks, TaskState, callVars
<1>. QED  BY <1>1, <1>2, <1>3, <1>4, <1>5 DEF IInv

LEMMA WarmEvictInv ==
    ASSUME TypeOK, AtWork, Registered, OnlyRegisteredRuns,
           OneFlight, FlightsTended, NoFollowerStranded,
           WarmEvict
    PROVE  IInv'
<1>1. TypeOK'
  BY NoneIsNothing DEF WarmEvict, Goto, TypeOK, Tasks, TaskState, Leading, CallEnds,
       AdminState, Operations, stores, cache, callVars, adminVars
<1>2. AtWork'
  BY NoneIsNothing DEF WarmEvict, Goto, AtWork, TypeOK, Tasks, stores, cache, callVars, adminVars
<1>3. Registered'
  BY NoneIsNothing DEF WarmEvict, Goto, Registered, TypeOK, Tasks, stores, cache, callVars,
       adminVars
<1>4. OnlyRegisteredRuns'
  BY NoneIsNothing DEF WarmEvict, Goto, OnlyRegisteredRuns, Known, OnDisk, TypeOK, Tasks, stores,
       cache, callVars, adminVars
<1>5. OneFlight' /\ FlightsTended' /\ NoFollowerStranded'
  BY GotoKeepsFlights, NoneIsNothing DEF WarmEvict, Tasks, TaskState, Leading, callVars
<1>. QED  BY <1>1, <1>2, <1>3, <1>4, <1>5 DEF IInv

-------------------------------------------------------------------------------
(* Create, Update, Delete and push; crashes *)

LEMMA AdminBeginsInv ==
    ASSUME TypeOK, AtWork, Registered, OnlyRegisteredRuns,
           OneFlight, FlightsTended, NoFollowerStranded,
           NEW a \in Admins, AdminBegins(a)
    PROVE  IInv'
<1>1. TypeOK'
  BY NoneIsNothing DEF AdminBegins, BeginWrite, BeginPush, DeleteRow, Begin, Writing,
       AdminGoto, TypeOK, Tasks, TaskState, Leading, CallEnds, AdminState, Operations, stores,
       cache, callVars, adminVars
<1>2. AtWork'
  BY NoneIsNothing DEF AdminBegins, BeginWrite, BeginPush, DeleteRow, Begin,
       AdminGoto, AtWork, TypeOK, Tasks, stores, cache, callVars, adminVars
<1>3. Registered'
  BY NoneIsNothing DEF AdminBegins, BeginWrite, BeginPush, DeleteRow, Begin,
       AdminGoto, Registered, TypeOK, Tasks, stores, cache, callVars, adminVars
<1>4. OnlyRegisteredRuns'
  BY NoneIsNothing DEF AdminBegins, BeginWrite, BeginPush, DeleteRow, Begin,
       AdminGoto, OnlyRegisteredRuns, Known, OnDisk, TypeOK, Tasks, stores, cache, callVars, adminVars
<1>5. OneFlight' /\ FlightsTended' /\ NoFollowerStranded'
  BY OthersKeepFlights DEF AdminBegins, BeginWrite, BeginPush, DeleteRow, callVars
<1>. QED  BY <1>1, <1>2, <1>3, <1>4, <1>5 DEF IInv

LEMMA HashArchiveInv ==
    ASSUME TypeOK, AtWork, Registered, OnlyRegisteredRuns,
           OneFlight, FlightsTended, NoFollowerStranded,
           NEW a \in Admins, HashArchive(a)
    PROVE  IInv'
<1>1. TypeOK'
  BY NoneIsNothing DEF HashArchive, AdminGoto, AtWork, TypeOK, Tasks, TaskState, Leading,
       CallEnds, AdminState, Operations, stores, cache, callVars, adminVars
<1>2. AtWork'
  BY NoneIsNothing DEF HashArchive, AdminGoto, AtWork, TypeOK, Tasks, stores, cache, callVars,
       adminVars
<1>3. Registered'
  BY NoneIsNothing DEF HashArchive, AdminGoto, Registered, TypeOK, Tasks, stores, cache,
       callVars, adminVars
<1>4. OnlyRegisteredRuns'
  BY NoneIsNothing DEF HashArchive, AdminGoto, OnlyRegisteredRuns, Known, OnDisk, TypeOK, Tasks,
       stores, cache, callVars, adminVars
<1>5. OneFlight' /\ FlightsTended' /\ NoFollowerStranded'
  BY OthersKeepFlights DEF HashArchive, callVars
<1>. QED  BY <1>1, <1>2, <1>3, <1>4, <1>5 DEF IInv

LEMMA WriteRowInv ==
    ASSUME TypeOK, AtWork, Registered, OnlyRegisteredRuns,
           OneFlight, FlightsTended, NoFollowerStranded,
           NEW a \in Admins, WriteRow(a)
    PROVE  IInv'
<1>1. TypeOK'
  BY NoneIsNothing DEF WriteRow, AdminGoto, AtWork, TypeOK, Tasks, TaskState, Leading,
       CallEnds, AdminState, Operations, stores, cache, callVars, adminVars
<1>2. AtWork'
  BY NoneIsNothing DEF WriteRow, AdminGoto, AtWork, TypeOK, Tasks, stores, cache, callVars,
       adminVars
<1>3. Registered'
  <2>1. on[a] \in Plugins /\ to[a] \in Dirs
    BY DEF WriteRow, AtWork
  <2>2. /\ \A p \in Plugins : /\ row'[p] = IF p = on[a] THEN hash[a] ELSE row[p]
                              /\ home'[p] = IF p = on[a] THEN to[a] ELSE home[p]
        /\ \A d \in Dirs : recorded[d] \subseteq recorded'[d]
        /\ hash[a] \in recorded'[to[a]]
    BY <2>1 DEF WriteRow, TypeOK
  <2>3. \A p \in Plugins : row'[p] # None => row'[p] \in recorded'[home'[p]]
    BY <2>2 DEF Registered, TypeOK
  <2>4. UNCHANGED <<pc, expected, dir, content>>
    BY DEF WriteRow, callVars
  <2>5. \A g \in Calls : pc[g] # "new" => dir[g] \in Dirs
    BY DEF AtWork
  <2>. QED  BY <2>2, <2>3, <2>4, <2>5 DEF Registered
<1>4. OnlyRegisteredRuns'
  BY NoneIsNothing DEF WriteRow, AdminGoto, OnlyRegisteredRuns, Known, OnDisk, TypeOK, Tasks, stores,
       cache, callVars, adminVars
<1>5. OneFlight' /\ FlightsTended' /\ NoFollowerStranded'
  BY OthersKeepFlights DEF WriteRow, callVars
<1>. QED  BY <1>1, <1>2, <1>3, <1>4, <1>5 DEF IInv

LEMMA UploadInv ==
    ASSUME TypeOK, AtWork, Registered, OnlyRegisteredRuns,
           OneFlight, FlightsTended, NoFollowerStranded,
           NEW a \in Admins, AdminFails(a) \/ Upload(a)
    PROVE  IInv'
<1>1. TypeOK'
  BY NoneIsNothing DEF AdminFails, Upload, AdminGoto, TypeOK, Tasks, TaskState, Leading,
       CallEnds, AdminState, Operations, stores, cache, callVars, adminVars
<1>2. AtWork'
  BY NoneIsNothing DEF AdminFails, Upload, AdminGoto, AtWork, TypeOK, Tasks, stores, cache,
       callVars, adminVars
<1>3. Registered'
  BY NoneIsNothing DEF AdminFails, Upload, AdminGoto, Registered, TypeOK, Tasks, stores, cache,
       callVars, adminVars
<1>4. OnlyRegisteredRuns'
  BY NoneIsNothing DEF AdminFails, Upload, AdminGoto, OnlyRegisteredRuns, Known, OnDisk, TypeOK,
       Tasks, stores, cache, callVars, adminVars
<1>5. OneFlight' /\ FlightsTended' /\ NoFollowerStranded'
  BY OthersKeepFlights DEF AdminFails, Upload, callVars
<1>. QED  BY <1>1, <1>2, <1>3, <1>4, <1>5 DEF IInv

LEMMA CleanupInv ==
    ASSUME TypeOK, AtWork, Registered, OnlyRegisteredRuns,
           OneFlight, FlightsTended, NoFollowerStranded,
           NEW a \in Admins, DeleteArchive(a) \/ DeleteDirectory(a)
    PROVE  IInv'
<1>1. TypeOK'
  BY NoneIsNothing DEF DeleteArchive, DeleteDirectory, RemoveAll, AdminGoto, TypeOK, Tasks,
       TaskState, Leading, CallEnds, AdminState, Operations, stores, cache, callVars, adminVars
<1>2. AtWork'
  BY NoneIsNothing DEF DeleteArchive, DeleteDirectory, RemoveAll, AdminGoto, AtWork, TypeOK,
       Tasks, stores, cache, callVars, adminVars
<1>3. Registered'
  BY NoneIsNothing DEF DeleteArchive, DeleteDirectory, RemoveAll, AdminGoto, Registered,
       TypeOK, Tasks, stores, cache, callVars, adminVars
<1>4. OnlyRegisteredRuns'
  BY NoneIsNothing DEF DeleteArchive, DeleteDirectory, RemoveAll, AdminGoto,
       OnlyRegisteredRuns, Known, OnDisk, TypeOK, Tasks, stores, cache, callVars, adminVars
<1>5. OneFlight' /\ FlightsTended' /\ NoFollowerStranded'
  BY OthersKeepFlights DEF DeleteArchive, DeleteDirectory, callVars
<1>. QED  BY <1>1, <1>2, <1>3, <1>4, <1>5 DEF IInv

LEMMA ForgetDeletedInv ==
    ASSUME TypeOK, AtWork, Registered, OnlyRegisteredRuns,
           OneFlight, FlightsTended, NoFollowerStranded,
           NEW a \in Admins, ForgetDeleted(a)
    PROVE  IInv'
<1>1. TypeOK'
  <2>1. on[a] \in Dirs /\ 0 \in Nat /\ Account(on[a], 0)
    BY NoneIsNothing DEF ForgetDeleted, AtWork
  <2>2. /\ entry' \in [Dirs -> Nat] /\ total' \in Int
        /\ \A q \in Dirs : entry'[q] = IF q = on[a] THEN 0 ELSE entry[q]
    BY <2>1, AccountType
  <2>3. recent' \subseteq {q \in Dirs : entry'[q] > 0}
    BY <2>1, <2>2, NoneIsNothing DEF ForgetDeleted, AtWork, TypeOK
  <2>. QED  BY <2>2, <2>3 DEF ForgetDeleted, AdminGoto, TypeOK, Tasks, TaskState, Leading,
       CallEnds, AdminState, Operations, stores, callVars
<1>2. AtWork'
  BY NoneIsNothing DEF ForgetDeleted, AdminGoto, AtWork, TypeOK, Tasks, stores, cache,
       callVars, adminVars
<1>3. Registered'
  BY NoneIsNothing DEF ForgetDeleted, AdminGoto, Registered, TypeOK, Tasks, stores, cache,
       callVars, adminVars
<1>4. OnlyRegisteredRuns'
  BY NoneIsNothing DEF ForgetDeleted, AdminGoto, OnlyRegisteredRuns, Known, OnDisk, TypeOK, Tasks,
       stores, cache, callVars, adminVars
<1>5. OneFlight' /\ FlightsTended' /\ NoFollowerStranded'
  BY OthersKeepFlights DEF ForgetDeleted, callVars
<1>. QED  BY <1>1, <1>2, <1>3, <1>4, <1>5 DEF IInv

LEMMA RestartInv ==
    ASSUME TypeOK, AtWork, Registered, OnlyRegisteredRuns,
           OneFlight, FlightsTended, NoFollowerStranded,
           Restart
    PROVE  IInv'
<1>1. TypeOK'
  <2>1. pc' \in [Tasks -> TaskState]
    <3>1. {"scan", "failed"} \subseteq TaskState
      BY DEF TaskState, CallEnds
    <3>. QED  BY <3>1 DEF Restart, TypeOK
  <2>4. apc' \in [Admins -> AdminState]
    BY DEF Restart, TypeOK, AdminState
  <2>2. /\ entry' \in [Dirs -> Nat] /\ recent' = {} /\ total' \in Int
        /\ flight' \in [Plugins -> Calls \union {None}]
    BY DEF Restart
  <2>3. scan' \subseteq Dirs /\ restarts' \in 0..MaxRestarts
    BY PluginStoreAssumption DEF Restart, OnDisk, TypeOK
  <2>. QED  BY <2>1, <2>2, <2>3, <2>4 DEF Restart, TypeOK, stores, callVars
<1>2. AtWork'
  BY NoneIsNothing DEF Restart, OnDisk, AtWork, TypeOK, Tasks, stores, cache, callVars, adminVars
<1>3. Registered'
  BY NoneIsNothing DEF Restart, OnDisk, Registered, TypeOK, Tasks, stores, cache, callVars,
       adminVars
<1>4. OnlyRegisteredRuns'
  BY NoneIsNothing DEF Restart, OnDisk, OnlyRegisteredRuns, Known, OnDisk, TypeOK, Tasks, stores,
       cache, callVars, adminVars
<1>5. OneFlight' /\ FlightsTended' /\ NoFollowerStranded'
  <2>1. \A g \in Calls : pc'[g] \in {"new", "failed"} \union CallEnds
    BY NoneIsNothing DEF Restart, Tasks
  <2>2. \A p \in Plugins : flight'[p] = None
    BY DEF Restart
  <2>. QED  BY <2>1, <2>2 DEF OneFlight, FlightsTended, NoFollowerStranded, Leading, CallEnds
<1>. QED  BY <1>1, <1>2, <1>3, <1>4, <1>5 DEF IInv

LEMMA StutterInv ==
    ASSUME TypeOK, AtWork, Registered, OnlyRegisteredRuns,
           OneFlight, FlightsTended, NoFollowerStranded,
           UNCHANGED vars
    PROVE  IInv'
<1>1. TypeOK'
  BY NoneIsNothing DEF vars, TypeOK, Tasks, TaskState, Leading, CallEnds, AdminState,
       Operations, stores, cache, callVars, adminVars
<1>2. AtWork'
  BY NoneIsNothing DEF vars, AtWork, TypeOK, Tasks, stores, cache, callVars, adminVars
<1>3. Registered'
  BY NoneIsNothing DEF vars, Registered, TypeOK, Tasks, stores, cache, callVars, adminVars
<1>4. OnlyRegisteredRuns'
  BY NoneIsNothing DEF vars, OnlyRegisteredRuns, Known, OnDisk, TypeOK, Tasks, stores, cache,
       callVars, adminVars
<1>5. OneFlight' /\ FlightsTended' /\ NoFollowerStranded'
  BY OthersKeepFlights DEF vars, callVars
<1>. QED  BY <1>1, <1>2, <1>3, <1>4, <1>5 DEF IInv

LEMMA NextInv == IInv /\ [Next]_vars => IInv'
<1>. SUFFICES ASSUME IInv, [Next]_vars PROVE IInv'
  OBVIOUS
<1>1. /\ TypeOK /\ AtWork /\ Registered /\ OnlyRegisteredRuns
      /\ OneFlight /\ FlightsTended /\ NoFollowerStranded
  BY DEF IInv
<1>2. ASSUME NEW t \in Tasks, EvictStep(t) PROVE IInv'
  BY <1>1, <1>2, NextVictimInv, EvictionEndsInv, RemoveInv, ForgetInv DEF EvictStep
<1>3. ASSUME NEW g \in Calls, CallStep(g) PROVE IInv'
  <2>1. CASE EvictStep(g)
    BY <1>2, <2>1 DEF Tasks
  <2>2. CASE Stat(g) \/ Touch(g) \/ Join(g) \/ Restat(g) \/ Retouch(g) \/ Verify(g)
    BY <1>1, <2>2, StatInv, TouchInv, JoinInv, RetouchInv
  <2>3. CASE Download(g) \/ FlightFails(g) \/ Clear(g) \/ Rename(g) \/ Measure(g) \/ Add(g) \/ Execute(g)
    BY <1>1, <2>3, DownloadInv, FlightFailsInv, ClearInv, RenameInv, MeasureInv, AddInv, ExecuteInv
  <2>. QED  BY <1>3, <2>1, <2>2, <2>3 DEF CallStep
<1>4. ASSUME NEW g \in Calls, NEW p \in Plugins, ReadRow(g, p) PROVE IInv'
  BY <1>1, <1>4, ReadRowInv
<1>5. CASE WarmStep
  <2>1. CASE EvictStep(Warm)
    BY <1>2, <2>1 DEF Tasks
  <2>. QED  BY <1>1, <1>5, <2>1, WarmMeasureInv, WarmAddInv, WarmEvictInv DEF WarmStep
<1>6. ASSUME NEW p \in Dirs, Age(p) PROVE IInv'
  BY <1>1, <1>6, AgeInv
<1>7. ASSUME NEW a \in Admins, AdminBegins(a) \/ AdminStep(a) PROVE IInv'
  BY <1>1, <1>7, AdminBeginsInv, HashArchiveInv, WriteRowInv, UploadInv, CleanupInv, ForgetDeletedInv DEF
       AdminStep
<1>8. CASE Restart
  BY <1>1, <1>8, RestartInv
<1>9. CASE UNCHANGED vars
  BY <1>1, <1>9, StutterInv
<1>. QED  BY <1>3, <1>4, <1>5, <1>6, <1>7, <1>8, <1>9 DEF Next, Stopped

-------------------------------------------------------------------------------
(* The theorems *)

\* The invariant holds in every reachable state.
THEOREM Invariance == Spec => []IInv
<1>. QED  BY InitInv, NextInv, PTL DEF Spec

\* Every variable keeps its type; in particular only a plugin the cache accounts
\* for is recent.
THEOREM TypeCorrect == Spec => []TypeOK
<1>1. IInv => TypeOK
  BY DEF IInv
<1>. QED  BY <1>1, Invariance, PTL

\* fetchAndUnpack and Generate: whatever is replaced, registered or deleted while a
\* plugin is downloaded, nothing reaches a directory or is executed there that was never
\* registered with a command in it, unless a row without a checksum was.
THEOREM NothingForeignRuns == Spec => []OnlyRegisteredRuns
<1>1. IInv => OnlyRegisteredRuns
  BY DEF IInv
<1>. QED  BY <1>1, Invariance, PTL

\* ensureBinary: no two calls unpack the same plugin at once.
THEOREM OneUnpacksAtATime == Spec => []OneFlight
<1>1. IInv => OneFlight
  BY DEF IInv
<1>. QED  BY <1>1, Invariance, PTL

\* ensureBinary: a call that waits for another's download waits on one that is
\* under way.
THEOREM FollowersAreTended == Spec => []NoFollowerStranded
<1>1. IInv => NoFollowerStranded
  BY DEF IInv
<1>. QED  BY <1>1, Invariance, PTL

-------------------------------------------------------------------------------
(* The size of the cache *)

SizeKept == IsFiniteSet(Accounted) /\ TotalExact

LEMMA Bytes ==
    /\ \A x : x \in Accounted <=> \E p \in Dirs : x \in {p} \X (1..entry[p])
    /\ \A x : x \in Accounted' <=> \E p \in Dirs : x \in {p} \X (1..entry'[p])
  BY DEF Accounted

\* As many bytes as the size of the directory.
LEMMA CountBytes ==
    ASSUME NEW p, NEW n \in Nat
    PROVE  IsFiniteSet({p} \X (1..n)) /\ Cardinality({p} \X (1..n)) = n
<1>1. IsFiniteSet({p}) /\ Cardinality({p}) = 1
  BY FS_Singleton
<1>2. IsFiniteSet(1..n) /\ Cardinality(1..n) = IF 1 > n THEN 0 ELSE n - 1 + 1
  BY FS_Interval
<1>3. Cardinality(1..n) = n
  BY <1>2
<1>4. /\ IsFiniteSet({p} \X (1..n))
      /\ Cardinality({p} \X (1..n)) = Cardinality({p}) * Cardinality(1..n)
  BY <1>1, <1>2, FS_Product
<1>. QED  BY <1>1, <1>3, <1>4

\* A directory is accounted for anew: what it had goes, what it has comes, and no
\* byte of another is touched.
LEMMA AccountKeepsSize ==
    ASSUME TypeOK, SizeKept, NEW p \in Dirs, NEW s \in Nat, Account(p, s)
    PROVE  SizeKept'
<1> DEFINE Old == {p} \X (1..entry[p])
           New == {p} \X (1..s)
           Rest == Accounted \ Old
<1>1. /\ entry[p] \in Nat /\ total \in Int /\ total' = total - entry[p] + s
      /\ \A q \in Dirs : entry'[q] = IF q = p THEN s ELSE entry[q]
  BY AccountType DEF TypeOK, Account
<1>2. /\ IsFiniteSet(Old) /\ Cardinality(Old) = entry[p]
      /\ IsFiniteSet(New) /\ Cardinality(New) = s
  BY <1>1, CountBytes
<1>3. /\ IsFiniteSet(Rest) /\ Cardinality(Rest) \in Nat
  BY FS_Subset, FS_CardinalityType DEF SizeKept
<1>4. Accounted = Rest \union Old /\ Rest \cap Old = {}
  BY Bytes
<1>5. Accounted' = Rest \union New /\ Rest \cap New = {}
  <2>1. ASSUME NEW x PROVE x \in Accounted' <=> x \in Rest \/ x \in New
    <3>1. x \in Accounted' <=> \/ x \in New
                               \/ \E q \in Dirs : q # p /\ x \in {q} \X (1..entry[q])
      BY <1>1, Bytes
    <3>2. x \in Rest <=> \E q \in Dirs : q # p /\ x \in {q} \X (1..entry[q])
      BY Bytes
    <3>. QED  BY <3>1, <3>2
  <2>2. Rest \cap New = {}
    BY Bytes
  <2>. HIDE DEF Rest, New
  <2>. QED  BY <2>1, <2>2
<1>. HIDE DEF Old, New, Rest
<1>6. Cardinality(Accounted) = Cardinality(Rest) + entry[p]
  <2>1. Cardinality(Rest \union Old)
            = Cardinality(Rest) + Cardinality(Old) - Cardinality(Rest \cap Old)
    BY <1>2, <1>3, FS_Union
  <2>2. Cardinality(Rest \cap Old) = 0
    BY <1>4, FS_EmptySet
  <2>3. Cardinality(Accounted) = Cardinality(Rest \union Old)
    BY <1>4
  <2>. QED  BY <1>1, <1>2, <1>3, <2>1, <2>2, <2>3
<1>7. IsFiniteSet(Accounted') /\ Cardinality(Accounted') = Cardinality(Rest) + s
  <2>1. /\ IsFiniteSet(Rest \union New)
        /\ Cardinality(Rest \union New)
              = Cardinality(Rest) + Cardinality(New) - Cardinality(Rest \cap New)
    BY <1>2, <1>3, FS_Union
  <2>2. Cardinality(Rest \cap New) = 0
    BY <1>5, FS_EmptySet
  <2>3. Accounted' = Rest \union New
    BY <1>5
  <2>4. IsFiniteSet(Accounted') /\ Cardinality(Accounted') = Cardinality(Rest \union New)
    BY <2>1, <2>3
  <2>. QED  BY <1>2, <1>3, <2>1, <2>2, <2>4
<1>. QED  BY <1>1, <1>3, <1>6, <1>7 DEF SizeKept, TotalExact

\* Nothing is accounted for.
LEMMA EmptyCache ==
    ASSUME entry = [d \in Dirs |-> 0], total = 0
    PROVE  SizeKept
<1>1. Accounted = {}
  BY Bytes
<1>. QED  BY <1>1, FS_EmptySet DEF SizeKept, TotalExact

LEMMA SameSize ==
    ASSUME SizeKept, UNCHANGED <<entry, total>>
    PROVE  SizeKept'
  BY DEF SizeKept, TotalExact, Accounted

LEMMA EvictStepKeepsSize ==
    ASSUME IInv, SizeKept, NEW t \in Tasks, EvictStep(t)
    PROVE  SizeKept'
<1>1. CASE Forget(t)
  <2>1. victim[t] \in Dirs /\ Account(victim[t], 0)
    BY <1>1 DEF Forget, IInv, AtWork
  <2>. QED  BY <2>1, AccountKeepsSize DEF IInv
<1>2. CASE NextVictim(t) \/ EvictionEnds(t) \/ Remove(t)
  BY <1>2, SameSize DEF NextVictim, EvictionEnds, Remove, cache
<1>. QED  BY <1>1, <1>2 DEF EvictStep

LEMMA CallStepKeepsSize ==
    ASSUME IInv, SizeKept, NEW g \in Calls, CallStep(g)
    PROVE  SizeKept'
<1>1. CASE EvictStep(g)
  BY <1>1, EvictStepKeepsSize DEF Tasks
<1>2. CASE Add(g)
  <2>1. dir[g] \in Dirs /\ content[g] \in Nat /\ Account(dir[g], content[g])
    BY <1>2, NoneIsNothing DEF Add, IInv, AtWork, Tasks
  <2>. QED  BY <2>1, AccountKeepsSize DEF IInv
<1>3. CASE \/ Stat(g) \/ Touch(g) \/ Join(g) \/ Restat(g) \/ Retouch(g) \/ Download(g)
           \/ FlightFails(g) \/ Verify(g) \/ Clear(g) \/ Rename(g) \/ Measure(g) \/ Execute(g)
  BY <1>3, SameSize DEF Stat, Touch, Join, Restat, Retouch, Download, FlightFails, Verify,
     Clear, Rename, Measure, Execute, cache
<1>. QED  BY <1>1, <1>2, <1>3 DEF CallStep

LEMMA WarmStepKeepsSize ==
    ASSUME IInv, SizeKept, WarmStep
    PROVE  SizeKept'
<1>1. CASE EvictStep(Warm)
  BY <1>1, EvictStepKeepsSize DEF Tasks
<1>2. CASE WarmAdd
  <2>1. CASE Account(dir[Warm], content[Warm])
    <3>1. dir[Warm] \in Dirs /\ content[Warm] \in Nat
      BY <1>2, NoneIsNothing DEF WarmAdd, IInv, AtWork, Tasks
    <3>. QED  BY <2>1, <3>1, AccountKeepsSize DEF IInv
  <2>2. CASE UNCHANGED <<entry, total>>
    BY <2>2, SameSize
  <2>. QED  BY <1>2, <2>1, <2>2 DEF WarmAdd
<1>3. CASE WarmEvict \/ \E p \in Dirs : WarmMeasure(p)
  BY <1>3, SameSize DEF WarmEvict, WarmMeasure, cache
<1>. QED  BY <1>1, <1>2, <1>3 DEF WarmStep

LEMMA AdminKeepsSize ==
    ASSUME IInv, SizeKept, NEW a \in Admins, AdminBegins(a) \/ AdminStep(a)
    PROVE  SizeKept'
<1>1. CASE ForgetDeleted(a)
  <2>1. on[a] \in Dirs /\ Account(on[a], 0)
    BY <1>1, NoneIsNothing DEF ForgetDeleted, IInv, AtWork
  <2>. QED  BY <2>1, AccountKeepsSize DEF IInv
<1>2. CASE \/ AdminBegins(a) \/ HashArchive(a) \/ WriteRow(a) \/ AdminFails(a) \/ Upload(a)
           \/ DeleteArchive(a) \/ DeleteDirectory(a)
  BY <1>2, SameSize DEF AdminBegins, BeginWrite, BeginPush, DeleteRow, HashArchive, WriteRow,
     AdminFails, Upload, DeleteArchive, DeleteDirectory, cache
<1>. QED  BY <1>1, <1>2 DEF AdminStep

\* The cache's total is that of its entries, whoever adds, forgets, evicts and scans
\* at once: the eviction it decides on is neither early nor late.
THEOREM TotalIsExact == Spec => []TotalExact
<1>1. Init => SizeKept
  BY EmptyCache DEF Init
<1>2. IInv /\ SizeKept /\ [Next]_vars => SizeKept'
  <2>. SUFFICES ASSUME IInv, SizeKept, [Next]_vars PROVE SizeKept'
    OBVIOUS
  <2>1. CASE Restart
    <3>1. entry' = [d \in Dirs |-> 0] /\ total' = 0
      BY <2>1 DEF Restart
    <3>2. Accounted' = {}
      BY <3>1, Bytes
    <3>. QED  BY <3>1, <3>2, FS_EmptySet DEF SizeKept, TotalExact
  <2>2. CASE UNCHANGED <<entry, total>>
    BY <2>2, SameSize
  <2>3. ASSUME NEW g \in Calls, CallStep(g) PROVE SizeKept'
    BY <2>3, CallStepKeepsSize
  <2>4. ASSUME NEW a \in Admins, AdminBegins(a) \/ AdminStep(a) PROVE SizeKept'
    BY <2>4, AdminKeepsSize
  <2>5. CASE WarmStep
    BY <2>5, WarmStepKeepsSize
  <2>6. ASSUME \/ \E g \in Calls, p \in Plugins : ReadRow(g, p)
               \/ \E p \in Dirs : Age(p)
               \/ Stopped \/ UNCHANGED vars
        PROVE  UNCHANGED <<entry, total>>
    BY <2>6 DEF ReadRow, Age, Stopped, vars, cache
  <2>. QED  BY <2>1, <2>2, <2>3, <2>4, <2>5, <2>6 DEF Next
<1>3. SizeKept => TotalExact
  BY DEF SizeKept
<1>. QED  BY <1>1, <1>2, <1>3, Invariance, PTL DEF Spec

-------------------------------------------------------------------------------
(* Archives of registered plugins *)

LEMMA StoreTypes ==
    ASSUME IInv
    PROVE  /\ row \in [Plugins -> Contents \union {Unchecked, None}]
           /\ archive \in [Plugins -> Contents \union {None}]
           /\ apc \in [Admins -> AdminState] /\ on \in [Admins -> Plugins \union {None}]
           /\ met \subseteq Admins /\ doubtful \subseteq Plugins
           /\ \A a \in Admins : /\ apc[a] # "idle" => on[a] \in Plugins
                                /\ apc[a] = "writing" => hash[a] \in Contents
                                /\ apc[a] = "uploading" => hash[a] \in Contents
  BY DEF IInv, TypeOK, AtWork

\* An operation that is neither about to write nor about to delete goes on, and takes
\* no row and no archive along.
LEMMA AdminGoesOn ==
    ASSUME IInv, AdminInv, NEW a \in Admins, NEW state \in AdminState \ {"writing", "deleting"},
           apc' = [apc EXCEPT ![a] = state],
           \A b \in Admins \ {a} : on'[b] = on[b],
           row' = row, doubtful' = doubtful, met \ {a} \subseteq met',
           \A p \in Plugins : archive[p] # None => archive'[p] # None
    PROVE  AdminInv'
<1>1. \A b \in Admins : apc'[b] = IF b = a THEN state ELSE apc[b]
  BY StoreTypes
<1>2. \A b \in Admins : apc'[b] \in {"writing", "deleting"} => b # a /\ apc[b] = apc'[b] /\ on'[b] = on[b]
  BY <1>1
<1>3. \A p : Deleting(p)' => Deleting(p)
  BY <1>2 DEF Deleting
<1>4. HashedIsThere'
  BY <1>2, <1>3, StoreTypes DEF AdminInv, HashedIsThere
<1>5. DeletedIsAway' /\ RegisteredHasArtifact'
  BY <1>3 DEF AdminInv, DeletedIsAway, RegisteredHasArtifact
<1>. QED  BY <1>4, <1>5 DEF AdminInv

\* The archive is hashed: it is there, and if a deletion is about to take it, they
\* have met.
LEMMA HashKeepsArtifacts ==
    ASSUME IInv, AdminInv, NEW a \in Admins, HashArchive(a)
    PROVE  AdminInv'
<1>1. /\ apc[a] = "hashing" /\ archive[on[a]] # None /\ UNCHANGED <<row, archive, doubtful, on>>
      /\ met' = IF Deleting(on[a]) THEN met \union {a} ELSE met
      /\ \A b \in Admins : apc'[b] = IF b = a THEN "writing" ELSE apc[b]
  BY StoreTypes DEF HashArchive, AdminGoto, stores
<1>2. \A p : Deleting(p)' <=> Deleting(p)
  BY <1>1 DEF Deleting
<1>3. HashedIsThere'
  BY <1>1, <1>2 DEF AdminInv, HashedIsThere
<1>4. DeletedIsAway' /\ RegisteredHasArtifact'
  BY <1>1, <1>2 DEF AdminInv, DeletedIsAway, RegisteredHasArtifact
<1>. QED  BY <1>3, <1>4 DEF AdminInv

LEMMA WriteKeepsArtifacts ==
    ASSUME IInv, AdminInv, NEW a \in Admins, WriteRow(a)
    PROVE  AdminInv'
<1>1. /\ apc[a] = "writing" /\ on[a] \in Plugins /\ UNCHANGED <<archive, on>>
      /\ met' = met \ {a}
      /\ doubtful' = IF a \in met THEN doubtful \union {on[a]} ELSE doubtful \ {on[a]}
      /\ \A p \in Plugins : p # on[a] => row'[p] = row[p]
      /\ \A b \in Admins : apc'[b] = IF b = a THEN "over" ELSE apc[b]
  BY StoreTypes DEF WriteRow, AdminGoto
<1>2. \A p : Deleting(p)' <=> Deleting(p)
  BY <1>1 DEF Deleting
<1>3. HashedIsThere'
  BY <1>1, <1>2 DEF AdminInv, HashedIsThere
<1>4. on[a] \notin doubtful' => archive[on[a]] # None /\ ~ Deleting(on[a])
  BY <1>1 DEF AdminInv, HashedIsThere
<1>5. \A p \in Plugins \ doubtful' : p # on[a] => p \notin doubtful
  BY <1>1
<1>6. DeletedIsAway'
  BY <1>1, <1>2, <1>4, <1>5 DEF AdminInv, DeletedIsAway
<1>7. RegisteredHasArtifact'
  BY <1>1, <1>4, <1>5 DEF AdminInv, RegisteredHasArtifact
<1>. QED  BY <1>3, <1>6, <1>7 DEF AdminInv

\* A row is deleted before its archive, and who is about to write it has met the
\* deletion.
LEMMA DeleteKeepsArtifacts ==
    ASSUME IInv, AdminInv, NEW a \in Admins, NEW p \in Plugins, DeleteRow(a, p)
    PROVE  AdminInv'
<1>1. /\ apc[a] = "idle" /\ UNCHANGED archive
      /\ \A q \in Plugins : row'[q] = IF q = p THEN None ELSE row[q]
      /\ doubtful' = doubtful \ {p} /\ met' = met \union Writing(p)
      /\ \A b \in Admins : /\ apc'[b] = IF b = a THEN "deleting" ELSE apc[b]
                           /\ on'[b] = IF b = a THEN p ELSE on[b]
  BY StoreTypes DEF DeleteRow, Begin, AdminGoto
<1>2. \A q : Deleting(q)' => Deleting(q) \/ q = p
  BY <1>1 DEF Deleting
<1>3. HashedIsThere'
  BY <1>1, <1>2 DEF AdminInv, HashedIsThere, Writing
<1>4. DeletedIsAway' /\ RegisteredHasArtifact'
  BY <1>1, <1>2, NoneIsNothing DEF AdminInv, DeletedIsAway, RegisteredHasArtifact
<1>. QED  BY <1>3, <1>4 DEF AdminInv

\* The archive goes: nobody relies on it.
LEMMA ArchiveGoes ==
    ASSUME IInv, AdminInv, NEW a \in Admins, DeleteArchive(a)
    PROVE  AdminInv'
<1>1. /\ apc[a] = "deleting" /\ UNCHANGED <<row, doubtful, met, on>>
      /\ \A p \in Plugins : archive'[p] = archive[p] \/ p = on[a]
      /\ \A b \in Admins : apc'[b] = IF b = a THEN "removing" ELSE apc[b]
  BY StoreTypes DEF DeleteArchive, AdminGoto
<1>2. Deleting(on[a]) /\ \A p : Deleting(p)' => Deleting(p)
  BY <1>1 DEF Deleting
<1>3. HashedIsThere'
  BY <1>1, <1>2, StoreTypes DEF AdminInv, HashedIsThere
<1>4. DeletedIsAway' /\ RegisteredHasArtifact'
  BY <1>1, <1>2 DEF AdminInv, DeletedIsAway, RegisteredHasArtifact
<1>. QED  BY <1>3, <1>4 DEF AdminInv

LEMMA AdminKeepsArtifacts ==
    ASSUME IInv, AdminInv, NEW a \in Admins, AdminBegins(a) \/ AdminStep(a)
    PROVE  AdminInv'
<1>1. {"hashing", "uploading", "over", "removing", "forgetting"} \subseteq
          AdminState \ {"writing", "deleting"}
  BY DEF AdminState
<1>2. ASSUME NEW p \in Plugins, NEW d \in Dirs, NEW what \in {"create", "update"},
             BeginWrite(a, what, p, d)
      PROVE  AdminInv'
  <2>1. /\ apc' = [apc EXCEPT ![a] = "hashing"] /\ \A b \in Admins \ {a} : on'[b] = on[b]
        /\ UNCHANGED <<row, archive, doubtful, met>>
    BY <1>2, StoreTypes DEF BeginWrite, Begin, AdminGoto, stores
  <2>. QED  BY <1>1, <2>1, AdminGoesOn
<1>3. ASSUME NEW p \in Plugins, NEW c \in Contents, NEW what \in {"push", "force"},
             BeginPush(a, what, p, c)
      PROVE  AdminInv'
  <2>1. /\ apc' = [apc EXCEPT ![a] = "uploading"] \/ apc' = [apc EXCEPT ![a] = "over"]
        /\ \A b \in Admins \ {a} : on'[b] = on[b]
        /\ UNCHANGED <<row, archive, doubtful, met>>
    BY <1>3, StoreTypes DEF BeginPush, Begin, AdminGoto, stores
  <2>. QED  BY <1>1, <2>1, AdminGoesOn
<1>4. CASE AdminFails(a)
  <2>1. /\ apc' = [apc EXCEPT ![a] = "over"] /\ met' = met \ {a}
        /\ UNCHANGED <<row, archive, doubtful, on>>
    BY <1>4 DEF AdminFails, AdminGoto, stores
  <2>. QED  BY <1>1, <2>1, AdminGoesOn
<1>5. CASE Upload(a)
  <2>1. /\ apc' = [apc EXCEPT ![a] = "over"] /\ UNCHANGED <<row, doubtful, met, on>>
        /\ archive' = [archive EXCEPT ![on[a]] = hash[a]] /\ hash[a] # None
    BY <1>5, StoreTypes, NoneIsNothing DEF Upload, AdminGoto
  <2>2. \A p \in Plugins : archive[p] # None => archive'[p] # None
    BY <2>1, StoreTypes
  <2>. QED  BY <1>1, <2>1, <2>2, AdminGoesOn
<1>6. CASE DeleteDirectory(a)
  <2>1. apc' = [apc EXCEPT ![a] = "forgetting"] /\ UNCHANGED <<row, archive, doubtful, met, on>>
    BY <1>6 DEF DeleteDirectory, AdminGoto, stores
  <2>. QED  BY <1>1, <2>1, AdminGoesOn
<1>7. CASE ForgetDeleted(a)
  <2>1. apc' = [apc EXCEPT ![a] = "over"] /\ UNCHANGED <<row, archive, doubtful, met, on>>
    BY <1>7 DEF ForgetDeleted, AdminGoto, stores
  <2>. QED  BY <1>1, <2>1, AdminGoesOn
<1>8. CASE HashArchive(a) \/ WriteRow(a) \/ DeleteArchive(a)
  BY <1>8, HashKeepsArtifacts, WriteKeepsArtifacts, ArchiveGoes
<1>9. ASSUME NEW p \in Plugins, DeleteRow(a, p) PROVE AdminInv'
  BY <1>9, DeleteKeepsArtifacts
<1>. QED  BY <1>2, <1>3, <1>4, <1>5, <1>6, <1>7, <1>8, <1>9 DEF AdminBegins, AdminStep

adminState == <<row, archive, doubtful, apc, on, met>>

LEMMA CallsLeaveStores ==
    ASSUME \/ \E g \in Calls : CallStep(g) \/ \E p \in Plugins : ReadRow(g, p)
           \/ WarmStep \/ \E d \in Dirs : Age(d)
    PROVE  UNCHANGED adminState
<1>1. ASSUME NEW t, EvictStep(t) PROVE UNCHANGED adminState
  BY <1>1 DEF EvictStep, NextVictim, EvictionEnds, Remove, Forget, stores, adminVars, adminState
<1>2. ASSUME NEW g \in Calls, CallStep(g) PROVE UNCHANGED adminState
  BY <1>1, <1>2 DEF CallStep, Stat, Touch, Join, Restat, Retouch, Download, FlightFails,
     Verify, Clear, Rename, Measure, Add, Execute, stores, adminVars, adminState
<1>3. CASE WarmStep
  BY <1>1, <1>3 DEF WarmStep, WarmMeasure, WarmAdd, WarmEvict, stores, adminVars, adminState
<1>. QED  BY <1>2, <1>3 DEF ReadRow, Age, stores, adminVars, adminState

\* "A registered plugin always has its artifact": so it is for every row that was not
\* written in the middle of a deletion, whatever operations overlap, whatever fails in
\* them and wherever the service is restarted.
THEOREM ArtifactsOfRegistered == Spec => []RegisteredHasArtifact
<1>1. Init => AdminInv
  BY NoneIsNothing DEF Init, AdminInv, HashedIsThere, DeletedIsAway, Deleting, RegisteredHasArtifact
<1>2. IInv /\ AdminInv /\ [Next]_vars => AdminInv'
  <2>. SUFFICES ASSUME IInv, AdminInv, [Next]_vars PROVE AdminInv'
    OBVIOUS
  <2>1. ASSUME NEW a \in Admins, AdminBegins(a) \/ AdminStep(a) PROVE AdminInv'
    BY <2>1, AdminKeepsArtifacts
  <2>2. CASE UNCHANGED adminState
    BY <2>2 DEF AdminInv, HashedIsThere, DeletedIsAway, Deleting, RegisteredHasArtifact, adminState
  <2>3. CASE Restart
    <3>1. \A a \in Admins : apc'[a] \in {apc[a], "over"}
      BY <2>3, StoreTypes DEF Restart
    <3>2. UNCHANGED <<row, archive, doubtful, on, met>>
      BY <2>3 DEF Restart, stores
    <3>. QED
      BY <3>1, <3>2 DEF AdminInv, HashedIsThere, DeletedIsAway, Deleting, RegisteredHasArtifact
  <2>. QED  BY <2>1, <2>2, <2>3, CallsLeaveStores DEF Next, Stopped, vars, stores, adminVars, adminState
<1>3. AdminInv => RegisteredHasArtifact
  BY DEF AdminInv
<1>. QED  BY <1>1, <1>2, <1>3, Invariance, PTL DEF Spec

===============================================================================
