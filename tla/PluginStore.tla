------------------------------ MODULE PluginStore ------------------------------
(***************************************************************************)
(* Where a plugin lives (internal/adapters/registry): a row in the         *)
(* database with the checksum of its archive, the archive in object        *)
(* storage, the unpacked directory on local disk, and the cache that keeps *)
(* those directories under a size limit.  Get brings a plugin to disk      *)
(* (ensureBinary, fetchAndUnpack), Generate executes it, Create, Update,   *)
(* Delete and `plugins push` change what there is to bring.                *)
(*                                                                         *)
(* An archive is its content, a content is the size it has on disk, and    *)
(* the checksum of a content is that content.  A plugin is unpacked into   *)
(* the directory of its command, which need not be the one of its name.    *)
(* The database and the object storage are external; each of their calls   *)
(* is one step, and may fail.                                              *)
(***************************************************************************)
EXTENDS Integers, FiniteSets, Functions

CONSTANTS
    Plugins,     \* plugin versions
    Dirs,        \* version directories; p \in Plugins has one by its name: p
    Contents,    \* what an archive may hold: its size
    Calls,       \* GenerateCode calls
    Admins,      \* CreatePlugin, UpdatePlugin, DeletePlugin and push, one each
    Limit,       \* registry.cache_max_bytes
    RemovalFails, \* RemoveAll may fail
    MaxRestarts, \* bound: restarts of the service
    Unchecked,   \* the empty checksum
    None, Warm   \* no value; the goroutine that scans the cache at startup

ASSUME PluginStoreAssumption ==
    /\ IsFiniteSet(Dirs) /\ Plugins \subseteq Dirs
    /\ Contents \subseteq Nat \ {0}
    /\ Limit \in Nat \ {0}
    /\ RemovalFails \in BOOLEAN
    /\ MaxRestarts \in Nat
    /\ None \notin Dirs \union Contents \union Calls
    /\ Unchecked \notin Contents \union {None}
    /\ Warm \notin Calls

VARIABLES
    row,       \* row[p]: the checksum registered for p, None without a row
    home,      \* home[p]: the directory of its command; p without a row
    archive,   \* archive[p]: the object under archiveKey
    disk,      \* disk[d]: what is unpacked in d
    recorded,  \* history: every checksum ever registered with a command in d
    doubtful,  \* history: the plugins whose row was written by one of met
    entry,     \* c.entries: the size of d, 0 when it is unknown
    recent,    \* directories whose entry is younger than minAge
    total,     \* c.total
    flight,    \* r.downloads: the call that leads the flight of p
    pc,        \* where a call or the scan stands
    at,        \* the plugin a call is about
    dir,       \* the directory of its command, or the one that is scanned
    expected,  \* the checksum the call read in its row
    content,   \* what the call has downloaded, measured or executed
    victim,    \* the directory it is evicting
    scan,      \* the directories the scan has not yet visited
    apc,       \* where an administrative operation stands
    op, on,    \* which it is, and on which plugin
    to,        \* the directory of the command it writes
    hash,      \* the checksum it computed, or the content it uploads
    met,       \* history: who met a Delete of the plugin while hashing or writing
    restarts

stores == <<row, home, archive, recorded, doubtful>>
cache == <<entry, recent, total>>
callVars == <<at, dir, expected, content, victim>>
adminVars == <<apc, op, on, to, hash, met>>
vars == <<stores, disk, cache, flight, pc, callVars, scan, adminVars, restarts>>

Tasks == Calls \union {Warm}
CallEnds == {"ran", "missing", "failed"}
Leading == {"restat", "retouch", "download", "verify", "clear", "rename", "measure",
            "add", "evict", "remove", "forget"}
TaskState == {"new", "stat", "touch", "join", "follow", "got", "idle", "scan"}
                \union Leading \union CallEnds
AdminState == {"idle", "hashing", "writing", "uploading", "deleting", "removing",
               "forgetting", "over"}
Operations == {"none", "create", "update", "delete", "push", "force"}

OnDisk == {d \in Dirs : disk[d] # None}

\* Plugins may be registered, by an older version without a checksum too, and an
\* earlier process may have left directories.
Init ==
    /\ archive \in [Plugins -> Contents \union {None}]
    /\ row \in [Plugins -> Contents \union {Unchecked, None}]
    /\ \A p \in Plugins : row[p] \in Contents => archive[p] # None
    /\ home \in [Plugins -> Dirs]
    /\ \A p \in Plugins : row[p] = None => home[p] = p
    /\ disk \in [Dirs -> Contents \union {None}]
    /\ scan = OnDisk
    /\ recorded = [d \in Dirs |-> ({disk[d]} \ {None}) \union
                       {row[p] : p \in {q \in Plugins : row[q] # None /\ home[q] = d}}]
    /\ doubtful = {}
    /\ entry = [d \in Dirs |-> 0]
    /\ recent = {}
    /\ total = 0
    /\ flight = [p \in Plugins |-> None]
    /\ pc = [t \in Tasks |-> IF t = Warm THEN "scan" ELSE "new"]
    /\ at = [g \in Calls |-> None]
    /\ dir = [t \in Tasks |-> None]
    /\ expected = [g \in Calls |-> None]
    /\ content = [t \in Tasks |-> None]
    /\ victim = [t \in Tasks |-> None]
    /\ apc = [a \in Admins |-> "idle"]
    /\ op = [a \in Admins |-> "none"]
    /\ on = [a \in Admins |-> None]
    /\ to = [a \in Admins |-> None]
    /\ hash = [a \in Admins |-> None]
    /\ met = {}
    /\ restarts = 0

Goto(t, state) == pc' = [pc EXCEPT ![t] = state]

\* A flight ends: everyone who waits on it gets what its leader got.
EndFlight(g, outcome) ==
    /\ pc' = [t \in Tasks |-> IF t = g \/ (pc[t] = "follow" /\ at[t] = at[g])
                              THEN outcome ELSE pc[t]]
    /\ flight' = [flight EXCEPT ![at[g]] = None]

\* The accounting of d, and of no other directory, becomes that of a size s.
Account(d, s) ==
    /\ entry' = [entry EXCEPT ![d] = s]
    /\ total' = total - entry[d] + s

-------------------------------------------------------------------------------
(* Get *)

ReadRow(g, p) ==
    /\ pc[g] = "new"
    /\ at' = [at EXCEPT ![g] = p]
    /\ dir' = [dir EXCEPT ![g] = home[p]]
    /\ expected' = [expected EXCEPT ![g] = row[p]]
    /\ Goto(g, IF row[p] = None THEN "failed" ELSE "stat")
    /\ UNCHANGED <<stores, disk, cache, flight, content, victim, scan, adminVars, restarts>>

\* An error other than "not there" counts as a hit.
Stat(g) ==
    /\ pc[g] = "stat"
    /\ \/ /\ disk[dir[g]] = None
          /\ Goto(g, "join")
       \/ Goto(g, "touch")
    /\ UNCHANGED <<stores, disk, cache, flight, callVars, scan, adminVars, restarts>>

\* An entry that is known becomes recent.
MarkUsed(d) == recent' = IF entry[d] = 0 THEN recent ELSE recent \union {d}

Touch(g) ==
    /\ pc[g] = "touch"
    /\ MarkUsed(dir[g])
    /\ Goto(g, "got")
    /\ UNCHANGED <<stores, disk, entry, total, flight, callVars, scan, adminVars, restarts>>

\* singleflight, by plugin and not by directory: the first to miss leads, the others wait, whatever becomes of
\* their own contexts.
Join(g) ==
    /\ pc[g] = "join"
    /\ \/ /\ flight[at[g]] = None
          /\ flight' = [flight EXCEPT ![at[g]] = g]
          /\ Goto(g, "restat")
       \/ /\ flight[at[g]] # None
          /\ flight' = flight
          /\ Goto(g, "follow")
    /\ UNCHANGED <<stores, disk, cache, callVars, scan, adminVars, restarts>>

Restat(g) ==
    /\ pc[g] = "restat"
    /\ Goto(g, IF disk[dir[g]] = None THEN "download" ELSE "retouch")
    /\ UNCHANGED <<stores, disk, cache, flight, callVars, scan, adminVars, restarts>>

Retouch(g) ==
    /\ pc[g] = "retouch"
    /\ MarkUsed(dir[g])
    /\ EndFlight(g, "got")
    /\ UNCHANGED <<stores, disk, entry, total, callVars, scan, adminVars, restarts>>

Download(g) ==
    /\ pc[g] = "download"
    /\ archive[at[g]] # None
    /\ content' = [content EXCEPT ![g] = archive[at[g]]]
    /\ Goto(g, "verify")
    /\ UNCHANGED <<stores, disk, cache, flight, at, dir, expected, victim, scan, adminVars, restarts>>

\* A mutant: the leader alone learns that the flight has failed.
FlightFailsAlone(g) ==
    /\ pc[g] \in {"download", "verify", "clear", "rename"}
    /\ pc[g] = "verify" => expected[g] # Unchecked
    /\ Goto(g, "failed")
    /\ flight' = [flight EXCEPT ![at[g]] = None]
    /\ UNCHANGED <<stores, disk, cache, callVars, scan, adminVars, restarts>>

\* The object is not there or the storage fails, or the leader's context has
\* ended; the checksum is another; or the file system fails, as it does when a
\* directory is to take the name of one that is there.
FlightFails(g) ==
    /\ pc[g] \in {"download", "verify", "clear", "rename"}
    /\ pc[g] = "verify" => expected[g] # Unchecked
    /\ EndFlight(g, "failed")
    /\ UNCHANGED <<stores, disk, cache, callVars, scan, adminVars, restarts>>

\* A mutant: whatever was downloaded is unpacked.
VerifyNothing(g) ==
    /\ pc[g] = "verify"
    /\ Goto(g, "clear")
    /\ UNCHANGED <<stores, disk, cache, flight, callVars, scan, adminVars, restarts>>

\* An empty checksum is not compared.
Verify(g) ==
    /\ pc[g] = "verify"
    /\ expected[g] \in {Unchecked, content[g]}
    /\ Goto(g, "clear")
    /\ UNCHANGED <<stores, disk, cache, flight, callVars, scan, adminVars, restarts>>

\* Unpack: extraction goes to a directory of its own; then the old directory is
\* removed, and only then the new one takes its name.
Clear(g) ==
    /\ pc[g] = "clear"
    /\ disk' = [disk EXCEPT ![dir[g]] = None]
    /\ Goto(g, "rename")
    /\ UNCHANGED <<stores, cache, flight, callVars, scan, adminVars, restarts>>

Rename(g) ==
    /\ pc[g] = "rename"
    /\ disk[dir[g]] = None
    /\ disk' = [disk EXCEPT ![dir[g]] = content[g]]
    /\ Goto(g, "measure")
    /\ UNCHANGED <<stores, cache, flight, callVars, scan, adminVars, restarts>>

\* dirSize; a directory that has gone meanwhile is not accounted for.
Measure(g) ==
    /\ pc[g] = "measure"
    /\ \/ /\ disk[dir[g]] # None
          /\ content' = [content EXCEPT ![g] = disk[dir[g]]]
          /\ Goto(g, "add")
          /\ UNCHANGED flight
       \/ /\ disk[dir[g]] = None
          /\ EndFlight(g, "got")
          /\ UNCHANGED content
    /\ UNCHANGED <<stores, disk, cache, at, dir, expected, victim, scan, adminVars, restarts>>

Add(g) ==
    /\ pc[g] = "add"
    /\ Account(dir[g], content[g])
    /\ recent' = recent \union {dir[g]}
    /\ Goto(g, "evict")
    /\ UNCHANGED <<stores, disk, flight, callVars, scan, adminVars, restarts>>

\* Generate executes what is on disk by then.
Execute(g) ==
    /\ pc[g] = "got"
    /\ content' = [content EXCEPT ![g] = disk[dir[g]]]
    /\ Goto(g, IF disk[dir[g]] = None THEN "missing" ELSE "ran")
    /\ UNCHANGED <<stores, disk, cache, flight, at, dir, expected, victim, scan, adminVars, restarts>>

-------------------------------------------------------------------------------
(* evict *)

\* The victim is chosen under the lock.  Which of several old entries is the
\* oldest is left open.
NextVictim(t) ==
    /\ pc[t] = "evict"
    /\ total > Limit
    /\ \E d \in Dirs \ recent :
        /\ entry[d] > 0
        /\ victim' = [victim EXCEPT ![t] = d]
    /\ Goto(t, "remove")
    /\ UNCHANGED <<stores, disk, cache, flight, at, dir, expected, content, scan, adminVars, restarts>>

\* There is no victim: the cache fits, or everything in it is too recent.
EvictionEnds(t) ==
    /\ pc[t] = "evict"
    /\ total <= Limit \/ \A d \in Dirs \ recent : entry[d] = 0
    /\ \/ /\ t # Warm
          /\ EndFlight(t, "got")
       \/ /\ t = Warm
          /\ Goto(t, "idle")
          /\ UNCHANGED flight
    /\ UNCHANGED <<stores, disk, cache, callVars, scan, adminVars, restarts>>

\* os.RemoveAll of d.  Where it is called here, a failure is only logged.
RemoveAll(d) ==
    \/ disk' = [disk EXCEPT ![d] = None]
    \/ /\ RemovalFails
       /\ disk' = disk

\* It runs outside the lock.
Remove(t) ==
    /\ pc[t] = "remove"
    /\ RemoveAll(victim[t])
    /\ Goto(t, "forget")
    /\ UNCHANGED <<stores, cache, flight, callVars, scan, adminVars, restarts>>

Forget(t) ==
    /\ pc[t] = "forget"
    /\ Account(victim[t], 0)
    /\ recent' = recent \ {victim[t]}
    /\ victim' = [victim EXCEPT ![t] = None]
    /\ Goto(t, "evict")
    /\ UNCHANGED <<stores, disk, flight, at, dir, expected, content, scan, adminVars, restarts>>

\* minAge passes.
Age(d) ==
    /\ d \in recent
    /\ recent' = recent \ {d}
    /\ UNCHANGED <<stores, disk, entry, total, flight, pc, callVars, scan, adminVars, restarts>>

-------------------------------------------------------------------------------
(* warm *)

\* dirSize of the next directory, if it is still there.
WarmMeasure(d) ==
    /\ pc[Warm] = "scan"
    /\ d \in scan
    /\ scan' = scan \ {d}
    /\ \/ /\ disk[d] # None
          /\ dir' = [dir EXCEPT ![Warm] = d]
          /\ content' = [content EXCEPT ![Warm] = disk[d]]
          /\ Goto(Warm, "add")
       \/ /\ disk[d] = None
          /\ UNCHANGED <<dir, content, pc>>
    /\ UNCHANGED <<stores, disk, cache, flight, at, expected, victim, adminVars, restarts>>

\* Counted as old, unless a download has counted it meanwhile.
WarmAdd ==
    /\ pc[Warm] = "add"
    /\ \/ /\ entry[dir[Warm]] = 0
          /\ Account(dir[Warm], content[Warm])
       \/ /\ entry[dir[Warm]] > 0
          /\ UNCHANGED <<entry, total>>
    /\ Goto(Warm, "scan")
    /\ UNCHANGED <<stores, disk, recent, flight, callVars, scan, adminVars, restarts>>

WarmEvict ==
    /\ pc[Warm] = "scan"
    /\ scan = {}
    /\ Goto(Warm, "evict")
    /\ UNCHANGED <<stores, disk, cache, flight, callVars, scan, adminVars, restarts>>

-------------------------------------------------------------------------------
(* Create, Update, Delete and push *)

AdminGoto(a, state) == apc' = [apc EXCEPT ![a] = state]

Begin(a, what, p, state) ==
    /\ apc[a] = "idle"
    /\ op' = [op EXCEPT ![a] = what]
    /\ on' = [on EXCEPT ![a] = p]
    /\ AdminGoto(a, state)

Deleting(p) == \E b \in Admins : apc[b] = "deleting" /\ on[b] = p
Writing(p) == {b \in Admins : apc[b] = "writing" /\ on[b] = p}

\* Create and Update hash the archive first.  ValidateConfig has the command lie
\* in any directory of plugins_dir.
BeginWrite(a, what, p, d) ==
    /\ Begin(a, what, p, "hashing")
    /\ to' = [to EXCEPT ![a] = d]
    /\ UNCHANGED <<stores, disk, cache, flight, pc, callVars, scan, hash, met, restarts>>

HashArchive(a) ==
    /\ apc[a] = "hashing"
    /\ archive[on[a]] # None
    /\ hash' = [hash EXCEPT ![a] = archive[on[a]]]
    /\ met' = IF Deleting(on[a]) THEN met \union {a} ELSE met
    /\ AdminGoto(a, "writing")
    /\ UNCHANGED <<stores, disk, cache, flight, pc, callVars, scan, op, on, to, restarts>>

\* INSERT wants no row to be there, UPDATE wants one.
WriteRow(a) ==
    /\ apc[a] = "writing"
    /\ (row[on[a]] = None) <=> (op[a] = "create")
    /\ row' = [row EXCEPT ![on[a]] = hash[a]]
    /\ home' = [home EXCEPT ![on[a]] = to[a]]
    /\ recorded' = [recorded EXCEPT ![to[a]] = @ \union {hash[a]}]
    /\ doubtful' = IF a \in met THEN doubtful \union {on[a]} ELSE doubtful \ {on[a]}
    /\ met' = met \ {a}
    /\ AdminGoto(a, "over")
    /\ UNCHANGED <<archive, disk, cache, flight, pc, callVars, scan, op, on, to, hash, restarts>>

\* ErrBinaryNotUploaded, ErrAlreadyExists, ErrNotFound, or a call that fails.
AdminFails(a) ==
    /\ apc[a] \in {"hashing", "writing", "uploading"}
    /\ met' = met \ {a}
    /\ AdminGoto(a, "over")
    /\ UNCHANGED <<stores, disk, cache, flight, pc, callVars, scan, op, on, to, hash, restarts>>

\* push leaves an archive that is there alone, unless it is forced.
BeginPush(a, what, p, c) ==
    /\ \/ /\ what = "force" \/ archive[p] = None
          /\ Begin(a, what, p, "uploading")
       \/ /\ what = "push" /\ archive[p] # None
          /\ Begin(a, what, p, "over")
    /\ hash' = [hash EXCEPT ![a] = c]
    /\ UNCHANGED <<stores, disk, cache, flight, pc, callVars, scan, to, met, restarts>>

Upload(a) ==
    /\ apc[a] = "uploading"
    /\ archive' = [archive EXCEPT ![on[a]] = hash[a]]
    /\ AdminGoto(a, "over")
    /\ UNCHANGED <<row, home, recorded, doubtful, disk, cache, flight, pc, callVars, scan,
                   op, on, to, hash, met, restarts>>

\* A mutant: the row stays until the cleanup is over.
DeleteRowLater(a, p) ==
    /\ row[p] # None
    /\ Begin(a, "delete", p, "deleting")
    /\ UNCHANGED <<stores, disk, cache, flight, pc, callVars, scan, to, hash, met, restarts>>

DeleteRow(a, p) ==
    /\ row[p] # None
    /\ row' = [row EXCEPT ![p] = None]
    /\ home' = [home EXCEPT ![p] = p]
    /\ doubtful' = doubtful \ {p}
    /\ met' = met \union Writing(p)
    /\ Begin(a, "delete", p, "deleting")
    /\ UNCHANGED <<archive, recorded, disk, cache, flight, pc, callVars, scan, to, hash, restarts>>

\* cleanupBinary, by the plugin's name: what fails is only logged.
DeleteArchive(a) ==
    /\ apc[a] = "deleting"
    /\ \/ archive' = [archive EXCEPT ![on[a]] = None]
       \/ archive' = archive
    /\ AdminGoto(a, "removing")
    /\ UNCHANGED <<row, home, recorded, doubtful, disk, cache, flight, pc, callVars, scan,
                   op, on, to, hash, met, restarts>>

DeleteDirectory(a) ==
    /\ apc[a] = "removing"
    /\ RemoveAll(on[a])
    /\ AdminGoto(a, "forgetting")
    /\ UNCHANGED <<stores, cache, flight, pc, callVars, scan, op, on, to, hash, met, restarts>>

\* A mutant: the entry goes, its bytes stay.
ForgetEntryOnly(a) ==
    /\ apc[a] = "forgetting"
    /\ entry' = [entry EXCEPT ![on[a]] = 0]
    /\ recent' = recent \ {on[a]}
    /\ AdminGoto(a, "over")
    /\ UNCHANGED <<stores, disk, total, flight, pc, callVars, scan, op, on, to, hash, met, restarts>>

ForgetDeleted(a) ==
    /\ apc[a] = "forgetting"
    /\ Account(on[a], 0)
    /\ recent' = recent \ {on[a]}
    /\ AdminGoto(a, "over")
    /\ UNCHANGED <<stores, disk, flight, pc, callVars, scan, op, on, to, hash, met, restarts>>

-------------------------------------------------------------------------------
(* A crash: memory is gone, whatever step everyone was at; push is a process of
   its own.  The new process scans the disk. *)
Restart ==
    /\ restarts < MaxRestarts
    /\ restarts' = restarts + 1
    /\ entry' = [d \in Dirs |-> 0]
    /\ recent' = {}
    /\ total' = 0
    /\ flight' = [p \in Plugins |-> None]
    /\ pc' = [t \in Tasks |-> IF t = Warm THEN "scan"
                              ELSE IF pc[t] \in {"new"} \union CallEnds THEN pc[t]
                              ELSE "failed"]
    /\ scan' = OnDisk
    /\ apc' = [a \in Admins |-> IF apc[a] = "idle" \/ op[a] \in {"push", "force"}
                                THEN apc[a] ELSE "over"]
    /\ UNCHANGED <<stores, disk, callVars, op, on, to, hash, met>>

-------------------------------------------------------------------------------
EvictStep(t) == NextVictim(t) \/ EvictionEnds(t) \/ Remove(t) \/ Forget(t)

CallStep(g) ==
    \/ Stat(g) \/ Touch(g) \/ Join(g) \/ Restat(g) \/ Retouch(g)
    \/ Download(g) \/ FlightFails(g) \/ Verify(g) \/ Clear(g) \/ Rename(g)
    \/ Measure(g) \/ Add(g) \/ Execute(g) \/ EvictStep(g)

WarmStep ==
    \/ \E d \in Dirs : WarmMeasure(d)
    \/ WarmAdd \/ WarmEvict \/ EvictStep(Warm)

AdminBegins(a) ==
    \E p \in Plugins :
        \/ \E what \in {"create", "update"}, d \in Dirs : BeginWrite(a, what, p, d)
        \/ \E what \in {"push", "force"}, c \in Contents : BeginPush(a, what, p, c)
        \/ DeleteRow(a, p)

AdminStep(a) ==
    \/ HashArchive(a) \/ WriteRow(a) \/ AdminFails(a) \/ Upload(a)
    \/ DeleteArchive(a) \/ DeleteDirectory(a) \/ ForgetDeleted(a)

\* Nobody is at work, and nobody has to come.
Quiet ==
    /\ \A t \in Tasks : pc[t] \in CallEnds \union {"new", "idle"}
    /\ \A a \in Admins : apc[a] \in {"idle", "over"}

Stopped == Quiet /\ UNCHANGED vars

Next ==
    \/ \E g \in Calls : CallStep(g) \/ \E p \in Plugins : ReadRow(g, p)
    \/ WarmStep
    \/ \E d \in Dirs : Age(d)
    \/ \E a \in Admins : AdminBegins(a) \/ AdminStep(a)
    \/ Restart
    \/ Stopped

Spec == Init /\ [][Next]_vars

-------------------------------------------------------------------------------
(* Properties *)

TypeOK ==
    /\ row \in [Plugins -> Contents \union {Unchecked, None}]
    /\ home \in [Plugins -> Dirs]
    /\ archive \in [Plugins -> Contents \union {None}]
    /\ recorded \in [Dirs -> SUBSET (Contents \union {Unchecked})]
    /\ doubtful \subseteq Plugins
    /\ disk \in [Dirs -> Contents \union {None}]
    /\ entry \in [Dirs -> Nat]
    /\ recent \subseteq {d \in Dirs : entry[d] > 0}
    /\ total \in Int
    /\ flight \in [Plugins -> Calls \union {None}]
    /\ pc \in [Tasks -> TaskState]
    /\ at \in [Calls -> Plugins \union {None}]
    /\ dir \in [Tasks -> Dirs \union {None}]
    /\ expected \in [Calls -> Contents \union {Unchecked, None}]
    /\ content \in [Tasks -> Contents \union {None}]
    /\ victim \in [Tasks -> Dirs \union {None}]
    /\ scan \subseteq Dirs
    /\ apc \in [Admins -> AdminState]
    /\ op \in [Admins -> Operations]
    /\ on \in [Admins -> Plugins \union {None}]
    /\ to \in [Admins -> Dirs \union {None}]
    /\ hash \in [Admins -> Contents \union {None}]
    /\ met \subseteq Admins
    /\ restarts \in 0..MaxRestarts

\* s was registered with a command in d, or one was that takes anything.
Known(s, d) == recorded[d] \cap {s, Unchecked} # {}

\* Nothing reaches a directory, and nothing is executed there, that was never
\* registered with a command in that directory, however often the archive is replaced
\* while it is being downloaded: the archive is verified before it is unpacked.  It
\* is otherwise where a row without a checksum has its command.
OnlyRegisteredRuns ==
    /\ \A d \in OnDisk : Known(disk[d], d)
    /\ \A g \in Calls : pc[g] = "ran" => Known(content[g], dir[g])

\* Every byte that an entry accounts for.
Accounted == UNION {{d} \X (1..entry[d]) : d \in Dirs}

\* c.total counts the bytes of the entries, each once, at every moment, although four
\* operations in as many goroutines add to it and subtract from it.
TotalExact == total = Cardinality(Accounted)

\* A plugin is downloaded and unpacked by one call at a time...
OneFlight ==
    \A g \in Calls : pc[g] \in Leading => flight[at[g]] = g

\* ...and whoever waits, waits on a call that is still at work.
NoFollowerStranded ==
    \A g \in Calls : pc[g] = "follow" =>
        /\ flight[at[g]] # None
        /\ pc[flight[at[g]]] \in Leading /\ at[flight[at[g]]] = at[g]

\* What the three hold by: a flight has a leader that is on it,
FlightsTended ==
    \A p \in Plugins : flight[p] # None =>
        pc[flight[p]] \in Leading /\ at[flight[p]] = p

\* what a call goes by was registered once, for where it unpacks,
Registered ==
    /\ \A p \in Plugins : row[p] # None => row[p] \in recorded[home[p]]
    /\ \A g \in Calls : pc[g] \notin {"new", "failed"} => expected[g] \in recorded[dir[g]]
    /\ \A g \in Calls : pc[g] \in {"clear", "rename"} => expected[g] \in {Unchecked, content[g]}

\* and everyone at work knows what on.
AtWork ==
    /\ \A g \in Calls : pc[g] # "new" => at[g] \in Plugins /\ dir[g] \in Dirs
    /\ \A t \in Tasks :
          /\ pc[t] = "add" => dir[t] \in Dirs /\ content[t] \in Contents
          /\ pc[t] \in {"remove", "forget"} => victim[t] \in Dirs
    /\ \A a \in Admins :
          /\ apc[a] # "idle" => on[a] \in Plugins
          /\ apc[a] \in {"hashing", "writing"} => to[a] \in Dirs
          /\ apc[a] \in {"writing", "uploading"} => hash[a] \in Contents

\* The inductive invariant of calls, flights and archives.
IInv ==
    /\ TypeOK
    /\ AtWork
    /\ Registered
    /\ OnlyRegisteredRuns
    /\ OneFlight
    /\ FlightsTended
    /\ NoFollowerStranded

\* "A registered plugin always has its artifact" (README.md): Create and Update
\* refuse without an archive, and Delete removes the row before it removes the
\* archive, wherever it fails or is cut off, and whatever is created, updated, pushed
\* and deleted meanwhile.  The one exception is a row written by a Create or an Update
\* that met a Delete of the plugin, half done, between hashing and writing.
RegisteredHasArtifact ==
    \A p \in Plugins \ doubtful : row[p] \in Contents => archive[p] # None

\* What it holds by: the archive that was hashed is there until the row is written,
\* and nobody deletes it, unless they have met;
HashedIsThere ==
    \A a \in Admins \ met : apc[a] = "writing" => archive[on[a]] # None /\ ~ Deleting(on[a])

\* and the archive of a row that is there is not about to go.
DeletedIsAway ==
    \A p \in Plugins \ doubtful : row[p] \in Contents => ~ Deleting(p)

\* The inductive invariant of administrative operations.
AdminInv == HashedIsThere /\ DeletedIsAway /\ RegisteredHasArtifact

-------------------------------------------------------------------------------
\* Not kept by the code.  No run checks these: as an invariant or a property of a
\* configuration, each is refuted at once (README, section 6).

\* "A registered plugin always has its artifact" (README.md), without exception.
EveryRowHasArtifact == \A p \in Plugins : row[p] # None => archive[p] # None

\* "Concurrent requests for the same plugin are collapsed into a single download"
\* (ensureBinary), before the directory is removed and replaced: one call at a time
\* unpacks into a directory.
OneUnpacksADirectory ==
    \A g, h \in Calls :
        {pc[g], pc[h]} \subseteq {"clear", "rename"} /\ dir[g] = dir[h] => g = h

\* "Entries younger than minAge are skipped" (evict): an eviction removes no
\* directory that is recent by then.
RecentIsKept ==
    [][\A t \in Tasks : pc[t] = "remove" /\ pc'[t] = "forget" /\ disk' # disk
                            => victim[t] \notin recent]_vars

\* "Bytes currently occupied by unpacked plugins on local disk" (the help of
\* plugin_cache_bytes), when nobody is at work on the cache.
GaugeTellsDisk ==
    Quiet => total = SumFunction([d \in Dirs |-> IF disk[d] = None THEN 0 ELSE disk[d]])

\* "In-flight GenerateCode executions that already obtained a Plugin reference
\* will complete fully" (Core.DeletePlugin).
InFlightCompletes == \A g \in Calls : pc[g] # "missing"

\* "Its checksum recorded at registration is verified ... before anything is ever
\* executed" (ensureBinary): what runs is what the row of the call says.
RunsWhatItsRowSays == \A g \in Calls : pc[g] = "ran" => content[g] = expected[g]

\* "The archive in object storage is left alone" (Client.DeletePlugin).
DeleteLeavesArchive ==
    [][\A a \in Admins : op[a] = "delete" => archive' = archive \/ apc'[a] = apc[a]]_vars
===============================================================================
