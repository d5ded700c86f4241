------------------------------- MODULE Catalogue -------------------------------
(* The administration of plugins, from the SDK to the table: sdk/client.go and  *)
(* sdk/retry.go, which repeat a call; api/api.go, plugins_list.go and           *)
(* pagetoken.go; core/core.go with the licence's limit; and the statements of   *)
(* adapters/registry/registry.go.  A call makes attempts; an attempt is a       *)
(* handler on the server, which goes on when its client has lost it and made    *)
(* another.  A plugin is a number: the order of (group, name, version).         *)
(* Left out: what a row holds (an update changes a row that is there), archives *)
(* and directories (module PluginStore), and filters, which narrow the table.   *)
EXTENDS Integers, Sequences, FiniteSets

CONSTANTS
    Calls,
    Plugins,
    Limit,              \* MaxPlugins of the licence, -1 for none
    PageSize,           \* of a call that asks for none
    MaxRetries,         \* WithMaxRetries
    None                \* no plugin, no result

ASSUME CatalogueAssumption ==
    /\ Plugins \subseteq Nat \ {0} /\ IsFiniteSet(Plugins)
    /\ IsFiniteSet(Calls)
    /\ Limit \in Nat \union {-1}
    /\ PageSize \in Nat \ {0} /\ MaxRetries \in Nat
    /\ None \notin Plugins

VARIABLES
    rows,               \* the table
    op, plugin,         \* what a call is about
    pc,                 \* where a call is
    attempt,            \* the attempt it is at
    at,                 \* where the handler of an attempt is
    answer,             \* what it has answered
    token, listed,      \* a listing: its page token and what it has so far
    result,             \* what a call has returned
    overlap,            \* history: most creations between check and INSERT at once
    effects,            \* history: rows a call has inserted or deleted
    forsaken,           \* history: attempts their client did not hear the end of
    always, ever        \* history: plugins there at all times, at some time of a call

listing == <<token, listed>>
history == <<overlap, effects, forsaken, always, ever>>
vars == <<rows, op, plugin, pc, attempt, at, answer, listing, result, history>>

Ops == {"create", "update", "delete", "list"}
Attempts == 1..(MaxRetries + 1)

\* ErrorToStatus: the gRPC code of a domain error.
Status == [OK |-> "OK", ErrInvalid |-> "InvalidArgument", ErrMaxPluginsExceeded |-> "ResourceExhausted",
           ErrStorageUnavailable |-> "Unavailable", ErrBinaryNotUploaded |-> "FailedPrecondition",
           ErrAlreadyExists |-> "AlreadyExists", ErrNotFound |-> "NotFound", Other |-> "Internal"]

Codes == {Status[e] : e \in DOMAIN Status} \union {"DeadlineExceeded"}

\* A mutant: whatever may be the server's fault is repeated.
IsTransientInternal(code) == code \in {"Unavailable", "Internal"}

IsTransient(code) == code = "Unavailable"

\* The keyset comparison of Registry.List.
After(key) == {p \in rows : p > key}

\* ORDER BY the unique key, LIMIT n.
First(n, S) == {p \in S : Cardinality({q \in S : q < p}) < n}

Init ==
    /\ rows \in {S \in SUBSET Plugins : Limit >= 0 => Cardinality(S) <= Limit}
    /\ op = [c \in Calls |-> "list"]
    /\ plugin = [c \in Calls |-> None]
    /\ pc = [c \in Calls |-> "idle"]
    /\ attempt = [c \in Calls |-> 1]
    /\ at = [c \in Calls |-> [a \in Attempts |-> "none"]]
    /\ answer = [c \in Calls |-> [a \in Attempts |-> "OK"]]
    /\ token = [c \in Calls |-> 0]
    /\ listed = [c \in Calls |-> <<>>]
    /\ result = [c \in Calls |-> "none"]
    /\ overlap = 0
    /\ effects = [c \in Calls |-> 0]
    /\ forsaken = {}
    /\ always = [c \in Calls |-> {}]
    /\ ever = [c \in Calls |-> {}]

-------------------------------------------------------------------------------
(* The client: sdk *)

Running(c) == pc[c] \in {"calling", "backoff"}

\* A method of the client: the first attempt goes out.
Begin(c, what, p) ==
    /\ pc[c] = "idle"
    /\ pc' = [pc EXCEPT ![c] = "calling"]
    /\ op' = [op EXCEPT ![c] = what]
    /\ plugin' = [plugin EXCEPT ![c] = p]
    /\ at' = [at EXCEPT ![c][1] = "arrived"]
    /\ always' = [always EXCEPT ![c] = rows]
    /\ ever' = [ever EXCEPT ![c] = rows]
    /\ UNCHANGED <<rows, attempt, answer, listing, result, overlap, effects, forsaken>>

Return(c, code) ==
    /\ pc' = [pc EXCEPT ![c] = "returned"]
    /\ result' = [result EXCEPT ![c] = code]

\* retryUnaryInterceptor has an error: another attempt, or the error.
Conclude(c, code) ==
    IF IsTransient(code) /\ attempt[c] <= MaxRetries
    THEN pc' = [pc EXCEPT ![c] = "backoff"] /\ UNCHANGED result
    ELSE Return(c, code)

\* The answer arrives, of any method but ListPlugins, or an error of that.
Receive(c) ==
    LET a == attempt[c] IN
    /\ pc[c] = "calling" /\ at[c][a] = "answered"
    /\ op[c] = "list" => answer[c][a] # "OK"
    /\ Conclude(c, answer[c][a])
    /\ at' = [at EXCEPT ![c][a] = "none"]
    /\ answer' = [answer EXCEPT ![c][a] = "OK"]
    /\ UNCHANGED <<rows, op, plugin, attempt, listing, history>>

\* The client hears no more of an attempt.
Abandon(c, a) ==
    /\ at' = IF op[c] \in {"list", "update"} \/ at[c][a] = "answered"
             THEN [at EXCEPT ![c][a] = "none"] ELSE at
    /\ answer' = [answer EXCEPT ![c][a] = "OK"]

\* The connection breaks, before or after the handler has done anything: the
\* handler, if there is one, goes on until it notices.  That of a listing or an
\* update leaves the table as it is and is forgotten, as is an answer on its way.
Lose(c) ==
    LET a == attempt[c] IN
    /\ pc[c] = "calling"
    /\ Conclude(c, "Unavailable")
    /\ Abandon(c, a)
    /\ forsaken' = forsaken \union {<<c, a>>}
    /\ UNCHANGED <<rows, op, plugin, attempt, listing, overlap, effects, always, ever>>

\* After backoffDelay.
Retry(c) ==
    LET a == attempt[c] + 1 IN
    /\ pc[c] = "backoff"
    /\ pc' = [pc EXCEPT ![c] = "calling"]
    /\ attempt' = [attempt EXCEPT ![c] = a]
    /\ at' = [at EXCEPT ![c][a] = "arrived"]
    /\ UNCHANGED <<rows, op, plugin, answer, listing, result, history>>

\* withTimeout: one deadline for the attempts and the pages together.
Expire(c) ==
    LET a == attempt[c] IN
    /\ Running(c)
    /\ Return(c, "DeadlineExceeded")
    /\ Abandon(c, a)
    /\ forsaken' = IF pc[c] = "calling" THEN forsaken \union {<<c, a>>} ELSE forsaken
    /\ UNCHANGED <<rows, op, plugin, attempt, listing, overlap, effects, always, ever>>

-------------------------------------------------------------------------------
(* The handlers: api, core, registry *)

\* The answer of a forsaken attempt is sent to nobody.
Answer(c, a, err) ==
    IF <<c, a>> \in forsaken
    THEN at' = [at EXCEPT ![c][a] = "none"] /\ UNCHANGED answer
    ELSE /\ at' = [at EXCEPT ![c][a] = "answered"]
         /\ answer' = [answer EXCEPT ![c][a] = Status[err]]

\* Nothing in the table has changed.
Refuse(c, a, err) ==
    /\ Answer(c, a, err)
    /\ UNCHANGED <<rows, op, plugin, pc, attempt, listing, result, history>>

\* validateGroupName, validateVersion, ValidateConfig, an empty update mask.  A
\* deletion checks nothing.
Invalid(c, a) ==
    /\ at[c][a] = "arrived" /\ op[c] \in {"create", "update"}
    /\ Refuse(c, a, "ErrInvalid")

\* The database does not answer, or not before the handler's context is over: that
\* of a forsaken attempt may end it at any statement.
Fails(c, a) ==
    /\ at[c][a] \in {"arrived", "checked"}
    /\ Refuse(c, a, "Other")

Creating == {x \in Calls \X Attempts : at[x[1]][x[2]] = "checked"}

\* A mutant: one plugin more than the licence allows.
OverLimitByOne == Limit >= 0 /\ Cardinality(rows) > Limit

OverLimit == Limit >= 0 /\ Cardinality(rows) >= Limit

\* CreatePlugin lists the table without a page.
CheckLimit(c, a) ==
    /\ at[c][a] = "arrived" /\ op[c] = "create"
    /\ ~OverLimit
    /\ at' = [at EXCEPT ![c][a] = "checked"]
    /\ overlap' = IF Cardinality(Creating) + 1 > overlap THEN Cardinality(Creating) + 1 ELSE overlap
    /\ UNCHANGED <<rows, op, plugin, pc, attempt, answer, listing, result, effects,
                   forsaken, always, ever>>

LimitExceeded(c, a) ==
    /\ at[c][a] = "arrived" /\ op[c] = "create"
    /\ OverLimit
    /\ Refuse(c, a, "ErrMaxPluginsExceeded")

\* attachArchiveChecksum cannot reach the archive or finds none.
NoArchive(c, a) ==
    /\ \/ at[c][a] = "checked"
       \/ at[c][a] = "arrived" /\ op[c] = "update"
    /\ \E err \in {"ErrStorageUnavailable", "ErrBinaryNotUploaded"} : Refuse(c, a, err)

\* The bookkeeping of a change to the table.
Changed(c) ==
    /\ effects' = [effects EXCEPT ![c] = @ + 1]
    /\ always' = [d \in Calls |-> IF Running(d) THEN always[d] \intersect rows' ELSE always[d]]
    /\ ever' = [d \in Calls |-> IF Running(d) THEN ever[d] \union rows' ELSE ever[d]]

\* A mutant: ON CONFLICT DO NOTHING.
InsertQuietly(c, a) ==
    /\ at[c][a] = "checked"
    /\ rows' = rows \union {plugin[c]}
    /\ IF plugin[c] \in rows THEN UNCHANGED <<effects, always, ever>> ELSE Changed(c)
    /\ Answer(c, a, "OK")
    /\ UNCHANGED <<op, plugin, pc, attempt, listing, result, overlap, forsaken>>

Insert(c, a) ==
    /\ at[c][a] = "checked" /\ plugin[c] \notin rows
    /\ rows' = rows \union {plugin[c]}
    /\ Changed(c)
    /\ \E err \in {"OK", "Other"} : Answer(c, a, err)
    /\ UNCHANGED <<op, plugin, pc, attempt, listing, result, overlap, forsaken>>

Conflict(c, a) ==
    /\ at[c][a] = "checked" /\ plugin[c] \in rows
    /\ Refuse(c, a, "ErrAlreadyExists")

Update(c, a) ==
    /\ at[c][a] = "arrived" /\ op[c] = "update"
    /\ Refuse(c, a, IF plugin[c] \in rows THEN "OK" ELSE "ErrNotFound")

\* The row goes; what cleanupBinary then cannot remove is only logged.
Delete(c, a) ==
    /\ at[c][a] = "arrived" /\ op[c] = "delete" /\ plugin[c] \in rows
    /\ rows' = rows \ {plugin[c]}
    /\ Changed(c)
    /\ \E err \in {"OK", "Other"} : Answer(c, a, err)
    /\ UNCHANGED <<op, plugin, pc, attempt, listing, result, overlap, forsaken>>

Missing(c, a) ==
    /\ at[c][a] = "arrived" /\ op[c] = "delete" /\ plugin[c] \notin rows
    /\ Refuse(c, a, "ErrNotFound")

\* A mutant: the token names the first row of the next page.
ContinuationNext(probe) ==
    IF Cardinality(probe) > PageSize THEN CHOOSE p \in probe \ First(PageSize, probe) : TRUE ELSE 0

\* ListPlugins asks for one row more than a page: if it comes, the last row of
\* the page is where the next one begins.
Continuation(probe) ==
    IF Cardinality(probe) > PageSize
    THEN CHOOSE p \in First(PageSize, probe) : \A q \in First(PageSize, probe) : q <= p
    ELSE 0

\* A page is read and taken in by the client, which asks for the next one with
\* attempts of its own.
Page(c) ==
    LET a == attempt[c]
        probe == First(PageSize + 1, After(token[c]))
        next == Continuation(probe)
    IN /\ pc[c] = "calling" /\ op[c] = "list" /\ at[c][a] = "arrived"
       /\ listed' = [listed EXCEPT ![c] = Append(@, First(PageSize, probe))]
       /\ token' = [token EXCEPT ![c] = next]
       /\ attempt' = [attempt EXCEPT ![c] = 1]
       /\ at' = [at EXCEPT ![c] = [b \in Attempts |-> IF next # 0 /\ b = 1 THEN "arrived" ELSE "none"]]
       /\ IF next = 0 THEN Return(c, "OK") ELSE UNCHANGED <<pc, result>>
       /\ forsaken' = {x \in forsaken : x[1] # c}
       /\ UNCHANGED <<rows, op, plugin, answer, overlap, effects, always, ever>>

-------------------------------------------------------------------------------
HandlerStep(c, a) ==
    \/ Invalid(c, a) \/ Fails(c, a)
    \/ CheckLimit(c, a) \/ LimitExceeded(c, a)
    \/ NoArchive(c, a)
    \/ Insert(c, a) \/ Conflict(c, a)
    \/ Update(c, a)
    \/ Delete(c, a) \/ Missing(c, a)

Start(c) == Begin(c, "list", None) \/ \E what \in Ops \ {"list"}, p \in Plugins : Begin(c, what, p)

ClientStep(c) == Receive(c) \/ Retry(c) \/ Page(c)

Over ==
    /\ \A c \in Calls : /\ pc[c] = "returned"
                        /\ \A a \in Attempts : at[c][a] \in {"none", "answered"}
    /\ UNCHANGED vars

Next ==
    \/ \E c \in Calls : Start(c) \/ ClientStep(c) \/ Lose(c) \/ Expire(c)
    \/ \E c \in Calls, a \in Attempts : HandlerStep(c, a)
    \/ Over

Spec == Init /\ [][Next]_vars

-------------------------------------------------------------------------------
(* Properties *)

TypeOK ==
    /\ rows \subseteq Plugins
    /\ op \in [Calls -> Ops]
    /\ plugin \in [Calls -> Plugins \union {None}]
    /\ pc \in [Calls -> {"idle", "calling", "backoff", "returned"}]
    /\ attempt \in [Calls -> Attempts]
    /\ at \in [Calls -> [Attempts -> {"none", "arrived", "checked", "answered"}]]
    /\ answer \in [Calls -> [Attempts -> Codes]]
    /\ token \in [Calls -> Plugins \union {0}]
    /\ listed \in [Calls -> Seq(SUBSET Plugins)]
    /\ result \in [Calls -> Codes \union {"none"}]
    /\ overlap \in Nat
    /\ effects \in [Calls -> Nat]
    /\ forsaken \subseteq Calls \X Attempts
    /\ always \in [Calls -> SUBSET Plugins] /\ ever \in [Calls -> SUBSET Plugins]

\* The licence's limit is checked before the INSERT and not with it: it is
\* exceeded by as many plugins as there were creations between the two at once,
\* less one, and so not at all by creations that do not overlap.
LimitOvershoot ==
    Limit >= 0 =>
        Cardinality(rows) <= (IF overlap > 1 THEN Limit + overlap - 1 ELSE Limit)

Got(c) == UNION {listed[c][i] : i \in DOMAIN listed[c]}

Ascending(pages) ==
    \A i, j \in DOMAIN pages : i < j => \A p \in pages[i], q \in pages[j] : p < q

\* "This walks every page before returning, so the caller sees one list"
\* (sdk/client.go): in order, nothing twice, everything that was there all the
\* time, and nothing that never was, whatever is created and deleted between
\* two pages and however often a page is asked for again.
ListingSound ==
    \A c \in Calls : op[c] = "list" /\ result[c] = "OK" =>
        /\ Ascending(listed[c])
        /\ always[c] \subseteq Got(c)
        /\ Got(c) \subseteq ever[c]

\* What a call is told by a code is true: OK, that it has done it, in one of its
\* attempts; a conflict, or nothing there, about some moment of the call.
Truth(c, code) ==
    /\ code = "OK" /\ op[c] \in {"create", "delete"} => effects[c] > 0
    /\ code = "OK" /\ op[c] = "update" => plugin[c] \in ever[c]
    /\ code = "AlreadyExists" => plugin[c] \in ever[c]
    /\ code = "NotFound" => plugin[c] \notin always[c]

\* A call that succeeds has done what it was for; one that is told of a conflict or
\* of nothing there was told the truth, although the table changes under it and an
\* earlier attempt of it may still be at work.
AnswersTrue == \A c \in Calls : Truth(c, result[c])

\* An attempt that the service itself answers with UNAVAILABLE has changed nothing,
\* and no other error is repeated: a call meets its own effect, or has it twice,
\* only if the connection to an earlier attempt broke.
OwnEffectOnlyAfterLoss ==
    \A c \in Calls :
        \/ effects[c] > 1
        \/ effects[c] = 1 /\ result[c] \in {"AlreadyExists", "NotFound"}
        => \E a \in Attempts : <<c, a>> \in forsaken

\* The inductive invariant behind LimitOvershoot: the creations that have passed
\* the check count as if they had inserted.
Tables ==
    /\ IsFiniteSet(rows)
    /\ at \in [Calls -> [Attempts -> {"none", "arrived", "checked", "answered"}]]
    /\ overlap \in Nat

Reserved ==
    Limit >= 0 =>
        Cardinality(rows) + Cardinality(Creating)
            <= Limit + (IF overlap > 1 THEN overlap - 1 ELSE 0)

IInv == Tables /\ Reserved

\* The invariant behind the other three.  A call that runs has seen the table, and one
\* that waits has an attempt left.
Tracked ==
    \A c \in Calls :
        /\ Running(c) => always[c] \subseteq rows /\ rows \subseteq ever[c]
        /\ pc[c] = "backoff" => attempt[c] <= MaxRetries
        /\ pc[c] # "returned" <=> result[c] = "none"

\* A handler is that of the attempt its call waits for, or forsaken.
InHand ==
    \A c \in Calls, a \in Attempts :
        /\ at[c][a] # "none" => <<c, a>> \in forsaken \/ (pc[c] = "calling" /\ a = attempt[c])
        /\ <<c, a>> \in forsaken =>
               a <= attempt[c] /\ (pc[c] = "calling" => a # attempt[c]) /\ at[c][a] # "answered"
        /\ at[c][a] = "checked" => op[c] = "create"

\* What is on its way to a client is as true as what has arrived.
AnswersUnderWay ==
    \A c \in Calls, a \in Attempts : at[c][a] = "answered" => Truth(c, answer[c][a])

\* A call none of whose attempts is forsaken has had no effect but one that it is
\* told of, by an answer that ends it.
Settled(c) ==
    LET final == {"OK", "Internal"} IN
    \/ pc[c] = "calling" /\ at[c][attempt[c]] = "answered" /\ answer[c][attempt[c]] \in final
    \/ pc[c] = "returned" /\ result[c] \in final

EffectsTold ==
    \A c \in Calls :
        /\ pc[c] = "idle" => \A a \in Attempts : <<c, a>> \notin forsaken
        /\ pc[c] = "idle" \/ op[c] \in {"list", "update"} => effects[c] = 0
        /\ pc[c] # "idle" /\ op[c] # "list" => plugin[c] \in Plugins
        /\ effects[c] = 0 \/ (effects[c] = 1 /\ Settled(c)) \/ \E a \in Attempts : <<c, a>> \in forsaken

\* A listing under way has everything up to its token that was there all the time.
ListedSoFar ==
    \A c \in Calls :
        /\ pc[c] = "idle" => attempt[c] = 1 /\ listed[c] = <<>> /\ token[c] = 0
        /\ op[c] = "list" /\ Running(c) =>
               /\ Ascending(listed[c])
               /\ \A p \in Got(c) : p <= token[c]
               /\ {p \in always[c] : p <= token[c]} \subseteq Got(c)
               /\ Got(c) \subseteq ever[c]

CallsInv ==
    /\ TypeOK
    /\ Tracked /\ InHand /\ AnswersUnderWay /\ EffectsTold /\ ListedSoFar
    /\ AnswersTrue /\ ListingSound

-------------------------------------------------------------------------------
(* Not kept by the code *)

\* "MaxPlugins returns the maximum number of registered plugins" (gate.go:56).
LimitKept == Limit >= 0 => Cardinality(rows) <= Limit

\* "Transient codes: UNAVAILABLE, DEADLINE_EXCEEDED, RESOURCE_EXHAUSTED" (retry.go:16):
\* isTransient knows the first only.
RefusalsAreRepeated ==
    \A c \in Calls : result[c] = "ResourceExhausted" => attempt[c] = MaxRetries + 1

\* A plugin somebody was told is deleted stays so, if nobody begins to create it
\* afterwards: a forsaken attempt may still insert it.
DeletedStaysDeleted ==
    [][\A c \in Calls, a \in Attempts :
           Insert(c, a) => ~\E d \in Calls : op[d] = "delete" /\ plugin[d] = plugin[c]
                                             /\ result[d] = "OK" /\ result[c] # "none"]_vars
================================================================================
