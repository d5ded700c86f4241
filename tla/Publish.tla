-------------------------------- MODULE Publish --------------------------------
(* The commands that publish plugins: cmd/easyp-svc/build.go, pack.go, push.go, *)
(* register.go and progress.go.  One operator runs one command after another;   *)
(* a command works through the versions its scan found, several at once in an   *)
(* errgroup, and may be interrupted (its context is cancelled) or killed.       *)
(* Left out: filters and skip entries, which narrow the scan, dry runs, which   *)
(* end after it, the drawing of progress, and what a plugin is built from.      *)
EXTENDS Naturals, FiniteSets

CONSTANTS
    Versions,           \* plugin versions of the registry tree
    Parallel            \* the values of --parallel in use

ASSUME PublishAssumption ==
    /\ IsFiniteSet(Versions)
    /\ Parallel \subseteq Nat /\ Parallel # {} /\ Parallel # {0}

VARIABLES
    dir,                \* {output}/{version}: the entrypoint, and what it comes with
    temp,               \* the temporary file that pack or push is writing
    file,               \* the archive that pack wrote
    object,             \* the archive in storage
    row,                \* the versions that are registered
    cmd,                \* the command and its flags
    item,               \* where each version is in this command
    tally,              \* batchTracker, buildTracker
    cancelled,          \* the command's context is over
    aborted,            \* the group's context is over
    groupErr,           \* what group.Wait will return is not nil
    tried,              \* history: versions begun before the group was aborted
    exit                \* of the last command: "ok", "error", none while one runs

disk == <<dir, temp, file, object, row>>
flags == <<cancelled, aborted, groupErr>>
publishVars == <<disk, cmd, item, tally, flags, tried, exit>>

\* "partial" is what an interrupted export leaves: the entrypoint without its
\* sidecar files.  "cut" is an archive without its end.
Contents == {"none", "partial", "whole", "cut"}

Options == [kind : {"build", "pack", "push", "register"}, force : BOOLEAN,
            goOn : BOOLEAN,                     \* --keep-going, not --fail-on-error
            packed : BOOLEAN, parallel : Parallel]
NoCommand == [kind |-> "none", force |-> FALSE, goOn |-> FALSE, packed |-> FALSE,
              parallel |-> CHOOSE n \in Parallel : TRUE]

ItemOver(v) == item[v] \in {"out", "ok", "skipped", "failed", "unstarted"}
Working == {v \in Versions : item[v] \in {"working", "exporting", "archiving"}}
Scanned == {v \in Versions : item[v] # "out"}

PublishInit ==
    /\ dir = [v \in Versions |-> "none"]
    /\ temp = [v \in Versions |-> "none"]
    /\ file = [v \in Versions |-> "none"]
    /\ object = [v \in Versions |-> "none"]
    /\ row = {}
    /\ cmd = NoCommand
    /\ item = [v \in Versions |-> "out"]
    /\ tally = [ok |-> 0, skipped |-> 0, failed |-> 0]
    /\ cancelled = FALSE /\ aborted = FALSE /\ groupErr = FALSE
    /\ tried = {}
    /\ exit = "ok"

-------------------------------------------------------------------------------
(* A command begins *)

\* splitCached: a regular file named plugin is a finished build.
Cached(v) == dir[v] # "none"

\* scanBuildJobs, scanPlugins, or scanPluginTree with the archive's name.
Scan(c) ==
    CASE c.kind = "build" -> {v \in Versions : c.force \/ ~Cached(v)}
      [] c.kind # "build" /\ ~c.packed -> {v \in Versions : Cached(v)}
      [] c.kind # "build" /\ c.packed -> {v \in Versions : file[v] # "none"}

\* Flags a command does not have are not chosen.
Sensible(c) ==
    /\ c.kind = "build" => ~c.packed
    /\ c.kind = "pack" => ~c.packed /\ ~c.goOn /\ c.parallel = NoCommand.parallel
    /\ c.kind = "push" => ~c.goOn
    /\ c.kind = "register" => ~c.force

BeginCommand(c) ==
    /\ exit # "none" /\ Sensible(c)
    /\ cmd' = c
    /\ item' = [v \in Versions |-> IF v \in Scan(c) THEN "queued" ELSE "out"]
    /\ tally' = [ok |-> 0, skipped |-> 0, failed |-> 0]
    /\ cancelled' = FALSE /\ aborted' = FALSE /\ groupErr' = FALSE
    /\ tried' = {}
    /\ exit' = "none"
    /\ UNCHANGED disk

-------------------------------------------------------------------------------
(* One version *)

\* A mutant: a limit of zero is taken as it is.
SlotsAsGiven == IF cmd.kind = "pack" THEN 1 ELSE cmd.parallel

\* group.SetLimit: "a limit of zero would let errgroup start nothing at all", which
\* push and register see to, and build does not.
Slots ==
    CASE cmd.kind = "pack" -> 1
      [] cmd.kind = "build" -> cmd.parallel
      [] cmd.kind \in {"push", "register"} -> IF cmd.parallel < 1 THEN 1 ELSE cmd.parallel

Turn(v) == exit = "none" /\ item[v] = "queued" /\ Cardinality(Working) < Slots

\* tracker.finish
Finish(v, how) ==
    /\ item' = [item EXCEPT ![v] = how]
    /\ tally' = [tally EXCEPT ![how] = @ + 1]

Same == UNCHANGED <<cmd, flags, tried, exit>>

\* Nothing asks whether a build should still begin.
StartItem(v) ==
    /\ Turn(v) /\ (cmd.kind = "build" \/ ~aborted)
    /\ ~(cmd.kind = "pack" /\ file[v] # "none" /\ ~cmd.force)
    /\ ~(cmd.kind = "push" /\ object[v] # "none" /\ ~cmd.force)
    /\ item' = [item EXCEPT ![v] = "working"]
    /\ tried' = IF aborted THEN tried ELSE tried \union {v}
    /\ UNCHANGED <<disk, cmd, tally, flags, exit>>

\* "already packed", "already in storage"
Skip(v) ==
    /\ Turn(v) /\ ~aborted /\ ~cmd.force
    /\ \/ cmd.kind = "pack" /\ file[v] # "none"
       \/ cmd.kind = "push" /\ object[v] # "none"
    /\ Finish(v, "skipped")
    /\ tried' = tried \union {v}
    /\ UNCHANGED <<disk, cmd, flags, exit>>

\* The group is over before this version had its turn.
Unstarted(v) ==
    /\ Turn(v) /\ cmd.kind \in {"push", "register"} /\ aborted
    /\ item' = [item EXCEPT ![v] = "unstarted"]
    /\ groupErr' = TRUE
    /\ UNCHANGED <<disk, cmd, tally, cancelled, aborted, tried, exit>>

\* A mutant: whatever error an item ends in is the group's.
AbortsAlways(cause) == TRUE

\* Which errors of an item the group is told of: of a build unless --keep-going, of
\* an upload context.Canceled, of a registration what isContextAbort knows.
Aborts(cause) ==
    CASE cmd.kind = "build" -> ~cmd.goOn
      [] cmd.kind = "pack" -> FALSE
      [] cmd.kind = "push" -> cause = "Canceled"
      [] cmd.kind = "register" -> cause \in {"Canceled", "DeadlineExceeded"} \/ aborted

\* An item has failed.
Fail(v, cause) ==
    /\ Finish(v, "failed")
    /\ aborted' = (aborted \/ Aborts(cause))
    /\ groupErr' = (groupErr \/ Aborts(cause))
    /\ UNCHANGED <<cmd, cancelled, tried, exit>>

-------------------------------------------------------------------------------
(* build *)

Building(v) == cmd.kind = "build" /\ item[v] = "working"

\* docker build --output type=local writes one file after the other.
Export(v) ==
    /\ Building(v) /\ ~aborted
    /\ dir' = [dir EXCEPT ![v] = "partial"]
    /\ item' = [item EXCEPT ![v] = "exporting"]
    /\ UNCHANGED <<temp, file, object, row, tally>> /\ Same

Built(v) ==
    /\ item[v] = "exporting"
    /\ dir' = [dir EXCEPT ![v] = "whole"]
    /\ Finish(v, "ok")
    /\ UNCHANGED <<temp, file, object, row>> /\ Same

\* There is no directory for it, docker fails, or is killed with the group's context.
\* The build.log is left out.
DockerFails(v) ==
    /\ Building(v) \/ item[v] = "exporting"
    /\ Fail(v, "other")
    /\ UNCHANGED disk

\* docker succeeds and has written no entrypoint: normalizeOutput looks whether
\* there is one.
NoEntrypoint(v) ==
    /\ Building(v) /\ ~aborted
    /\ IF Cached(v) THEN Finish(v, "ok") /\ Same ELSE Fail(v, "other")
    /\ UNCHANGED disk

-------------------------------------------------------------------------------
(* pack, push and register *)

Doing(kind, v) == cmd.kind = kind /\ item[v] = "working"

\* Whether what is pushed is an archive that pack has written.
FromFile == cmd.kind = "push" /\ cmd.packed

\* os.CreateTemp, whose name no other run uses, and PackDir, which writes one entry
\* after the other.
Archive(v) ==
    /\ Doing("pack", v) \/ (Doing("push", v) /\ ~FromFile)
    /\ item' = [item EXCEPT ![v] = "archiving"]
    /\ temp' = [temp EXCEPT ![v] = "cut"]
    /\ UNCHANGED <<dir, file, object, row, tally>> /\ Same

\* PackDir has written the archive's end, and the file is closed.
CloseTemp(v) ==
    /\ item[v] = "archiving" /\ temp[v] = "cut"
    /\ temp' = [temp EXCEPT ![v] = dir[v]]
    /\ UNCHANGED <<dir, file, object, row, item, tally>> /\ Same

\* A mutant: the error of PackDir, or of Close, is not looked at.
PackUnchecked(v) ==
    /\ cmd.kind = "pack" /\ item[v] = "archiving"
    /\ file' = [file EXCEPT ![v] = temp[v]]
    /\ temp' = [temp EXCEPT ![v] = "none"]
    /\ Finish(v, "ok")
    /\ UNCHANGED <<dir, object, row>> /\ Same

\* Chmod and rename of what packPluginDirTo has returned.
Pack(v) ==
    /\ cmd.kind = "pack" /\ item[v] = "archiving" /\ temp[v] # "cut"
    /\ file' = [file EXCEPT ![v] = temp[v]]
    /\ temp' = [temp EXCEPT ![v] = "none"]
    /\ Finish(v, "ok")
    /\ UNCHANGED <<dir, object, row>> /\ Same

\* PutObject: all of the archive or nothing; a temporary file is removed.
Upload(v) ==
    /\ cmd.kind = "push"
    /\ IF FromFile THEN item[v] = "working" ELSE item[v] = "archiving" /\ temp[v] # "cut"
    /\ object' = [object EXCEPT ![v] = IF FromFile THEN file[v] ELSE temp[v]]
    /\ temp' = IF FromFile THEN temp ELSE [temp EXCEPT ![v] = "none"]
    /\ Finish(v, "ok")
    /\ UNCHANGED <<dir, file, row>> /\ Same

Register(v) ==
    /\ Doing("register", v) /\ object[v] # "none" /\ v \notin row
    /\ row' = row \union {v}
    /\ Finish(v, "ok")
    /\ UNCHANGED <<dir, temp, file, object>> /\ Same

\* AlreadyExists
RegisterSkips(v) ==
    /\ Doing("register", v) /\ v \in row
    /\ Finish(v, "skipped")
    /\ UNCHANGED disk /\ Same

\* Whatever else: a disk, a network, the service's limits, its answer lost after the
\* row was written, no archive, the context.  A temporary file is removed.
ItemFails(v) ==
    /\ item[v] \in {"working", "archiving"} /\ cmd.kind # "build"
    /\ temp' = IF item[v] = "archiving" THEN [temp EXCEPT ![v] = "none"] ELSE temp
    /\ row' \in {row, IF cmd.kind = "register" /\ object[v] # "none" THEN row \union {v} ELSE row}
    /\ Fail(v, IF aborted THEN "Canceled" ELSE "other")
    /\ UNCHANGED <<dir, file, object>>

\* The SDK's own deadline for one call passes while it waits to retry: the error is
\* the context's, and not a status.
CallExpires(v) ==
    /\ Doing("register", v)
    /\ Fail(v, "DeadlineExceeded")
    /\ UNCHANGED disk

-------------------------------------------------------------------------------
(* A command ends *)

\* A mutant: only failures that were counted matter.
ExitStatusByTally ==
    IF tally.failed > 0 /\ ~(cmd.kind = "register" /\ cmd.goOn) THEN "error" ELSE "ok"

\* The ends of runPluginsBuild, runPluginsPack, pushAll and registerAll.
ExitStatus ==
    IF \/ cmd.kind \in {"pack", "push", "build"} /\ tally.failed > 0
       \/ cmd.kind = "register" /\ ~cmd.goOn /\ tally.failed > 0
       \/ cmd.kind = "push" /\ cancelled
       \/ cmd.kind \in {"push", "register"} /\ groupErr
       \/ \E v \in Versions : item[v] = "queued"
    THEN "error" ELSE "ok"

\* All are over, or pack has seen that its context is.
End ==
    /\ exit = "none"
    /\ \/ \A v \in Versions : ItemOver(v)
       \/ cmd.kind = "pack" /\ aborted /\ Working = {}
    /\ exit' = ExitStatus
    /\ UNCHANGED <<disk, cmd, item, tally, flags, tried>>

\* checkDocker, a store or a server that cannot be reached.
Refused ==
    /\ exit = "none" /\ \A v \in Versions : item[v] \in {"out", "queued"}
    /\ Scanned # {} /\ cmd.kind # "pack"
    /\ exit' = "error"
    /\ UNCHANGED <<disk, cmd, item, tally, flags, tried>>

\* SIGINT, SIGTERM
Interrupt ==
    /\ exit = "none" /\ ~cancelled
    /\ cancelled' = TRUE /\ aborted' = TRUE
    /\ UNCHANGED <<disk, cmd, item, tally, groupErr, tried, exit>>

\* SIGKILL, a crash of the command: what is on disk stays.  A temporary file does as
\* well, under a name that nothing looks for, and is not followed any further.
Kill ==
    /\ exit = "none"
    /\ exit' = "killed"
    /\ cmd' = NoCommand
    /\ item' = [v \in Versions |-> "out"]
    /\ tally' = [ok |-> 0, skipped |-> 0, failed |-> 0]
    /\ cancelled' = FALSE /\ aborted' = FALSE /\ groupErr' = FALSE
    /\ tried' = {}
    /\ temp' = [v \in Versions |-> "none"]
    /\ UNCHANGED <<dir, file, object, row>>

-------------------------------------------------------------------------------
BuildStep(v) ==
    Export(v) \/ Built(v) \/ DockerFails(v) \/ NoEntrypoint(v)

PublishStep(v) ==
    \/ Archive(v) \/ CloseTemp(v) \/ Pack(v) \/ Upload(v)
    \/ Register(v) \/ RegisterSkips(v) \/ ItemFails(v) \/ CallExpires(v)

Progress ==
    \/ \E v \in Versions :
           StartItem(v) \/ Skip(v) \/ Unstarted(v) \/ BuildStep(v) \/ PublishStep(v)
    \/ End

PublishNext == (\E c \in Options : BeginCommand(c)) \/ Progress \/ Refused \/ Interrupt \/ Kill

\* A step of docker, a disk or a call ends some time: docker with the context of the
\* command, calls by their deadlines.
PublishSpec == PublishInit /\ [][PublishNext]_publishVars /\ WF_publishVars(Progress)

-------------------------------------------------------------------------------
(* Properties *)

PublishTypeOK ==
    /\ dir \in [Versions -> Contents] /\ temp \in [Versions -> Contents]
    /\ file \in [Versions -> Contents]
    /\ object \in [Versions -> Contents]
    /\ row \subseteq Versions /\ tried \subseteq Versions
    /\ cmd \in Options \union {NoCommand}
    /\ item \in [Versions -> {"out", "queued", "working", "exporting", "archiving",
                              "ok", "skipped", "failed", "unstarted"}]
    /\ tally \in [ok : Nat, skipped : Nat, failed : Nat]
    /\ cancelled \in BOOLEAN /\ aborted \in BOOLEAN /\ groupErr \in BOOLEAN
    /\ exit \in {"none", "ok", "error", "killed"}

\* What a command has to have done for a version.
Done(v) ==
    CASE cmd.kind = "build" -> dir[v] # "none"
      [] cmd.kind = "pack" -> file[v] # "none"
      [] cmd.kind = "push" -> object[v] # "none"
      [] cmd.kind = "register" -> v \in row

\* A command that exits without an error has done it for every version it found,
\* however its items, a failure and an interruption fell together: scripts run the
\* next command on that.  "exit with error if any plugin failed registration" can be
\* switched off.
ExitIsTrue ==
    exit = "ok" /\ ~(cmd.kind = "register" /\ cmd.goOn) => \A v \in Scanned : Done(v)

\* The commands that go on after a failure.
GoesOn == cmd.kind \in {"pack", "push"} \/ (cmd.kind = "build" /\ cmd.goOn)

\* "A failed upload must not strand the rest: it is counted and the run continues"
\* (push.go); and so in build with --keep-going, and in pack: a command that has begun
\* one version has begun every version it found when it ends, unless it was interrupted.
NoneStranded ==
    exit \in {"ok", "error"} /\ ~cancelled /\ GoesOn /\ tried # {}
    => Scanned \subseteq tried

\* "An interrupted run never leaves a truncated archive that a later run would skip
\* as already packed" (pack.go), nor is one uploaded: wherever a command failed, or
\* was killed, while it wrote one.
ArchivesWhole == \A v \in Versions : file[v] # "cut" /\ object[v] # "cut"

\* A command ends, with --parallel 0 too: but for a build, see BuildEnds.
CommandEnds ==
    exit = "none" /\ (cmd.kind = "build" => cmd.parallel > 0) ~> exit # "none"

\* The inductive invariant.  A directory is never cut short, and so no archive is.
NothingCut == (\A v \in Versions : dir[v] # "cut") /\ ArchivesWhole

\* A version that is being packed or pushed has what is packed or pushed.
SourceThere ==
    \A v \in Scanned :
        /\ cmd.kind = "pack" \/ (cmd.kind = "push" /\ ~cmd.packed) => dir[v] # "none"
        /\ cmd.kind = "push" /\ cmd.packed => file[v] # "none"

\* What became of a version is in the tally, the group's error or what was done for it.
Outcomes ==
    \A v \in Versions :
        /\ item[v] = "failed" => tally.failed > 0
        /\ item[v] = "unstarted" => groupErr /\ aborted /\ cmd.kind \in {"push", "register"}
        /\ item[v] \in {"ok", "skipped"} => Done(v)
        /\ item[v] = "exporting" => cmd.kind = "build"
        /\ item[v] = "archiving" =>
               cmd.kind \in {"pack", "push"} /\ ~FromFile /\ temp[v] # "none"

\* Nothing is at work between two commands.
AtRest ==
    /\ exit = "none" => cmd \in Options
    /\ exit # "none" => Working = {}
    /\ cmd.kind = "none" => Scanned = {}

\* Only an interruption ends a group that goes on after failures: whatever was begun
\* was begun before.
BegunIsTried ==
    /\ \A v \in tried : item[v] \notin {"out", "queued"}
    /\ GoesOn /\ ~cancelled =>
           /\ ~aborted
           /\ \A v \in Versions : item[v] \notin {"out", "queued"} => v \in tried

PublishInv ==
    /\ PublishTypeOK /\ NothingCut /\ SourceThere /\ Outcomes /\ AtRest /\ BegunIsTried
    /\ ExitIsTrue /\ NoneStranded

-------------------------------------------------------------------------------
(* Not kept by the code *)

\* "A limit of zero would let errgroup start nothing at all" (push.go:182): a build
\* with --parallel 0 waits at its first version until it is killed (build.go:402).
BuildEnds == exit = "none" /\ cmd.kind = "build" ~> exit # "none"

\* "One plugin failing is counted and the run continues" (register.go:203): one whose
\* own call expires in a retry ends the run.
RegisterGoesOn ==
    exit \in {"ok", "error"} /\ cmd.kind = "register" /\ ~cancelled
    /\ (\A v \in Versions : item[v] # "queued")
    => Scanned \subseteq tried

\* "cached reports whether the plugin version has already been built" (build.go:128):
\* an interrupted export leaves the entrypoint, and the next build has nothing to do.
CachedIsBuilt ==
    exit = "ok" /\ cmd.kind = "build" => \A v \in Versions : dir[v] = "whole"
===============================================================================
