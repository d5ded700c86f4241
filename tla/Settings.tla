-------------------------------- MODULE Settings --------------------------------
(* Resolving a configuration: internal/config, cmd/easyp-svc/config.go, and the *)
(* commands that use what was resolved.  An operator writes settings in a file  *)
(* and in the environment, load takes them through its stages in the order of   *)
(* the code, and one command uses the outcome.  A setting is a leaf of Config;  *)
(* the sample has every kind of them (numbers and texts, with a default and     *)
(* without, secret, aliased, checked alone and against another).  Values are    *)
(* small integers: 0 is Go's zero value, and for a text the empty string.       *)
EXTENDS Integers, FiniteSets

CONSTANTS
    Topics,             \* the sets of settings an input writes
    Former,             \* settings that once had another name (yamlAliases,
                        \* which has none in this release)
    Unset, Blank,       \* of a variable: not there, set to nothing
    Missing, Null,      \* of a key: not written, written without a value
    Bad,                \* a value the setting's type cannot hold
    Redacted,           \* "***" in place of a secret
    Flag                \* a value from the command line

VARIABLES
    source,             \* "file": --cfg was given; "env": it was not
    file,               \* the value of each key, as written
    former,             \* the value of the key that has a former name
    misfit,             \* what else is wrong with the file
    env,                \* the value of each variable
    stray,              \* a variable that is no setting's
    unreadable,         \* the configured files that cannot be opened
    stage,              \* where load, or the command, is
    doc,                \* the document, as load has rewritten it
    diags,              \* Result.Diagnostics
    resolved,           \* Result.Config
    origins,            \* Result.Origins
    used,               \* Result.EnvAliases: settings supplied under an alias
    status,             \* "accepted"; "rejected" with a Config; "unusable": without
    shown,              \* what config print has written
    command,            \* what the last command did
    first               \* history: what was resolved before a print was read back

input == <<source, file, former, misfit, env, stray, unreadable>>
result == <<diags, resolved, origins, used, status>>
settingsVars == <<input, stage, doc, result, shown, command, first>>

\* The `default=` of the env tag, 0 where there is none.  1 and 2 are two sound
\* values of a text, 3 (Garbled) one that the setting's own check refuses.
Default == [
    grpcPort |-> 1, metricPort |-> 2,
    certFile |-> 0, keyFile |-> 0, clientCA |-> 0,
    genTimeout |-> 2, forceShutdown |-> 3,
    maxSend |-> 2, maxOutput |-> 2, cacheMax |-> 3, pluginsDir |-> 1,
    bucket |-> 0, accessKey |-> 0, secretKey |-> 0,
    dsn |-> 0, otlp |-> 0, tier |-> 0,
    workers |-> 2, maxRetries |-> 1, burst |-> 2,
    cacheTTL |-> 2, enqueueTimeout |-> 2, retention |-> 3, preCreate |-> 1]

Names == DOMAIN Default
Numbers == {"genTimeout", "forceShutdown", "maxSend", "maxOutput", "cacheMax", "workers",
            "maxRetries", "burst", "cacheTTL", "enqueueTimeout", "retention", "preCreate"}
Secret == {"dsn", "secretKey"}
Files == {"certFile", "keyFile", "clientCA"}
Garbled == 3

\* envAliases: OTEL_EXPORTER_OTLP_ENDPOINT for TELEMETRY_OTLP_ENDPOINT.
Alias == "otel"
Aliased == "otlp"
Variables == Names \cup {Alias}

Value == -1..3

\* The constants that stand for something else than a value are none, and the sample
\* has at most one setting with a former name.
ASSUME SettingsAssumption ==
    /\ Topics \subseteq SUBSET Names
    /\ Former \subseteq Names /\ \A s, t \in Former : s = t
    /\ \A x \in {Unset, Blank, Missing, Null, Bad, Redacted, Flag} :
           x \notin Value /\ x \notin Variables
    /\ Missing \notin {Null, Bad, Redacted} /\ Null # Bad /\ Bad \notin {Unset, Blank}

Written(s) == IF s \in Numbers THEN -1..3 ELSE 0..3
FileValue(s) == {Missing, Null, Bad} \cup Written(s)
EnvValue(v) ==
    {Unset, Blank} \cup (IF v \in Numbers THEN {Bad} \cup -1..3 ELSE 1..3)

\* Files that do not parse as one document, or that name what is no setting.
Misfits == {"none", "absent", "syntax", "list", "secondDocument", "unknownKey",
            "retiredKey", "heldKey"}
Strays == {"none", "prefixed", "link", "blank"}

-------------------------------------------------------------------------------
(* The stages of load *)

\* parseDocument, after the file was read: a file that is not there, is too
\* large or does not parse ends the load.
Parse ==
    /\ stage = "parse"
    /\ IF misfit \in {"absent", "syntax"}
       THEN /\ stage' = "findings" /\ status' = "unusable"
            /\ UNCHANGED diags
       ELSE /\ stage' = "rename"
            /\ diags' = IF misfit = "secondDocument" THEN {"secondDocument"} ELSE {}
            /\ UNCHANGED status
    /\ UNCHANGED <<input, doc, resolved, origins, used, shown, command, first>>

\* applyYAMLAliases: a former name is rewritten in place, unless the file has
\* the current one too.
Rename ==
    /\ stage = "rename"
    /\ stage' = "decode"
    /\ LET s == CHOOSE s \in Former : TRUE IN
       CASE former = Missing -> UNCHANGED <<doc, diags>>
         [] former # Missing /\ file[s] # Missing ->
                /\ diags' = diags \cup {"both"}
                /\ UNCHANGED doc
         [] former # Missing /\ file[s] = Missing ->
                /\ diags' = diags \cup {"renamed"}
                /\ doc' = [doc EXCEPT ![s] = former]
    /\ UNCHANGED <<input, resolved, origins, used, status, shown, command, first>>

\* documentHasKey: the key is present, whatever its value; a document that is
\* not a mapping has none.
HasKey(s) == misfit # "list" /\ doc[s] # Missing

\* What decodeDocument leaves in the field: nothing is decoded from a null, nor
\* from a value of another type.
Decoded(s) == IF doc[s] \in {Missing, Null, Bad} THEN 0 ELSE doc[s]

\* decodeDocument: every value of a wrong type is a diagnostic.
Decode ==
    /\ stage = "decode"
    /\ stage' = "keys"
    /\ diags' = diags \cup
                (IF misfit = "list" \/ \E s \in Names : doc[s] = Bad THEN {"type"} ELSE {})
    /\ UNCHANGED <<input, doc, resolved, origins, used, status, shown, command, first>>

\* A mutant: a key that is not known is skipped.
ReportedIfRetired(m) == m = "retiredKey"

\* walkDocument: a key that names no setting, and one that no longer does.  What
\* an anchor holder (x-...) has is not walked, wherever it is merged.
Reported(m) == m \in {"unknownKey", "retiredKey"}

CheckKeys ==
    /\ stage = "keys"
    /\ stage' = "environment"
    /\ diags' = diags \cup (IF Reported(misfit) THEN {misfit} ELSE {})
                      \cup (IF "both" \in diags THEN {"unknownKey"} ELSE {})
    /\ UNCHANGED <<input, doc, resolved, origins, used, status, shown, command, first>>

\* emptyIsUnset.Lookup
Found(v) == env[v] \notin {Unset, Blank}

\* aliasLookuper.Lookup: the variable that supplies a setting; Unset for none.
Supplier(s) ==
    CASE Found(s) -> s
      [] ~Found(s) /\ s = Aliased /\ Found(Alias) -> Alias
      [] OTHER -> Unset

\* applyEnv into a Config that is zero: variables, else defaults.
FromEnvironment(s) == IF Supplier(s) # Unset THEN env[Supplier(s)] ELSE Default[s]

ApplyEnv ==
    /\ stage = "environment"
    /\ used' = {s \in Names : Supplier(s) = Alias}
    /\ IF \E s \in Names : FromEnvironment(s) = Bad
       THEN /\ stage' = "findings" /\ status' = "unusable"
            /\ UNCHANGED resolved
       ELSE /\ stage' = "merge"
            /\ resolved' = [s \in Names |-> FromEnvironment(s)]
            /\ UNCHANGED status
    /\ UNCHANGED <<input, doc, diags, origins, shown, command, first>>

\* A mutant: a zero in the file is taken for a key that is not there.
TakesNonZero(s) ==
    source = "file" /\ Supplier(s) = Unset /\ HasKey(s) /\ Decoded(s) # 0

\* mergeFileValues takes a setting from the file if no variable supplies it and
\* the document has its key; environmentOrigins when there is no file.
TakesFile(s) == source = "file" /\ Supplier(s) = Unset /\ HasKey(s)

Origin(s) ==
    CASE Supplier(s) # Unset -> "env"
      [] TakesFile(s) -> "file"
      [] OTHER -> "default"

Merge ==
    /\ stage = "merge"
    /\ stage' = "judge"
    /\ resolved' = [s \in Names |-> IF TakesFile(s) THEN Decoded(s) ELSE resolved[s]]
    /\ origins' = [s \in Names |-> Origin(s)]
    /\ UNCHANGED <<input, doc, diags, used, status, shown, command, first>>

-------------------------------------------------------------------------------
(* Validate *)

ValidPorts(c) ==
    /\ {c["grpcPort"], c["metricPort"]} \subseteq {1, 2}
    /\ c["grpcPort"] # c["metricPort"]

ValidTLS(c) ==
    /\ (c["certFile"] # 0) <=> (c["keyFile"] # 0)
    /\ c["clientCA"] # 0 => c["certFile"] # 0

ValidSizes(c) ==
    /\ c["maxOutput"] > 0
    /\ c["maxSend"] >= c["maxOutput"]

ValidDSN(c) == c["dsn"] \notin {0, Garbled}

ValidWorkerPool(c) ==
    /\ c["workers"] > 0
    /\ c["genTimeout"] > 0
    /\ c["maxRetries"] >= 0
    /\ c["forceShutdown"] > c["genTimeout"]

ValidRateLimit(c) == c["burst"] > 0

ValidAudit(c) ==
    /\ c["retention"] >= 0
    /\ c["preCreate"] >= 0
    /\ c["retention"] > 0 => c["preCreate"] <= c["retention"]

\* Half a credential pair, or credentials of a store that is off.
ValidS3(c) ==
    /\ c["bucket"] # 0 => /\ c["pluginsDir"] # 0
                          /\ (c["accessKey"] # 0) <=> (c["secretKey"] # 0)
    /\ c["bucket"] = 0 => c["accessKey"] = 0 /\ c["secretKey"] = 0

ValidCacheSize(c) ==
    /\ c["cacheMax"] >= 0
    /\ c["cacheMax"] > 0 => c["cacheMax"] >= c["maxOutput"]

ValidTelemetry(c) == c["tier"] # Garbled

\* A mutant: only negative numbers are refused.
ValidNegatives(c) == c["cacheTTL"] >= 0

ValidRuntimeZeros(c) == c["cacheTTL"] > 0

Valid(c) ==
    /\ ValidPorts(c) /\ ValidTLS(c) /\ ValidSizes(c) /\ ValidDSN(c)
    /\ ValidWorkerPool(c) /\ ValidRateLimit(c) /\ ValidAudit(c)
    /\ ValidS3(c) /\ ValidCacheSize(c) /\ ValidTelemetry(c) /\ ValidRuntimeZeros(c)

\* Diagnostics.Err: everything but a warning.
Errors(d) == d \ {"renamed", "strayVariable"}

Judge ==
    /\ stage = "judge"
    /\ stage' = "findings"
    /\ status' = IF Errors(diags) = {} /\ Valid(resolved) THEN "accepted" ELSE "rejected"
    /\ UNCHANGED <<input, doc, diags, resolved, origins, used, shown, command, first>>

\* UnknownEnv: not for an empty variable, an alias, or one that kubelet injects.
Unknown(v) == v = "prefixed"

\* withEnvironmentFindings, whatever load has returned.
Findings ==
    /\ stage = "findings"
    /\ stage' = "loaded"
    /\ diags' = diags \cup (IF Unknown(stray) THEN {"strayVariable"} ELSE {})
    /\ UNCHANGED <<input, doc, resolved, origins, used, status, shown, command, first>>

-------------------------------------------------------------------------------
(* The commands *)

Done(c) == /\ stage = "loaded"
           /\ stage' = "done"
           /\ command' = c
           /\ UNCHANGED <<input, doc, result, first>>

\* config validate: unreadable files are notes.
ValidateCommand ==
    /\ Done([kind |-> "validate", ok |-> status = "accepted"])
    /\ UNCHANGED shown

\* renderValue
Rendered(s, secrets) ==
    IF s \in Secret /\ ~secrets /\ resolved[s] # 0 THEN Redacted ELSE resolved[s]

\* A mutant: a value set to zero is not printed as a change.
SelectedIfSet(s, changed) == ~changed \/ (resolved[s] # Default[s] /\ resolved[s] # 0)

\* config print: a configuration that would not start is printed too; with
\* --changed, the settings that differ from their defaults.
Selected(s, changed) == ~changed \/ resolved[s] # Default[s]

PrintCommand(changed, secrets) ==
    /\ Done([kind |-> "print", ok |-> status # "unusable"])
    /\ shown' = IF status = "unusable" THEN shown
                ELSE [s \in Names |-> IF Selected(s, changed) THEN Rendered(s, secrets)
                                      ELSE Missing]

\* What the service's parts put in place of a number they cannot use.
RunsOn(s, v) ==
    CASE s = "workers" /\ v < 1 -> 1
      [] s \in {"genTimeout", "maxSend", "burst", "cacheTTL"} /\ v <= 0 -> Default[s]
      [] s \in {"enqueueTimeout", "preCreate"} /\ v < 0 -> Default[s]
      [] OTHER -> v

\* service start: a configured file that cannot be read refuses it.
Readable == \A s \in Files : resolved[s] # 0 => s \notin unreadable

Start ==
    /\ Done([kind |-> "start", ok |-> status = "accepted" /\ Readable,
             runs |-> [s \in Names |-> RunsOn(s, resolved[s])]])
    /\ UNCHANGED shown

\* plugins push: fillFromConfig takes what the flags leave empty; credentials
\* travel as a pair.
Pushed(flags, s) == IF s \in flags THEN Flag ELSE resolved[s]

Credentials(flags) ==
    IF flags \cap {"accessKey", "secretKey"} = {}
    THEN [key |-> resolved["accessKey"], secret |-> resolved["secretKey"]]
    ELSE [key |-> IF "accessKey" \in flags THEN Flag ELSE 0,
          secret |-> IF "secretKey" \in flags THEN Flag ELSE 0]

Push(flags) ==
    /\ source = "file"
    /\ Done(IF status = "accepted"
            THEN [kind |-> "push", ok |-> TRUE, bucket |-> Pushed(flags, "bucket"),
                  credentials |-> Credentials(flags)]
            ELSE [kind |-> "push", ok |-> FALSE])
    /\ UNCHANGED shown

\* plugins register: resolvePluginsPrefix decodes the file's first document by
\* itself; it sees no variable, no default and no unknown key.
Decodable == misfit \notin {"absent", "syntax", "list"} /\ \A s \in Names : file[s] # Bad

Register ==
    /\ source = "file"
    /\ Done([kind |-> "register", prefix |-> file["pluginsDir"],
             ok |-> Decodable /\ file["pluginsDir"] \notin {Missing, Null, 0}])
    /\ UNCHANGED shown

\* What was printed, secrets included, is the file of a deployment that sets no
\* variable.
ReadBack ==
    /\ stage = "done" /\ first = {}
    /\ command.kind = "print" /\ command.ok
    /\ \A s \in Names : shown[s] # Redacted
    /\ first' = {resolved}
    /\ source' = "file" /\ file' = shown /\ doc' = shown
    /\ former' = Missing /\ misfit' = "none" /\ stray' = "none"
    /\ env' = [v \in Variables |-> Unset]
    /\ stage' = "parse"
    /\ diags' = {} /\ status' = "loading"
    /\ UNCHANGED <<unreadable, resolved, origins, used, shown, command>>

CommandOver == stage = "done" /\ UNCHANGED settingsVars

-------------------------------------------------------------------------------
\* One topic's settings are written in the file,
FileWrites(topic) ==
    \E f \in [topic -> UNION {FileValue(s) : s \in topic}] :
        /\ \A s \in topic : f[s] \in FileValue(s)
        /\ source = "env" => \A s \in topic : f[s] = Missing
        /\ file = [s \in Names |-> IF s \in topic THEN f[s] ELSE Missing]

\* and in the environment, which has the database unless the topic does.
Heard(topic) == topic \cup (IF Aliased \in topic THEN {Alias} ELSE {})

EnvironmentHas(topic) ==
    \E e \in [Heard(topic) -> UNION {EnvValue(v) : v \in Heard(topic)}] :
        /\ \A v \in Heard(topic) : e[v] \in EnvValue(v)
        /\ env = [v \in Variables |-> IF v \in Heard(topic) THEN e[v]
                                      ELSE IF v = "dsn" THEN 1 ELSE Unset]

\* Something else is wrong only beside a single setting.
ElseIsWrong(topic) ==
    IF Cardinality(topic) = 1
    THEN /\ misfit \in (IF source = "file" THEN Misfits ELSE {"none"})
         /\ stray \in Strays
         /\ former \in (IF source = "file" /\ Former \cap topic # {} THEN {Missing, 1, 2}
                                                                ELSE {Missing})
    ELSE misfit = "none" /\ stray = "none" /\ former = Missing

SettingsInit ==
    \E topic \in Topics :
        /\ source \in {"file", "env"}
        /\ FileWrites(topic)
        /\ EnvironmentHas(topic)
        /\ ElseIsWrong(topic)
        /\ unreadable \in SUBSET (topic \cap Files)
        /\ stage = IF source = "file" THEN "parse" ELSE "environment"
        /\ doc = file
        /\ diags = {} /\ used = {} /\ status = "loading"
        /\ resolved = [s \in Names |-> 0] /\ origins = [s \in Names |-> "default"]
        /\ shown = [s \in Names |-> Missing]
        /\ command = [kind |-> "none"]
        /\ first = {}

SettingsNext ==
    \/ Parse \/ Rename \/ Decode \/ CheckKeys \/ ApplyEnv \/ Merge \/ Judge \/ Findings
    \/ ValidateCommand \/ Start \/ Register \/ ReadBack \/ CommandOver
    \/ \E changed, secrets \in BOOLEAN : PrintCommand(changed, secrets)
    \/ \E flags \in SUBSET {"bucket", "accessKey", "secretKey"} : Push(flags)

SettingsSpec == SettingsInit /\ [][SettingsNext]_settingsVars

-------------------------------------------------------------------------------
(* Properties *)

Usable == status \in {"accepted", "rejected"}

\* The report names the layer a value came from, and the variable it was read
\* under, and no layer above it had anything to say: "environment > file > tag
\* default", a key winning whatever its value (Load, mergeFileValues,
\* aliasLookuper, describeOrigin).  The layers are those of the input, not of
\* the document load has made of it.
Key(s) == IF file[s] = Missing /\ s \in Former THEN former ELSE file[s]

OriginTrue ==
    stage \in {"loaded", "done"} /\ Usable =>
        \A s \in Names :
            LET reported == IF s \in used THEN Alias ELSE s
                inFile == source = "file" /\ misfit # "list" /\ Key(s) # Missing
            IN CASE origins[s] = "env" ->
                        /\ env[reported] \notin {Unset, Blank, Bad}
                        /\ resolved[s] = env[reported]
                        /\ reported = Alias => env[s] \in {Unset, Blank}
                 [] origins[s] = "file" ->
                        /\ inFile
                        /\ resolved[s] = IF Key(s) \in {Null, Bad} THEN 0 ELSE Key(s)
                        /\ env[s] \in {Unset, Blank}
                 [] origins[s] = "default" ->
                        /\ ~inFile /\ env[s] \in {Unset, Blank}
                        /\ s = Aliased => env[Alias] \in {Unset, Blank}
                        /\ resolved[s] = Default[s]

\* A configuration printed with its secrets, whole or only what was changed, and
\* read back where no variable is set is the same configuration, to the last
\* zero; and it would start if and only if the printed one would have, for all
\* that the loader decides from values (renderChanged, writeConfig, SameValue).
RoundTrip ==
    stage = "loaded" /\ first # {} =>
        /\ Usable
        /\ first = {resolved}
        /\ diags = {}
        /\ status = "accepted" <=> Valid(CHOOSE c \in first : TRUE)

\* A configuration that is accepted ignored nothing: every key that was written
\* is obeyed or a variable beat it, and whatever else was written in the file
\* (outside an anchor holder) or aimed at the service has been reported (Load,
\* documentDiagnostics, UnknownEnv).
NothingIgnored ==
    stage = "loaded" /\ status = "accepted" =>
        /\ misfit \in {"none", "heldKey"}
        /\ stray = "prefixed" => "strayVariable" \in diags
        /\ source = "file" =>
               \A s \in Names :
                   /\ Key(s) # Bad
                   /\ Key(s) \notin {Missing, Null} =>
                          resolved[s] = Key(s) \/ origins[s] = "env"

\* A service that starts runs on the numbers that config print shows: what a
\* part would replace was refused (validateRuntimeZeros).  All but
\* audit.enqueue_timeout, see EveryNumberAsPrinted.
RunsAsPrinted ==
    stage = "done" /\ command.kind = "start" /\ command.ok =>
        \A s \in Names \ {"enqueueTimeout"} : command.runs[s] = resolved[s]

\* plugins push never puts a key of the command line together with a secret of
\* the configuration, nor the other way round (fillFromConfig).
PairKept ==
    stage = "done" /\ command.kind = "push" /\ command.ok =>
        LET c == command.credentials IN
        (c.key = Flag /\ c.secret # 0 => c.secret = Flag)
        /\ (c.secret = Flag /\ c.key # 0 => c.key = Flag)

-------------------------------------------------------------------------------
(* The inductive invariant *)

Stages == {"parse", "rename", "decode", "keys", "environment", "merge", "judge", "findings",
           "loaded", "done"}
Loading == {"parse", "rename", "decode", "keys", "environment", "merge", "judge"}

SettingsTypeOK ==
    /\ source \in {"file", "env"}
    /\ file \in [Names -> {Missing, Null, Bad} \union Value]
    /\ former \in {Missing} \union Value
    /\ misfit \in Misfits /\ stray \in Strays
    /\ env \in [Variables -> {Unset, Blank, Bad} \union Value]
    /\ unreadable \subseteq Files
    /\ stage \in Stages
    /\ doc \in [Names -> {Missing, Null, Bad} \union Value]
    /\ diags \subseteq {"secondDocument", "both", "renamed", "type", "unknownKey",
                       "retiredKey", "strayVariable"}
    /\ resolved \in [Names -> Value]
    /\ origins \in [Names -> {"env", "file", "default"}]
    /\ used \subseteq Names
    /\ status \in {"loading", "accepted", "rejected", "unusable"}
    /\ shown \in [Names -> {Missing, Redacted} \union Value]
    /\ command.kind \in {"none", "validate", "print", "start", "push", "register"}
    /\ \A c \in first : c \in [Names -> Value]

\* What an input may be: without --cfg there is no file, and a former name is one of
\* the release's.
Inputs ==
    /\ source = "env" => /\ misfit = "none" /\ former = Missing
                         /\ \A s \in Names : file[s] = Missing
    /\ former # Missing => Former # {}

\* Load judges once, at its end, and gives up nowhere else.
Verdicts ==
    /\ status = "loading" <=> stage \in Loading
    /\ stage \notin Loading /\ Usable =>
           (status = "accepted" <=> Errors(diags) = {} /\ Valid(resolved))

\* The document has the file's keys, those with a former name once that is read.
DocumentRead ==
    status # "unusable" =>
        \A s \in Names : doc[s] = IF stage \in {"parse", "rename"} THEN file[s] ELSE Key(s)

\* Where every value comes from.
Merged(s) == IF TakesFile(s) THEN Decoded(s) ELSE FromEnvironment(s)
AliasesUsed == used = {s \in Names : Supplier(s) = Alias}

Resolution ==
    /\ stage = "merge" => AliasesUsed /\ \A s \in Names : resolved[s] = FromEnvironment(s)
    /\ stage = "judge" \/ Usable =>
           /\ AliasesUsed
           /\ \A s \in Names : /\ resolved[s] = Merged(s) /\ origins[s] = Origin(s)
                               /\ FromEnvironment(s) # Bad

\* Every stage that is past has reported what it is there for.
Complaints ==
    /\ status # "unusable" /\ source = "file" =>
           /\ stage # "parse" =>
                  /\ misfit \notin {"absent", "syntax"}
                  /\ misfit = "secondDocument" => "secondDocument" \in diags
           /\ stage \notin {"parse", "rename", "decode"} =>
                  ((misfit = "list" \/ \E s \in Names : doc[s] = Bad) => "type" \in diags)
           /\ stage \notin {"parse", "rename", "decode", "keys"} =>
                  (Reported(misfit) => misfit \in diags)
    /\ stage \in {"loaded", "done"} /\ stray = "prefixed" => "strayVariable" \in diags

\* The file that is read back is what was printed of the configuration in `first`.
Prints(text, c) ==
    \A s \in Names : text[s] = c[s] \/ (text[s] = Missing /\ c[s] = Default[s])

ReadAgain ==
    /\ \A c, d \in first : c = d
    /\ first # {} =>
           /\ source = "file" /\ former = Missing /\ misfit = "none" /\ stray = "none"
           /\ \A v \in Variables : env[v] = Unset
           /\ status # "unusable" /\ diags = {}
           /\ \A c \in first : Prints(file, c)

\* What a command did.
Commands ==
    stage = "done" /\ command.kind \in {"print", "start", "push"} /\ command.ok =>
        /\ command.kind = "print" =>
               ((\A s \in Names : shown[s] # Redacted) => Prints(shown, resolved))
        /\ command.kind = "start" =>
               /\ status = "accepted"
               /\ \A s \in Names : command.runs[s] = RunsOn(s, resolved[s])
        /\ command.kind = "push" =>
               \E flags \in SUBSET {"bucket", "accessKey", "secretKey"} :
                   command.credentials = Credentials(flags)

SettingsInv ==
    /\ SettingsTypeOK /\ Inputs /\ Verdicts /\ DocumentRead /\ Resolution /\ Complaints
    /\ ReadAgain /\ Commands

-------------------------------------------------------------------------------
(* Not kept by the code *)

\* A negative audit.enqueue_timeout is accepted and shown, and the writer runs on
\* one second (audit.NewWorker): "a configuration report that disagrees with the
\* running service is worse than no report" (validate_more.go:204).
EveryNumberAsPrinted ==
    stage = "done" /\ command.kind = "start" /\ command.ok =>
        command.runs = resolved

\* plugins register --cfg and the service use the same plugins directory: Load
\* "is the only way the service and the CLI build a Config from a file: both
\* must see the same settings" (config.go:704).  The command decodes the file by
\* itself, and a variable or the default is the service's alone.
OneConfiguration ==
    stage = "done" /\ command.kind = "register" /\ status = "accepted" =>
        command.ok /\ command.prefix = resolved["pluginsDir"]

\* A mistyped key is reported, inside an anchor holder too: "the keys it brought
\* in are checked where they are written" (diagnostics.go:246).
HeldKeysReported ==
    stage = "loaded" /\ status = "accepted" => misfit # "heldKey"

===============================================================================
