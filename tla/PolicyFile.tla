----------------------------- MODULE PolicyFile -----------------------------
(* The command line of @better-auth-ac/casl (packages/casl/src/cli.ts): init,  *)
(* pull and check as processes that share the files of one frontend project    *)
(* and talk to the server, whose artifact (iamCatalogCasl of the plugin)       *)
(* changes with every deployment of another catalog.                           *)
(*                                                                             *)
(* pc names the await a command is at.  A file is written by way of a          *)
(* temporary file and a rename; the process may be killed between any two      *)
(* steps, and any step on the file system or the network may fail.             *)
EXTENDS Naturals, FiniteSets

CONSTANTS
    Commands,            \* command processes of the project
    Invocations,         \* bound: the command lines enumerated
    Paths, ConfigPath,   \* paths of the project; CONFIG_FILE is one of them
    Outside,             \* paths that resolve to a place outside the project
    Configs,             \* contents of CONFIG_FILE
    Envs, EnvSet,        \* environment variables, and those that are set
    Texts,               \* contents of an output file or of an answer
    Artifacts,           \* the modules that the server generates
    Foreign,             \* what else the source may answer: pages of a proxy
    EtagOf,              \* caslModuleEtag
    MaxBytes,            \* MAX_ARTIFACT_BYTES
    MaxDeploys, MaxEdits,\* bounds: deployments, changes of the output by hand
    Torn,                \* the contents of a file that is half written
    Nil

\* validateArtifact, as the features of a text that its patterns tell apart: the
\* size, the version, the required parts, and no line outside the format.
TextRecords == [bytes : Nat, version : Nat \cup {Nil}, parts : BOOLEAN, inFormat : BOOLEAN, body : Nat]

Valid(t) == t.bytes <= MaxBytes /\ t.version # Nil /\ t.parts /\ t.inFormat

ConfigRecords == [scheme : {"http", "https", "other"}, loopback : BOOLEAN, credentials : BOOLEAN,
                  absolute : BOOLEAN, output : Paths, auth : Envs \cup {Nil}]

\* validateConfig.
ValidConfig(k) ==
    /\ k.scheme # "other" /\ ~k.absolute /\ ~k.credentials
    /\ k.auth # Nil /\ k.scheme = "http" => k.loopback

\* outputPath: not the configuration itself, and inside the project.
OutputOK(p) == p # ConfigPath /\ p \notin Outside

\* pull: the answer to the last question of init, or its flag, or Nil for neither.
InvocationRecords ==
    [op : {"pull", "check"}] \cup
    [op : {"init"}, io : BOOLEAN, flags : BOOLEAN, force : BOOLEAN, pull : BOOLEAN \cup {Nil}]

\* What atomicWrite is asked to write where, and what fetchArtifact may get.
Puts == [path : Paths, text : Texts \cup Configs]
Answers == [status : {"notModified", "error"}] \cup [status : {"ok"}, text : Texts]

ASSUME PathAssumption == ConfigPath \in Paths /\ Outside \subseteq Paths
ASSUME TextAssumption ==
    /\ Texts \subseteq TextRecords /\ Artifacts \cup Foreign \subseteq Texts /\ Artifacts # {}
    /\ \A t \in Artifacts : Valid(t)
    /\ \A t \in Foreign : ~Valid(t)
    /\ DOMAIN EtagOf = Texts
ASSUME ConfigAssumption == Configs \subseteq ConfigRecords
ASSUME NilAssumption ==
    /\ Nil \notin Texts \cup Configs /\ Nil \notin Paths /\ Nil \notin Envs
    /\ Nil \notin Invocations /\ Nil \notin BOOLEAN /\ Nil \notin Nat
    /\ Nil \notin Puts \cup Answers
    /\ Torn \notin Texts \cup Configs \cup {Nil}
ASSUME BoundAssumption ==
    Invocations \subseteq InvocationRecords /\ MaxDeploys \in Nat /\ MaxEdits \in Nat

\* "unremoved" is a failure too: the error printed is that of the removal of the
\* temporary file.
Outcomes == {"none", "created", "updated", "unchanged", "current", "stale", "cancelled",
             "failed", "unremoved", "crashed"}
Labels == {"idle", "exists", "overwrite", "inputs", "propose", "offer", "config", "local", "wait",
           "answer", "mkTemp", "fill", "rename", "clean", "undo"}

\* A command: the await it is at, its command line, and its locals: the
\* configuration and the output it read, the response, and what atomicWrite writes
\* and where.  Of its history, the artifacts served since it began, and whether
\* someone else changed its output since it read it.
CommandRecords ==
    [pc : Labels, inv : Invocations \cup {Nil}, cfg : Configs \cup {Nil},
     local : Texts \cup {Nil}, answer : Answers \cup {Nil}, put : Puts \cup {Nil},
     since : SUBSET Artifacts, touched : BOOLEAN]

Ended == [pc |-> "idle", inv |-> Nil, cfg |-> Nil, local |-> Nil, answer |-> Nil, put |-> Nil,
          since |-> {}, touched |-> FALSE]

VARIABLES
    (* the project and the server *)
    file,            \* the contents of each path
    served,          \* the artifact of the running server
    deploys, edits,  \* how often it and the output were changed
    ever,            \* history: the texts that the server generated or a person wrote
    (* commands *)
    cmd,
    temp,            \* the contents of each command's temporary file
    outcome          \* how the command ended, "none" until then

project == <<file, served, deploys, edits, ever>>
vars == <<file, served, deploys, edits, ever, cmd, temp, outcome>>

FilesTyped ==
    /\ file \in [Paths -> Texts \cup Configs \cup {Nil}]
    /\ served \in Artifacts /\ deploys \in 0 .. MaxDeploys /\ edits \in 0 .. MaxEdits
    /\ ever \subseteq Texts

\* The type invariant.
TypeOK ==
    /\ FilesTyped
    /\ cmd \in [Commands -> CommandRecords]
    /\ temp \in [Commands -> Texts \cup Configs \cup {Nil, Torn}]
    /\ outcome \in [Commands -> Outcomes]

Init ==
    /\ file \in {f \in [Paths -> Texts \cup Configs \cup {Nil}] :
         \A p \in Paths : f[p] \in IF p = ConfigPath THEN Configs \cup {Nil} ELSE Texts \cup {Nil}}
    /\ served \in Artifacts /\ deploys = 0 /\ edits = 0
    /\ ever = ({served} \cup {file[p] : p \in Paths \ {ConfigPath}}) \ {Nil}
    /\ cmd = [c \in Commands |-> Ended]
    /\ temp = [c \in Commands |-> Nil]
    /\ outcome = [c \in Commands |-> "none"]

-----------------------------------------------------------------------------
(* Beginning and ending. *)

\* The command goes on at another await.
Goto(c, label) ==
    /\ cmd' = [cmd EXCEPT ![c].pc = label]
    /\ UNCHANGED <<project, temp, outcome>>

\* The command ends; its temporary file stays as it is.
End(c, result) ==
    /\ cmd' = [cmd EXCEPT ![c] = Ended]
    /\ outcome' = [outcome EXCEPT ![c] = result]
    /\ UNCHANGED <<project, temp>>

\* runCli.  A process runs one command line.
Begin(c) ==
    /\ cmd[c].pc = "idle" /\ outcome[c] = "none"
    /\ \E i \in Invocations :
         cmd' = [cmd EXCEPT ![c].inv = i, ![c].since = {served},
                            ![c].pc = IF i.op = "init" THEN "exists" ELSE "config"]
    /\ UNCHANGED <<project, temp, outcome>>

-----------------------------------------------------------------------------
(* init. *)

\* Without the flags for the source and the output a terminal is asked.
Interactive(i) == i.io /\ ~i.flags

\* package.json is there; an existing configuration needs --force or a yes.
LookForConfig(c) ==
    /\ cmd[c].pc = "exists"
    /\ LET i == cmd[c].inv
           taken == file[ConfigPath] # Nil /\ ~i.force
       IN  \/ ~taken /\ Goto(c, "inputs")
           \/ taken /\ i.io /\ Goto(c, "overwrite")
           \/ taken /\ ~i.io /\ End(c, "failed")

\* A question is answered with yes, with no, or with what is neither, which
\* ends the command.
Overwrite(c) ==
    /\ cmd[c].pc = "overwrite"
    /\ Goto(c, "inputs") \/ End(c, "cancelled") \/ End(c, "failed")

\* The settings, from the flags or the user, must pass validateConfig; whether
\* the endpoint requires authorization is a question.
AskInputs(c) ==
    /\ cmd[c].pc = "inputs"
    /\ LET i == cmd[c].inv
       IN  \/ /\ i.io \/ i.flags
              /\ \E k \in Configs :
                   /\ ValidConfig(k)
                   /\ cmd' = [cmd EXCEPT ![c].put = [path |-> ConfigPath, text |-> k],
                                         ![c].pc = IF Interactive(i) THEN "propose" ELSE "mkTemp"]
              /\ UNCHANGED <<project, temp, outcome>>
           \/ /\ ~(i.io \/ i.flags) \/ Interactive(i) \/ \E k \in Configs : ~ValidConfig(k)
              /\ End(c, "failed")

Propose(c) ==
    /\ cmd[c].pc = "propose"
    /\ Goto(c, "mkTemp") \/ End(c, "cancelled") \/ End(c, "failed")

\* The configuration is written; pull now, unless a flag or the user says no.
PullChoices(i) == IF i.pull # Nil THEN {i.pull} ELSE IF Interactive(i) THEN BOOLEAN ELSE {TRUE}

OfferPull(c) ==
    /\ cmd[c].pc = "offer"
    /\ \/ /\ TRUE \in PullChoices(cmd[c].inv)
          /\ cmd' = [cmd EXCEPT ![c].pc = "config", ![c].put = Nil]
          /\ UNCHANGED <<project, temp, outcome>>
       \/ FALSE \in PullChoices(cmd[c].inv) /\ End(c, "created")
       \/ PullChoices(cmd[c].inv) = BOOLEAN /\ End(c, "failed")

-----------------------------------------------------------------------------
(* pull and check, up to the answer. *)

\* readConfig and outputPath.
Usable(k) == k # Nil /\ ValidConfig(k) /\ OutputOK(k.output)

ReadConfig(c) ==
    /\ cmd[c].pc = "config"
    /\ \/ /\ Usable(file[ConfigPath])
          /\ cmd' = [cmd EXCEPT ![c].pc = "local", ![c].cfg = file[ConfigPath]]
          /\ UNCHANGED <<project, temp, outcome>>
       \/ ~Usable(file[ConfigPath]) /\ End(c, "failed")

\* check needs a valid local artifact; both need the token, if one is configured.
MaySend(i, k, t) ==
    /\ i.op = "check" => t # Nil /\ Valid(t)
    /\ k.auth = Nil \/ k.auth \in EnvSet

\* The local file is read and the request is sent, with its ETag if it is valid.
ReadLocal(c) ==
    /\ cmd[c].pc = "local"
    /\ LET t == file[cmd[c].cfg.output]
       IN  \/ /\ MaySend(cmd[c].inv, cmd[c].cfg, t)
              /\ cmd' = [cmd EXCEPT ![c].pc = "wait", ![c].local = t, ![c].touched = FALSE]
              /\ UNCHANGED <<project, temp, outcome>>
           \/ ~MaySend(cmd[c].inv, cmd[c].cfg, t) /\ End(c, "failed")

\* Mutant of Tag: the version of the catalog, which an edit of the file keeps.
VersionTag(t) == t.version

\* The validator of a text: sent as If-None-Match, answered as ETag.
Tag(t) == EtagOf[t]

\* Mutant of Reply: any If-None-Match will do.
ReplyToAny(t) ==
    IF t # Nil /\ Valid(t)
    THEN [status |-> "notModified"] ELSE [status |-> "ok", text |-> served]

\* iamCatalogCasl: 304 when the client's valid artifact has the ETag of the
\* server's, else the artifact.
Reply(t) ==
    IF t # Nil /\ Valid(t) /\ Tag(t) = Tag(served)
    THEN [status |-> "notModified"] ELSE [status |-> "ok", text |-> served]

Answered(c, a) ==
    /\ cmd[c].pc = "wait"
    /\ cmd' = [cmd EXCEPT ![c].pc = "answer", ![c].answer = a]
    /\ UNCHANGED <<project, temp, outcome>>

Respond(c) == Answered(c, Reply(cmd[c].local))

\* The request carries If-None-Match: an absent, an empty and an invalid local
\* file have no validator.
Conditional(p) == p.local # Nil /\ Valid(p.local)

\* 401 or another failure, the page of a proxy, or the 304 of a cache to a
\* request that has no validator to compare with.
RespondBadly(c) ==
    \/ Answered(c, [status |-> "error"])
    \/ \E t \in Foreign : Answered(c, [status |-> "ok", text |-> t])
    \/ ~Conditional(cmd[c]) /\ Answered(c, [status |-> "notModified"])

\* Mutant of Accepted: the answer is not validated.
AcceptedUnread(a) == a.status = "ok"

Accepted(a) == a.status = "ok" /\ Valid(a.text)

\* The answer is news, or says that the local artifact is the server's.
Differs(p) == Accepted(p.answer) /\ p.answer.text # p.local
Same(p) ==
    \/ p.answer.status = "notModified" /\ p.local # Nil
    \/ Accepted(p.answer) /\ p.answer.text = p.local

Refuse(c) == End(c, "failed")

Receive(c) ==
    /\ cmd[c].pc = "answer"
    /\ LET p == cmd[c]
           checking == p.inv.op = "check"
       IN  \/ /\ Differs(p) /\ ~checking
              /\ cmd' = [cmd EXCEPT ![c].pc = "mkTemp",
                                    ![c].put = [path |-> p.cfg.output, text |-> p.answer.text]]
              /\ UNCHANGED <<project, temp, outcome>>
           \/ Differs(p) /\ checking /\ End(c, "stale")
           \/ Same(p) /\ End(c, IF checking THEN "current" ELSE "unchanged")
           \/ ~Differs(p) /\ ~Same(p) /\ Refuse(c)

-----------------------------------------------------------------------------
(* atomicWrite, for the configuration and for the output. *)

MakeTemp(c) ==
    /\ cmd[c].pc = "mkTemp"
    /\ temp' = [temp EXCEPT ![c] = Torn]
    /\ cmd' = [cmd EXCEPT ![c].pc = "fill"]
    /\ UNCHANGED <<project, outcome>>

\* Mutant of Written: the rename does not wait for the write.
WrittenInPart(c) == temp[c]

\* What the temporary file holds when writeFile is done.
Written(c) == cmd[c].put.text

FillTemp(c) ==
    /\ cmd[c].pc = "fill"
    /\ temp' = [temp EXCEPT ![c] = Written(c)]
    /\ cmd' = [cmd EXCEPT ![c].pc = "rename"]
    /\ UNCHANGED <<project, outcome>>

\* The commands whose output p is, and who have read it or will.
Users(p) == {d \in Commands : cmd[d].cfg # Nil /\ cmd[d].cfg.output = p}
Touched(S) == [d \in Commands |-> IF d \in S THEN [cmd[d] EXCEPT !.touched = TRUE] ELSE cmd[d]]

Rename(c) ==
    LET p == cmd[c].put.path
    IN  /\ cmd[c].pc = "rename"
        /\ file' = [file EXCEPT ![p] = temp[c]]
        /\ temp' = [temp EXCEPT ![c] = Nil]
        /\ cmd' = [Touched(Users(p) \ {c}) EXCEPT ![c].pc = "clean"]
        /\ UNCHANGED <<served, deploys, edits, ever, outcome>>

\* The finally block, when all went well, and what follows it.  Its rm finds
\* nothing, but may still fail.
Clean(c) ==
    /\ cmd[c].pc = "clean"
    /\ \/ cmd[c].put.path = ConfigPath /\ Goto(c, "offer")
       \/ /\ cmd[c].put.path # ConfigPath
          /\ End(c, IF cmd[c].local = Nil THEN "created" ELSE "updated")
       \/ End(c, "failed")

\* The file system refuses: no space, no permission, a directory in the way.
WriteFails(c) == cmd[c].pc \in {"mkTemp", "fill", "rename"} /\ Goto(c, "undo")

\* Mutant of Removed: nothing removes the temporary file.
LeftThere(c) == [temp EXCEPT ![c] = @]

Removed(c) == [temp EXCEPT ![c] = Nil]

\* The finally block after a failure.  When its rm fails too, in a directory
\* that became read-only, its error replaces the first one.
Undo(c) ==
    /\ cmd[c].pc = "undo"
    /\ \/ /\ temp' = Removed(c)
          /\ cmd' = [cmd EXCEPT ![c] = Ended]
          /\ outcome' = [outcome EXCEPT ![c] = "failed"]
          /\ UNCHANGED project
       \/ End(c, "unremoved")

-----------------------------------------------------------------------------
(* Failures and the others. *)

\* A file cannot be read, or the connection fails.
ReadFails(c) ==
    cmd[c].pc \in {"exists", "config", "local", "wait", "answer"} /\ End(c, "failed")

\* The process is killed.
Crash(c) == cmd[c].pc # "idle" /\ End(c, "crashed")

\* A person, or the version control system, changes an output file.
Edit(p) ==
    /\ p # ConfigPath /\ edits < MaxEdits
    /\ edits' = edits + 1
    /\ \E t \in (Texts \cup {Nil}) \ {file[p]} :
         /\ file' = [file EXCEPT ![p] = t]
         /\ ever' = (ever \cup {t}) \ {Nil}
    /\ cmd' = Touched(Users(p))
    /\ UNCHANGED <<served, deploys, temp, outcome>>

\* The server starts again with another catalog.
Redeploy ==
    /\ deploys < MaxDeploys
    /\ deploys' = deploys + 1
    /\ served' \in Artifacts \ {served}
    /\ ever' = ever \cup {served'}
    /\ cmd' = [d \in Commands |->
         IF cmd[d].pc = "idle" THEN cmd[d] ELSE [cmd[d] EXCEPT !.since = @ \cup {served'}]]
    /\ UNCHANGED <<file, edits, temp, outcome>>

-----------------------------------------------------------------------------

\* What a command does of its own accord, the user and the server answering it.
Step(c) ==
    \/ LookForConfig(c) \/ Overwrite(c) \/ AskInputs(c) \/ Propose(c) \/ OfferPull(c)
    \/ ReadConfig(c) \/ ReadLocal(c) \/ Respond(c) \/ Receive(c)
    \/ MakeTemp(c) \/ FillTemp(c) \/ Rename(c) \/ Clean(c) \/ Undo(c)

Fault(c) == RespondBadly(c) \/ WriteFails(c) \/ ReadFails(c) \/ Crash(c)

Next ==
    \/ \E c \in Commands : Begin(c) \/ Step(c) \/ Fault(c)
    \/ \E p \in Paths : Edit(p)
    \/ Redeploy

Spec == Init /\ [][Next]_vars

-----------------------------------------------------------------------------
(* What makes the safety properties inductive. *)

\* No two valid texts in play have the same 32-bit hash.
DistinctTags == \A t, u \in Texts : Valid(t) /\ Valid(u) /\ Tag(t) = Tag(u) => t = u

\* The locals of a command belong to the await it is at.
FlowOK(c) ==
    LET p == cmd[c]
    IN  /\ p.pc # "idle" => p.inv # Nil
        /\ p.pc = "idle" => p = Ended
        /\ p.pc \in {"exists", "overwrite", "inputs", "propose", "offer", "config"} => p.cfg = Nil
        /\ p.pc \in {"local", "wait", "answer"} => p.cfg # Nil
        /\ p.pc \in {"config", "local", "wait", "answer"} => p.put = Nil
        /\ p.cfg = Nil \/ p.pc \in {"local", "wait"} => p.answer = Nil
        /\ p.pc = "answer" => p.answer # Nil
        /\ p.pc \in {"wait", "answer"} /\ p.inv.op = "check" => Conditional(p)
        /\ p.pc \in {"propose", "mkTemp", "fill", "rename", "clean"} => p.put # Nil
        /\ p.cfg # Nil => OutputOK(p.cfg.output)

\* What it will install comes from the server, for the output it read.
SourceOK(c) ==
    LET p == cmd[c]
    IN  /\ p.since \subseteq ever
        /\ p.pc # "idle" => served \in p.since
        /\ p.answer # Nil /\ Accepted(p.answer) => p.answer.text \in p.since
        /\ p.put # Nil /\ p.cfg = Nil => p.put.path = ConfigPath /\ p.put.text \in Configs
        /\ p.put # Nil /\ p.cfg # Nil => p.put.path = p.cfg.output /\ p.put.text \in p.since

\* The temporary file exists while atomicWrite runs, and is whole at the rename.
TempOK(c) ==
    LET p == cmd[c]
    IN  /\ p.pc = "rename" => temp[c] = p.put.text
        /\ p.pc \notin {"idle", "fill", "rename", "undo"} => temp[c] = Nil
        /\ p.pc = "idle" /\ outcome[c] \notin {"crashed", "unremoved"} => temp[c] = Nil

\* An undisturbed output is still the one read, then the one written.
OutputKept(c) ==
    LET p == cmd[c]
    IN  p.cfg # Nil /\ ~p.touched =>
        /\ p.pc \in {"wait", "answer", "mkTemp", "fill", "rename"} =>
             file[p.cfg.output] = p.local
        /\ p.pc = "clean" => file[p.cfg.output] = p.put.text

\* A 304 to a request that had a validator speaks of the local artifact.
NotModifiedOK(c) ==
    LET p == cmd[c]
    IN  DistinctTags /\ p.answer # Nil /\ Conditional(p) =>
        (p.answer.status = "notModified" => p.local \in p.since)

-----------------------------------------------------------------------------
(* Safety. *)

\* Whatever commands run together, fail or are killed, an output is absent or
\* holds, whole, a text that the server generated or a person put there, and
\* the configuration is absent or a whole configuration.
FilesWhole ==
    \A p \in Paths : file[p] # Nil => file[p] \in IF p = ConfigPath THEN Configs ELSE ever

\* A temporary file outlives its command only if the process was killed or the
\* removal itself failed, and then the error the command ends with is that of the
\* removal: no other failure of atomicWrite, nor any success, leaves one behind.
TempRemoved ==
    \A c \in Commands :
        cmd[c].pc = "idle" /\ temp[c] # Nil => outcome[c] \in {"crashed", "unremoved"}

Finishes(c, results) == cmd[c].pc # "idle" /\ cmd'[c].pc = "idle" /\ outcome'[c] \in results

\* A 304 to a request without a validator, over a file that is there but
\* invalid: fetchArtifact takes it for a confirmation of that file.
TakenOnTrust(p) == ~Conditional(p) /\ p.local # Nil /\ p.answer = [status |-> "notModified"]

\* A pull that reports success leaves an artifact that the server served while
\* it ran, 304 and equal texts included, unless someone else changed the output
\* meanwhile.  So it does inside init.  The one success that delivers nothing is
\* the 304 taken on trust; it says "unchanged" and leaves the invalid file as it is.
PullDelivers ==
    [][\A c \in Commands :
         Finishes(c, {"created", "updated", "unchanged"}) /\ cmd[c].cfg # Nil /\ ~cmd[c].touched
         => \/ file'[cmd[c].cfg.output] \in cmd[c].since
            \/ /\ TakenOnTrust(cmd[c]) /\ outcome'[c] = "unchanged"
               /\ file'[cmd[c].cfg.output] = cmd[c].local]_vars

\* What a command writes to an output was served while the command ran: a slow
\* pull may put back an artifact older than the one it replaces, but none that
\* was out of date when it began.
WritesServed ==
    [][\A c \in Commands :
         cmd[c].pc = "rename" /\ cmd'[c].pc = "clean" /\ cmd[c].put.path # ConfigPath
         => file'[cmd[c].put.path] \in cmd[c].since]_vars

\* check calls current only a local artifact that the server served while check
\* ran, and stale only one that differs from an artifact served meanwhile.
CheckTells ==
    [][\A c \in Commands :
         /\ Finishes(c, {"current"}) => cmd[c].local \in cmd[c].since
         /\ Finishes(c, {"stale"}) => \E t \in cmd[c].since : t # cmd[c].local]_vars
=============================================================================
