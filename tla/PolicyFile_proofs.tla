-------------------------- MODULE PolicyFile_proofs --------------------------
(* Invariants of PolicyFile for any number of commands, configurations, texts  *)
(* and deployments: files are whole, temporary files are removed, and what a   *)
(* pull leaves was served while it ran.                                        *)
EXTENDS PolicyFile, TLAPS

CommandOK(c) == FlowOK(c) /\ SourceOK(c) /\ TempOK(c) /\ OutputKept(c) /\ NotModifiedOK(c)
Inv == TypeOK /\ FilesWhole /\ served \in ever /\ \A c \in Commands : CommandOK(c)

-----------------------------------------------------------------------------
(* The initial state, and steps of one command that leave the files alone. *)

LEMMA EndedTyped == Ended \in CommandRecords
BY DEF Ended, CommandRecords, Labels

LEMMA EndedOK ==
    ASSUME NEW c \in Commands, cmd[c] = Ended, outcome[c] \notin {"crashed", "unremoved"} => temp[c] = Nil
    PROVE  CommandOK(c)
BY DEF CommandOK, FlowOK, SourceOK, TempOK, OutputKept, NotModifiedOK, Conditional, Ended

LEMMA InitInv == Init => Inv
<1> SUFFICES ASSUME Init PROVE Inv
  OBVIOUS
<1>1. TypeOK
  <2>1. deploys \in 0 .. MaxDeploys /\ edits \in 0 .. MaxEdits
    BY BoundAssumption DEF Init
  <2>2. ever \subseteq Texts
    BY TextAssumption, NilAssumption DEF Init
  <2> QED
    BY <2>1, <2>2, EndedTyped DEF Init, TypeOK, FilesTyped, Outcomes
<1>2. FilesWhole /\ served \in ever
  BY TextAssumption, NilAssumption DEF Init, FilesWhole
<1>3. \A c \in Commands : CommandOK(c)
  BY EndedOK DEF Init
<1> QED
  BY <1>1, <1>2, <1>3 DEF Inv

\* A step of c that changes its own record and temporary file only.
LEMMA LocalStep ==
    ASSUME Inv, NEW c \in Commands, NEW q \in CommandRecords,
           NEW t \in Texts \cup Configs \cup {Nil, Torn}, NEW o \in Outcomes,
           cmd' = [cmd EXCEPT ![c] = q], UNCHANGED project,
           temp' = [temp EXCEPT ![c] = t], outcome' = [outcome EXCEPT ![c] = o],
           CommandOK(c)'
    PROVE  Inv'
<1>1. TypeOK' /\ FilesWhole' /\ served' \in ever'
  BY DEF Inv, TypeOK, FilesTyped, FilesWhole, project
<1>2. ASSUME NEW d \in Commands \ {c} PROVE CommandOK(d)'
  <2>1. cmd'[d] = cmd[d] /\ temp'[d] = temp[d] /\ outcome'[d] = outcome[d]
    BY DEF Inv, TypeOK
  <2>2. CommandOK(d)
    BY DEF Inv
  <2> QED
    BY <2>1, <2>2 DEF CommandOK, FlowOK, SourceOK, TempOK, OutputKept, NotModifiedOK, Conditional, project,
                      Accepted, DistinctTags, Tag
<1> QED
  BY <1>1, <1>2 DEF Inv

LEMMA EndStep ==
    ASSUME Inv, NEW c \in Commands, NEW o \in Outcomes, End(c, o),
           o \notin {"crashed", "unremoved"} => temp[c] = Nil
    PROVE  Inv'
<1>1. temp' = [temp EXCEPT ![c] = temp[c]] /\ temp[c] \in Texts \cup Configs \cup {Nil, Torn}
  BY DEF End, Inv, TypeOK
<1>2. cmd'[c] = Ended /\ outcome'[c] = o /\ temp'[c] = temp[c]
  BY DEF End, Inv, TypeOK
<1>3. CommandOK(c)'
  BY <1>2 DEF CommandOK, FlowOK, SourceOK, TempOK, OutputKept, NotModifiedOK, Conditional, Ended
<1> QED
  BY <1>1, <1>3, EndedTyped, LocalStep DEF End

\* A step that changes the record only.
LEMMA RecordStep ==
    ASSUME Inv, NEW c \in Commands, NEW q \in CommandRecords,
           cmd' = [cmd EXCEPT ![c] = q], UNCHANGED <<project, temp, outcome>>,
           CommandOK(c)'
    PROVE  Inv'
<1>1. /\ temp' = [temp EXCEPT ![c] = temp[c]] /\ temp[c] \in Texts \cup Configs \cup {Nil, Torn}
      /\ outcome' = [outcome EXCEPT ![c] = outcome[c]] /\ outcome[c] \in Outcomes
  BY DEF Inv, TypeOK
<1> QED
  BY <1>1, LocalStep

\* A command goes on at another await, where nothing more is required of it.
LEMMA GotoStep ==
    ASSUME Inv, NEW c \in Commands, NEW label \in Labels, Goto(c, label),
           cmd[c].pc # "idle", label \in {"inputs", "overwrite", "mkTemp", "offer", "undo"},
           label = "mkTemp" => cmd[c].pc = "propose",
           label \in {"inputs", "overwrite"} => cmd[c].pc \in {"exists", "overwrite"},
           label = "offer" => cmd[c].pc = "clean" /\ cmd[c].put.path = ConfigPath,
           label = "undo" => cmd[c].pc \in {"mkTemp", "fill", "rename"}
    PROVE  Inv'
<1> DEFINE q == [cmd[c] EXCEPT !.pc = label]
<1>1. cmd[c] \in CommandRecords /\ q \in CommandRecords
  BY DEF Inv, TypeOK, CommandRecords
<1>2. cmd' = [cmd EXCEPT ![c] = q] /\ UNCHANGED <<project, temp, outcome>>
  BY DEF Goto
<1>3. CommandOK(c)
  BY DEF Inv
<1>4. cmd'[c] = q
  BY <1>2 DEF Inv, TypeOK
<1>5. FlowOK(c)' /\ SourceOK(c)' /\ TempOK(c)'
  <2>1. FlowOK(c)'
    BY <1>1, <1>2, <1>3, <1>4, PathAssumption
       DEF CommandOK, FlowOK, Conditional, SourceOK, CommandRecords, OutputOK
  <2>2. SourceOK(c)'
    BY <1>1, <1>2, <1>3, <1>4 DEF CommandOK, SourceOK, CommandRecords, project, Accepted
  <2>3. TempOK(c)'
    BY <1>1, <1>2, <1>3, <1>4 DEF CommandOK, TempOK, CommandRecords
  <2> QED
    BY <2>1, <2>2, <2>3
<1>6. OutputKept(c)' /\ NotModifiedOK(c)'
  <2>1. label = "mkTemp" => OutputKept(c)'
    BY <1>1, <1>2, <1>3, <1>4 DEF CommandOK, FlowOK, OutputKept, project, CommandRecords
  <2> QED
    BY <2>1, <1>1, <1>2, <1>3, <1>4 DEF CommandOK, OutputKept, NotModifiedOK, Conditional, CommandRecords,
       project, DistinctTags, Tag
<1> QED
  BY <1>1, <1>2, <1>5, <1>6, RecordStep DEF CommandOK

-----------------------------------------------------------------------------
(* The actions. *)

LEMMA BeginInv ==
    ASSUME Inv, NEW c \in Commands, Begin(c)
    PROVE  Inv'
<1>1. PICK i \in Invocations :
        cmd' = [cmd EXCEPT ![c].inv = i, ![c].since = {served},
                           ![c].pc = IF i.op = "init" THEN "exists" ELSE "config"]
  BY DEF Begin
<1> DEFINE q == [cmd[c] EXCEPT !.inv = i, !.since = {served},
                               !.pc = IF i.op = "init" THEN "exists" ELSE "config"]
<1>2. cmd[c] = Ended /\ cmd[c] \in CommandRecords
  BY DEF Begin, Inv, CommandOK, FlowOK, TypeOK
<1>3. q \in CommandRecords
  BY <1>2 DEF CommandRecords, Labels, Inv, TypeOK, FilesTyped
<1>4. cmd' = [cmd EXCEPT ![c] = q] /\ cmd'[c] = q
  BY <1>1 DEF Inv, TypeOK
<1>5. UNCHANGED <<project, temp, outcome>> /\ temp[c] = Nil
  BY DEF Begin, Inv, CommandOK, TempOK
<1>6. CommandOK(c)'
  BY <1>2, <1>4, <1>5, NilAssumption DEF CommandOK, FlowOK, SourceOK, TempOK, OutputKept,
     NotModifiedOK, Conditional, Ended, Inv, project
<1> HIDE DEF q
<1> QED
  BY <1>3, <1>4, <1>5, <1>6, RecordStep

LEMMA InitCommandInv ==
    ASSUME Inv, NEW c \in Commands,
           LookForConfig(c) \/ Overwrite(c) \/ AskInputs(c) \/ Propose(c) \/ OfferPull(c)
    PROVE  Inv'
<1>0. /\ cmd[c] \in CommandRecords /\ CommandOK(c)
      /\ {"failed", "cancelled", "created"} \subseteq Outcomes
      /\ {"inputs", "overwrite", "mkTemp"} \subseteq Labels
  BY DEF Inv, TypeOK, Outcomes, Labels
<1>e. ASSUME NEW o \in {"failed", "cancelled", "created"}, End(c, o),
             cmd[c].pc \in {"exists", "overwrite", "inputs", "propose", "offer"}
      PROVE  Inv'
  <2>1. temp[c] = Nil
    BY <1>0, <1>e DEF CommandOK, TempOK
  <2>2. o \in Outcomes
    BY <1>0
  <2> QED
    BY <1>e, <2>1, <2>2, EndStep
<1>1. CASE LookForConfig(c)
  <2>1. cmd[c].pc = "exists" /\ (Goto(c, "inputs") \/ Goto(c, "overwrite") \/ End(c, "failed"))
    BY <1>1 DEF LookForConfig
  <2> QED
    BY <1>0, <2>1, <1>e, GotoStep
<1>2. CASE Overwrite(c)
  <2>1. cmd[c].pc = "overwrite" /\ (Goto(c, "inputs") \/ End(c, "cancelled") \/ End(c, "failed"))
    BY <1>2 DEF Overwrite
  <2> QED
    BY <1>0, <2>1, <1>e, GotoStep
<1>3. CASE AskInputs(c)
  <2>1. ASSUME NEW k \in Configs,
               cmd' = [cmd EXCEPT ![c].put = [path |-> ConfigPath, text |-> k],
                         ![c].pc = IF Interactive(cmd[c].inv) THEN "propose" ELSE "mkTemp"],
               UNCHANGED <<project, temp, outcome>>
        PROVE  Inv'
    <3> DEFINE q == [cmd[c] EXCEPT !.put = [path |-> ConfigPath, text |-> k],
                         !.pc = IF Interactive(cmd[c].inv) THEN "propose" ELSE "mkTemp"]
    <3>1. q \in CommandRecords
      <4> DEFINE put == [path |-> ConfigPath, text |-> k]
                 label == IF Interactive(cmd[c].inv) THEN "propose" ELSE "mkTemp"
      <4>1. put \in Puts /\ label \in Labels
        BY PathAssumption DEF Puts, Labels
      <4> HIDE DEF put, label
      <4>2. [cmd[c] EXCEPT !.put = put] \in CommandRecords
        BY <1>0, <4>1 DEF CommandRecords
      <4>3. [[cmd[c] EXCEPT !.put = put] EXCEPT !.pc = label] \in CommandRecords
        BY <4>1, <4>2 DEF CommandRecords
      <4> QED
        BY <4>3 DEF put, label
    <3>2. cmd' = [cmd EXCEPT ![c] = q] /\ cmd'[c] = q
      BY <2>1 DEF Inv, TypeOK
    <3>3. [path |-> ConfigPath, text |-> k] # Nil
      <4>1. [path |-> ConfigPath, text |-> k] \in Puts
        BY PathAssumption DEF Puts
      <4> QED
        BY <4>1, NilAssumption
    <3>4. cmd[c].pc = "inputs" /\ cmd[c].cfg = Nil /\ temp[c] = Nil
      BY <1>0, <1>3 DEF AskInputs, CommandOK, FlowOK, TempOK
    <3>5. FlowOK(c)' /\ SourceOK(c)'
      <4>1. FlowOK(c)'
        BY <1>0, <3>2, <3>3, <3>4 DEF CommandOK, FlowOK, Conditional, CommandRecords
      <4>2. /\ cmd'[c].since = cmd[c].since /\ cmd'[c].answer = cmd[c].answer /\ cmd'[c].cfg = Nil
            /\ cmd'[c].put = [path |-> ConfigPath, text |-> k] /\ ever' = ever /\ served' = served
        BY <1>0, <2>1, <3>2, <3>4 DEF CommandRecords, project
      <4>3. SourceOK(c)'
        BY <1>0, <3>4, <4>2 DEF CommandOK, SourceOK, Accepted
      <4> QED
        BY <4>1, <4>3
    <3>6. TempOK(c)' /\ OutputKept(c)' /\ NotModifiedOK(c)'
      BY <1>0, <2>1, <3>2, <3>4 DEF CommandOK, TempOK, OutputKept, NotModifiedOK, Conditional, CommandRecords,
         project, DistinctTags, Tag
    <3> HIDE DEF q
    <3> QED
      BY <2>1, <3>1, <3>2, <3>5, <3>6, RecordStep DEF CommandOK
  <2> QED
    BY <1>3, <1>e, <2>1 DEF AskInputs
<1>4. CASE Propose(c)
  BY <1>0, <1>4, <1>e, GotoStep DEF Propose
<1>5. CASE OfferPull(c)
  <2>1. CASE cmd' = [cmd EXCEPT ![c].pc = "config", ![c].put = Nil]
             /\ UNCHANGED <<project, temp, outcome>>
    <3> DEFINE q == [cmd[c] EXCEPT !.pc = "config", !.put = Nil]
    <3>1. q \in CommandRecords
      BY <1>0 DEF CommandRecords, Labels
    <3>2. cmd' = [cmd EXCEPT ![c] = q] /\ cmd'[c] = q
      BY <2>1 DEF Inv, TypeOK
    <3>3. CommandOK(c)'
      BY <1>0, <1>5, <2>1, <3>2 DEF OfferPull, CommandOK, FlowOK, SourceOK, TempOK, OutputKept,
         NotModifiedOK, Conditional, CommandRecords, project, Accepted, DistinctTags, Tag
    <3> QED
      BY <2>1, <3>1, <3>2, <3>3, RecordStep
  <2> QED
    BY <1>5, <1>e, <2>1 DEF OfferPull
<1> QED
  BY <1>1, <1>2, <1>3, <1>4, <1>5

\* A command that ends when it has no temporary file.
LEMMA EndsCleanly ==
    ASSUME Inv, NEW c \in Commands, NEW o \in Outcomes, End(c, o),
           cmd[c].pc \notin {"idle", "fill", "rename", "undo"}
    PROVE  Inv'
<1>1. temp[c] = Nil
  BY DEF Inv, CommandOK, TempOK
<1> QED
  BY <1>1, EndStep

LEMMA ReadConfigInv ==
    ASSUME Inv, NEW c \in Commands, ReadConfig(c)
    PROVE  Inv'
<1>0. cmd[c] \in CommandRecords /\ CommandOK(c) /\ cmd[c].pc = "config" /\ cmd[c].cfg = Nil
  BY DEF Inv, TypeOK, ReadConfig, CommandOK, FlowOK
<1>1. CASE Usable(file[ConfigPath])
  <2> DEFINE k == file[ConfigPath]
             q == [cmd[c] EXCEPT !.pc = "local", !.cfg = k]
  <2>1. k \in Configs /\ k # Nil
    BY <1>1, PathAssumption DEF Usable, Inv, FilesWhole
  <2>2. q \in CommandRecords
    <3>1. "local" \in Labels
      BY DEF Labels
    <3> HIDE DEF k
    <3> QED
      BY <1>0, <2>1, <3>1 DEF CommandRecords
  <2>3. cmd' = [cmd EXCEPT ![c] = q] /\ cmd'[c] = q /\ UNCHANGED <<project, temp, outcome>>
    BY <1>1 DEF ReadConfig, Inv, TypeOK
  <2>4. FlowOK(c)' /\ SourceOK(c)'
    BY <1>0, <1>1, <2>1, <2>3 DEF Usable, CommandOK, FlowOK, Conditional, SourceOK, CommandRecords, project
  <2>5. TempOK(c)' /\ OutputKept(c)' /\ NotModifiedOK(c)'
    BY <1>0, <2>3 DEF CommandOK, FlowOK, TempOK, OutputKept, NotModifiedOK, Conditional, CommandRecords
  <2> HIDE DEF q
  <2> QED
    BY <2>2, <2>3, <2>4, <2>5, RecordStep DEF CommandOK
<1>2. CASE ~Usable(file[ConfigPath])
  <2>1. End(c, "failed") /\ "failed" \in Outcomes
    BY <1>2 DEF ReadConfig, Outcomes
  <2> QED
    BY <1>0, <2>1, EndsCleanly
<1> QED
  BY <1>1, <1>2

LEMMA ReadLocalInv ==
    ASSUME Inv, NEW c \in Commands, ReadLocal(c)
    PROVE  Inv'
<1> DEFINE t == file[cmd[c].cfg.output]
<1>0. cmd[c] \in CommandRecords /\ CommandOK(c) /\ cmd[c].pc = "local" /\ cmd[c].cfg # Nil
  BY DEF Inv, TypeOK, ReadLocal, CommandOK, FlowOK
<1>1. CASE MaySend(cmd[c].inv, cmd[c].cfg, t)
  <2> DEFINE q == [cmd[c] EXCEPT !.pc = "wait", !.local = t, !.touched = FALSE]
  <2>1. t \in Texts \cup {Nil}
    <3>1. cmd[c].cfg.output \in Paths \ {ConfigPath}
      BY <1>0, ConfigAssumption DEF CommandOK, FlowOK, OutputOK, CommandRecords, ConfigRecords
    <3> QED
      BY <3>1 DEF Inv, FilesWhole, TypeOK, FilesTyped
  <2>2. q \in CommandRecords
    <3> DEFINE read == [cmd[c] EXCEPT !.local = t]
    <3>1. "wait" \in Labels
      BY DEF Labels
    <3>2. read \in CommandRecords
      BY <1>0, <2>1 DEF CommandRecords
    <3> HIDE DEF t
    <3>3. q = [[read EXCEPT !.pc = "wait"] EXCEPT !.touched = FALSE]
      BY <1>0 DEF CommandRecords
    <3> HIDE DEF read, q
    <3> QED
      BY <3>1, <3>2, <3>3 DEF CommandRecords
  <2>3. cmd' = [cmd EXCEPT ![c] = q] /\ cmd'[c] = q /\ UNCHANGED <<project, temp, outcome>>
    BY <1>1 DEF ReadLocal, Inv, TypeOK
  <2>4. FlowOK(c)' /\ SourceOK(c)'
    BY <1>0, <1>1, <2>1, <2>3 DEF CommandOK, FlowOK, Conditional, SourceOK, CommandRecords, project,
       MaySend
  <2>5. TempOK(c)' /\ OutputKept(c)' /\ NotModifiedOK(c)'
    BY <1>0, <2>3 DEF CommandOK, FlowOK, TempOK, OutputKept, NotModifiedOK, Conditional, CommandRecords, project
  <2> HIDE DEF q
  <2> QED
    BY <2>2, <2>3, <2>4, <2>5, RecordStep DEF CommandOK
<1>2. CASE ~MaySend(cmd[c].inv, cmd[c].cfg, t)
  <2>1. End(c, "failed") /\ "failed" \in Outcomes
    BY <1>2 DEF ReadLocal, Outcomes
  <2> QED
    BY <1>0, <2>1, EndsCleanly
<1> QED
  BY <1>1, <1>2

\* An answer is the artifact of the moment or nothing that would be installed,
\* and a 304 to a request with a validator speaks of an artifact served.
LEMMA AnsweredInv ==
    ASSUME Inv, NEW c \in Commands, NEW a \in Answers, Answered(c, a),
           Accepted(a) => a.text = served,
           DistinctTags /\ a.status = "notModified" /\ Conditional(cmd[c]) => cmd[c].local = served
    PROVE  Inv'
<1> DEFINE q == [cmd[c] EXCEPT !.pc = "answer", !.answer = a]
<1>0. cmd[c] \in CommandRecords /\ CommandOK(c) /\ cmd[c].pc = "wait"
  BY DEF Inv, TypeOK, Answered
<1>1. q \in CommandRecords
  BY <1>0 DEF CommandRecords, Labels
<1>2. cmd' = [cmd EXCEPT ![c] = q] /\ cmd'[c] = q /\ UNCHANGED <<project, temp, outcome>>
  BY DEF Answered, Inv, TypeOK
<1>3. a # Nil
  BY NilAssumption
<1>4. FlowOK(c)' /\ SourceOK(c)'
  BY <1>0, <1>2, <1>3 DEF CommandOK, FlowOK, Conditional, SourceOK, CommandRecords, project, Accepted
<1>5. TempOK(c)' /\ OutputKept(c)' /\ NotModifiedOK(c)'
  BY <1>0, <1>2 DEF CommandOK, FlowOK, SourceOK, TempOK, OutputKept, NotModifiedOK, Conditional, CommandRecords,
     project, DistinctTags, Tag
<1> HIDE DEF q
<1> QED
  BY <1>1, <1>2, <1>4, <1>5, RecordStep DEF CommandOK

LEMMA RespondInv ==
    ASSUME Inv, NEW c \in Commands, Respond(c) \/ RespondBadly(c)
    PROVE  Inv'
<1>0. cmd[c].local \in Texts \cup {Nil} /\ served \in Artifacts /\ served \in Texts /\ Valid(served)
  BY TextAssumption DEF Inv, TypeOK, FilesTyped, CommandRecords
<1>1. CASE Respond(c)
  <2> DEFINE a == Reply(cmd[c].local)
  <2>1. a \in Answers
    BY <1>0 DEF Reply, Answers
  <2>2. Accepted(a) => a.text = served
    BY DEF Reply, Accepted
  <2>3. DistinctTags /\ a.status = "notModified" => cmd[c].local = served
    BY <1>0 DEF Reply, DistinctTags
  <2>4. Answered(c, a)
    BY <1>1 DEF Respond
  <2> HIDE DEF a
  <2> QED
    BY <2>1, <2>2, <2>3, <2>4, AnsweredInv
<1>2. CASE Answered(c, [status |-> "error"])
  <2> DEFINE a == [status |-> "error"]
  <2>1. a \in Answers /\ a.status = "error" /\ ~Accepted(a)
    BY DEF Answers, Accepted
  <2>2. Answered(c, a)
    BY <1>2
  <2> HIDE DEF a
  <2> QED
    BY <2>1, <2>2, AnsweredInv
<1>3. ASSUME NEW t \in Foreign, Answered(c, [status |-> "ok", text |-> t]) PROVE Inv'
  <2> DEFINE a == [status |-> "ok", text |-> t]
  <2>1. a \in Answers /\ a.status = "ok" /\ ~Accepted(a)
    BY TextAssumption DEF Answers, Accepted
  <2>2. Answered(c, a)
    BY <1>3
  <2> HIDE DEF a
  <2> QED
    BY <2>1, <2>2, AnsweredInv
<1>4. CASE ~Conditional(cmd[c]) /\ Answered(c, [status |-> "notModified"])
  <2> DEFINE a == [status |-> "notModified"]
  <2>1. a \in Answers /\ ~Accepted(a)
    BY DEF Answers, Accepted
  <2>2. Answered(c, a) /\ ~Conditional(cmd[c])
    BY <1>4
  <2> HIDE DEF a
  <2> QED
    BY <2>1, <2>2, AnsweredInv
<1> QED
  BY <1>1, <1>2, <1>3, <1>4 DEF RespondBadly

LEMMA ReceiveInv ==
    ASSUME Inv, NEW c \in Commands, Receive(c)
    PROVE  Inv'
<1>0. /\ cmd[c] \in CommandRecords /\ CommandOK(c) /\ cmd[c].pc = "answer"
      /\ cmd[c].cfg # Nil /\ cmd[c].answer # Nil
      /\ {"stale", "current", "unchanged", "failed"} \subseteq Outcomes
  BY DEF Inv, TypeOK, Receive, CommandOK, FlowOK, Outcomes
<1>1. CASE Differs(cmd[c]) /\ cmd[c].inv.op # "check"
  <2> DEFINE w == [path |-> cmd[c].cfg.output, text |-> cmd[c].answer.text]
             q == [cmd[c] EXCEPT !.pc = "mkTemp", !.put = w]
  <2>1. w \in Puts /\ w # Nil
    <3>1. cmd[c].cfg.output \in Paths
      BY <1>0, ConfigAssumption DEF CommandRecords, ConfigRecords
    <3>2. cmd[c].answer.text \in Texts
      BY <1>0, <1>1 DEF CommandRecords, Answers, Differs, Accepted
    <3> QED
      BY <3>1, <3>2, NilAssumption DEF Puts
  <2>2. cmd[c].answer.text \in cmd[c].since
    BY <1>0, <1>1 DEF CommandOK, SourceOK, Differs
  <2>3. cmd' = [cmd EXCEPT ![c].pc = "mkTemp", ![c].put = w] /\ UNCHANGED <<project, temp, outcome>>
    BY <1>1, <1>0 DEF Receive, Same, Differs, Accepted, End, Refuse
  <2>4. cmd' = [cmd EXCEPT ![c] = q] /\ cmd'[c] = q
    BY <2>3 DEF Inv, TypeOK
  <2>5. w.path = cmd[c].cfg.output /\ w.text = cmd[c].answer.text
    OBVIOUS
  <2> HIDE DEF w
  <2>6. q \in CommandRecords
    BY <1>0, <2>1 DEF CommandRecords, Labels
  <2>7. FlowOK(c)' /\ SourceOK(c)'
    BY <1>0, <2>1, <2>2, <2>3, <2>4, <2>5
       DEF CommandOK, FlowOK, Conditional, SourceOK, CommandRecords, project, Accepted
  <2>8. TempOK(c)' /\ OutputKept(c)' /\ NotModifiedOK(c)'
    BY <1>0, <2>3, <2>4 DEF CommandOK, FlowOK, TempOK, OutputKept, NotModifiedOK, Conditional, CommandRecords,
       project, DistinctTags, Tag
  <2> HIDE DEF q
  <2> QED
    BY <2>3, <2>4, <2>6, <2>7, <2>8, RecordStep DEF CommandOK
<1>2. CASE ~(Differs(cmd[c]) /\ cmd[c].inv.op # "check")
  <2>1. PICK o \in {"stale", "current", "unchanged", "failed"} : End(c, o)
    BY <1>2 DEF Receive, Refuse
  <2> QED
    BY <1>0, <2>1, EndsCleanly
<1> QED
  BY <1>1, <1>2

\* atomicWrite up to the rename, and the removal after a failure.
LEMMA TempInv ==
    ASSUME Inv, NEW c \in Commands, MakeTemp(c) \/ FillTemp(c) \/ WriteFails(c) \/ Undo(c)
    PROVE  Inv'
<1>0. cmd[c] \in CommandRecords /\ CommandOK(c)
  BY DEF Inv, TypeOK
<1>1. CASE MakeTemp(c)
  <2> DEFINE q == [cmd[c] EXCEPT !.pc = "fill"]
  <2>1. q \in CommandRecords
    BY <1>0 DEF CommandRecords, Labels
  <2>2. /\ cmd' = [cmd EXCEPT ![c] = q] /\ cmd'[c] = q /\ cmd[c].pc = "mkTemp"
        /\ temp' = [temp EXCEPT ![c] = Torn] /\ UNCHANGED project
        /\ outcome' = [outcome EXCEPT ![c] = outcome[c]] /\ outcome[c] \in Outcomes
    BY <1>1 DEF MakeTemp, Inv, TypeOK
  <2>3. FlowOK(c)' /\ SourceOK(c)'
    BY <1>0, <2>2 DEF CommandOK, FlowOK, Conditional, SourceOK, CommandRecords, project, Accepted
  <2>4. TempOK(c)' /\ OutputKept(c)' /\ NotModifiedOK(c)'
    BY <1>0, <2>2 DEF CommandOK, TempOK, OutputKept, NotModifiedOK, Conditional, CommandRecords,
       project, DistinctTags, Tag
  <2> HIDE DEF q
  <2> QED
    BY <2>1, <2>2, <2>3, <2>4, LocalStep DEF CommandOK
<1>2. CASE FillTemp(c)
  <2> DEFINE q == [cmd[c] EXCEPT !.pc = "rename"]
             t == cmd[c].put.text
  <2>1. q \in CommandRecords /\ cmd[c].put \in Puts
    BY <1>0, <1>2 DEF FillTemp, CommandRecords, Labels, CommandOK, FlowOK
  <2>2. t \in Texts \cup Configs
    BY <2>1 DEF Puts
  <2>3. /\ cmd' = [cmd EXCEPT ![c] = q] /\ cmd'[c] = q /\ cmd[c].pc = "fill"
        /\ temp' = [temp EXCEPT ![c] = t] /\ temp'[c] = t /\ UNCHANGED project
        /\ outcome' = [outcome EXCEPT ![c] = outcome[c]] /\ outcome[c] \in Outcomes
    BY <1>2 DEF FillTemp, Written, Inv, TypeOK
  <2>4. FlowOK(c)' /\ SourceOK(c)'
    BY <1>0, <2>3 DEF CommandOK, FlowOK, Conditional, SourceOK, CommandRecords, project, Accepted
  <2>5. TempOK(c)' /\ OutputKept(c)' /\ NotModifiedOK(c)'
    BY <1>0, <2>3 DEF CommandOK, TempOK, OutputKept, NotModifiedOK, Conditional, CommandRecords,
       project, DistinctTags, Tag
  <2> HIDE DEF q, t
  <2> QED
    BY <2>1, <2>2, <2>3, <2>4, <2>5, LocalStep DEF CommandOK
<1>3. CASE WriteFails(c)
  <2>1. "undo" \in Labels
    BY DEF Labels
  <2> QED
    BY <1>3, <2>1, GotoStep DEF WriteFails
<1>4. CASE Undo(c)
  <2>1. ASSUME temp' = Removed(c), cmd' = [cmd EXCEPT ![c] = Ended],
               outcome' = [outcome EXCEPT ![c] = "failed"], UNCHANGED project
        PROVE  Inv'
    <3>1. /\ cmd'[c] = Ended /\ temp' = [temp EXCEPT ![c] = Nil] /\ temp'[c] = Nil
          /\ "failed" \in Outcomes
      BY <2>1 DEF Removed, Inv, TypeOK, Outcomes
    <3>2. CommandOK(c)'
      BY <2>1, <3>1 DEF CommandOK, FlowOK, SourceOK, TempOK, OutputKept, NotModifiedOK, Ended
    <3> QED
      BY <2>1, <3>1, <3>2, EndedTyped, LocalStep
  <2>2. ASSUME End(c, "unremoved") PROVE Inv'
    BY <2>2, EndStep DEF Outcomes
  <2> QED
    BY <1>4, <2>1, <2>2 DEF Undo
<1> QED
  BY <1>1, <1>2, <1>3, <1>4

LEMMA FailInv ==
    ASSUME Inv, NEW c \in Commands, ReadFails(c) \/ Crash(c) \/ Clean(c)
    PROVE  Inv'
<1>1. CASE ReadFails(c)
  <2>1. "failed" \in Outcomes
    BY DEF Outcomes
  <2> QED
    BY <1>1, <2>1, EndsCleanly DEF ReadFails
<1>2. CASE Crash(c)
  <2>1. "crashed" \in Outcomes
    BY DEF Outcomes
  <2> QED
    BY <1>2, <2>1, EndStep DEF Crash
<1>3. CASE Clean(c)
  <2>1. {"created", "updated", "failed"} \subseteq Outcomes /\ "offer" \in Labels
    BY DEF Outcomes, Labels
  <2>2. CASE cmd[c].put.path = ConfigPath /\ Goto(c, "offer")
    BY <1>3, <2>1, <2>2, GotoStep DEF Clean
  <2>3. ASSUME NEW o \in {"created", "updated", "failed"}, End(c, o) PROVE Inv'
    BY <1>3, <2>1, <2>3, EndsCleanly DEF Clean
  <2> QED
    BY <1>3, <2>2, <2>3 DEF Clean
<1> QED
  BY <1>1, <1>2, <1>3

-----------------------------------------------------------------------------
(* Steps that change the project: a rename, an edit, a deployment. *)

\* A rename writes a configuration to CONFIG_FILE or a served text to an output.
LEMMA RenameWrites ==
    ASSUME Inv, NEW c \in Commands, Rename(c)
    PROVE  /\ cmd[c].put \in Puts /\ cmd[c].put # Nil /\ temp[c] = cmd[c].put.text
           /\ cmd[c].put.path = ConfigPath => temp[c] \in Configs
           /\ cmd[c].put.path # ConfigPath => temp[c] \in cmd[c].since /\ temp[c] \in ever
<1>1. cmd[c] \in CommandRecords /\ CommandOK(c) /\ cmd[c].pc = "rename"
  BY DEF Inv, TypeOK, Rename
<1>2. cmd[c].put \in Puts /\ cmd[c].put # Nil /\ temp[c] = cmd[c].put.text
  BY <1>1 DEF CommandOK, FlowOK, TempOK, CommandRecords
<1>3. CASE cmd[c].cfg = Nil
  BY <1>1, <1>2, <1>3 DEF CommandOK, SourceOK
<1>4. CASE cmd[c].cfg # Nil
  BY <1>1, <1>2, <1>4 DEF CommandOK, FlowOK, SourceOK, OutputOK
<1> QED
  BY <1>2, <1>3, <1>4

LEMMA RenameInv ==
    ASSUME Inv, NEW c \in Commands, Rename(c)
    PROVE  Inv'
<1> DEFINE p == cmd[c].put.path
<1>1. /\ cmd[c].pc = "rename" /\ p \in Paths /\ temp[c] \in Texts \cup Configs /\ temp[c] # Nil
      /\ p = ConfigPath => temp[c] \in Configs
      /\ p # ConfigPath => temp[c] \in ever
  BY RenameWrites, NilAssumption DEF Rename, Puts
<1>2. /\ file' = [file EXCEPT ![p] = temp[c]] /\ temp' = [temp EXCEPT ![c] = Nil]
      /\ UNCHANGED <<served, deploys, edits, ever, outcome>>
      /\ \A d \in Commands : cmd'[d] =
            IF d = c THEN [cmd[d] EXCEPT !.pc = "clean"]
            ELSE IF d \in Users(p) THEN [cmd[d] EXCEPT !.touched = TRUE] ELSE cmd[d]
      /\ cmd' = [d \in Commands |-> cmd'[d]]
  BY DEF Rename, Touched
<1>3. \A d \in Commands : cmd[d] \in CommandRecords /\ CommandOK(d)
  BY DEF Inv, TypeOK
<1>4. TypeOK'
  <2>1. ASSUME NEW d \in Commands PROVE cmd'[d] \in CommandRecords
    <3>1. "clean" \in Labels
      BY DEF Labels
    <3>2. [cmd[d] EXCEPT !.touched = TRUE] \in CommandRecords
      BY <1>3 DEF CommandRecords
    <3>3. [cmd[d] EXCEPT !.pc = "clean"] \in CommandRecords
      BY <1>3, <3>1 DEF CommandRecords
    <3> QED
      BY <1>2, <1>3, <3>2, <3>3
  <2>2. cmd' \in [Commands -> CommandRecords]
    BY <1>2, <2>1
  <2> QED
    BY <1>1, <1>2, <2>2 DEF Inv, TypeOK, FilesTyped
<1>5. FilesWhole' /\ served' \in ever'
  BY <1>1, <1>2 DEF Inv, FilesWhole, TypeOK, FilesTyped
<1>6. CommandOK(c)'
  <2>1. cmd'[c] = [cmd[c] EXCEPT !.pc = "clean"] /\ temp'[c] = Nil
    BY <1>2 DEF Inv, TypeOK
  <2>2. cmd[c].cfg # Nil => cmd[c].cfg.output = p /\ file'[p] = cmd[c].put.text
    BY <1>1, <1>2, <1>3, RenameWrites DEF CommandOK, SourceOK, Inv, TypeOK, FilesTyped
  <2>3. FlowOK(c)' /\ SourceOK(c)' /\ TempOK(c)'
    BY <1>1, <1>2, <1>3, <2>1
       DEF CommandOK, FlowOK, Conditional, SourceOK, TempOK, CommandRecords, Accepted
  <2>4. OutputKept(c)' /\ NotModifiedOK(c)'
    BY <1>1, <1>2, <1>3, <2>1, <2>2
       DEF CommandOK, OutputKept, NotModifiedOK, Conditional, CommandRecords, DistinctTags, Tag
  <2> QED
    BY <2>3, <2>4 DEF CommandOK
<1>7. ASSUME NEW d \in Commands \ {c} PROVE CommandOK(d)'
  <2>1. /\ cmd'[d] = IF d \in Users(p) THEN [cmd[d] EXCEPT !.touched = TRUE] ELSE cmd[d]
        /\ temp'[d] = temp[d] /\ outcome'[d] = outcome[d]
    BY <1>2 DEF Inv, TypeOK
  <2>2. cmd[d].pc # "idle" \/ cmd'[d] = cmd[d]
    BY <1>3, <2>1 DEF CommandOK, FlowOK, Ended, Users
  <2>3. FlowOK(d)'
    BY <1>2, <1>3, <2>1, <2>2 DEF CommandOK, FlowOK, Conditional, CommandRecords
  <2>4. SourceOK(d)' /\ TempOK(d)' /\ NotModifiedOK(d)'
    BY <1>2, <1>3, <2>1
       DEF CommandOK, SourceOK, TempOK, NotModifiedOK, Conditional, CommandRecords, Accepted, DistinctTags, Tag
  <2>5. OutputKept(d)'
    <3>1. cmd'[d].cfg # Nil /\ ~cmd'[d].touched => cmd[d].cfg.output # p /\ ~cmd[d].touched
      BY <1>3, <2>1 DEF Users, CommandRecords
    <3> QED
      BY <1>1, <1>2, <1>3, <2>1, <3>1 DEF CommandOK, OutputKept, CommandRecords, Inv, TypeOK,
         FilesTyped
  <2> QED
    BY <2>3, <2>4, <2>5 DEF CommandOK
<1> QED
  BY <1>4, <1>5, <1>6, <1>7 DEF Inv

LEMMA EditInv ==
    ASSUME Inv, NEW p \in Paths, Edit(p)
    PROVE  Inv'
<1>1. PICK t \in (Texts \cup {Nil}) \ {file[p]} :
        file' = [file EXCEPT ![p] = t] /\ ever' = (ever \cup {t}) \ {Nil}
  BY DEF Edit
<1>2. /\ p # ConfigPath /\ edits < MaxEdits /\ edits' = edits + 1
      /\ UNCHANGED <<served, deploys, temp, outcome>>
      /\ \A d \in Commands : cmd'[d] = IF d \in Users(p) THEN [cmd[d] EXCEPT !.touched = TRUE] ELSE cmd[d]
      /\ cmd' = [d \in Commands |-> cmd'[d]]
  BY DEF Edit, Touched
<1>3. \A d \in Commands : cmd[d] \in CommandRecords /\ CommandOK(d)
  BY DEF Inv, TypeOK
<1>4. ever \subseteq ever' /\ ever' \subseteq Texts
  BY <1>1, NilAssumption DEF Inv, TypeOK, FilesTyped
<1>5. TypeOK'
  <2>1. ASSUME NEW d \in Commands PROVE cmd'[d] \in CommandRecords
    <3>1. [cmd[d] EXCEPT !.touched = TRUE] \in CommandRecords
      BY <1>3 DEF CommandRecords
    <3> QED
      BY <1>2, <1>3, <3>1
  <2>2. cmd' \in [Commands -> CommandRecords]
    BY <1>2, <2>1
  <2>3. edits' \in 0 .. MaxEdits
    BY <1>2, BoundAssumption DEF Inv, TypeOK, FilesTyped
  <2> QED
    BY <1>1, <1>2, <1>4, <2>2, <2>3 DEF Inv, TypeOK, FilesTyped
<1>6. FilesWhole' /\ served' \in ever'
  BY <1>1, <1>2, <1>4 DEF Inv, FilesWhole, TypeOK, FilesTyped
<1>7. ASSUME NEW d \in Commands PROVE CommandOK(d)'
  <2>1. cmd'[d] = IF d \in Users(p) THEN [cmd[d] EXCEPT !.touched = TRUE] ELSE cmd[d]
    BY <1>2
  <2>2. cmd[d].pc # "idle" \/ cmd'[d] = cmd[d]
    BY <1>3, <2>1 DEF CommandOK, FlowOK, Ended, Users
  <2>3. FlowOK(d)'
    BY <1>2, <1>3, <2>1, <2>2 DEF CommandOK, FlowOK, Conditional, CommandRecords
  <2>4. SourceOK(d)' /\ TempOK(d)' /\ NotModifiedOK(d)'
    BY <1>2, <1>3, <1>4, <2>1
       DEF CommandOK, SourceOK, TempOK, NotModifiedOK, Conditional, CommandRecords, Accepted, DistinctTags, Tag
  <2>5. OutputKept(d)'
    <3>1. cmd'[d].cfg # Nil /\ ~cmd'[d].touched => cmd[d].cfg.output # p /\ ~cmd[d].touched
      BY <1>3, <2>1 DEF Users, CommandRecords
    <3> QED
      BY <1>1, <1>2, <1>3, <2>1, <3>1 DEF CommandOK, OutputKept, CommandRecords, Inv, TypeOK,
         FilesTyped
  <2> QED
    BY <2>3, <2>4, <2>5 DEF CommandOK
<1> QED
  BY <1>5, <1>6, <1>7 DEF Inv

LEMMA RedeployInv ==
    ASSUME Inv, Redeploy
    PROVE  Inv'
<1>1. /\ deploys < MaxDeploys /\ deploys' = deploys + 1 /\ served' \in Artifacts
      /\ ever' = ever \cup {served'} /\ UNCHANGED <<file, edits, temp, outcome>>
      /\ \A d \in Commands : cmd'[d] =
           IF cmd[d].pc = "idle" THEN cmd[d] ELSE [cmd[d] EXCEPT !.since = @ \cup {served'}]
      /\ cmd' = [d \in Commands |-> cmd'[d]]
  BY DEF Redeploy
<1>2. \A d \in Commands : cmd[d] \in CommandRecords /\ CommandOK(d)
  BY DEF Inv, TypeOK
<1>3. TypeOK'
  <2>1. ASSUME NEW d \in Commands PROVE cmd'[d] \in CommandRecords
    <3>1. [cmd[d] EXCEPT !.since = @ \cup {served'}] \in CommandRecords
      BY <1>1, <1>2 DEF CommandRecords
    <3> QED
      BY <1>1, <1>2, <3>1
  <2>2. cmd' \in [Commands -> CommandRecords]
    BY <1>1, <2>1
  <2>3. deploys' \in 0 .. MaxDeploys
    BY <1>1, BoundAssumption DEF Inv, TypeOK, FilesTyped
  <2> QED
    BY <1>1, <2>2, <2>3, TextAssumption DEF Inv, TypeOK, FilesTyped
<1>4. FilesWhole' /\ served' \in ever'
  BY <1>1 DEF Inv, FilesWhole
<1>5. ASSUME NEW d \in Commands PROVE CommandOK(d)'
  <2>1. CASE cmd[d].pc = "idle"
    <3>1. cmd'[d] = Ended /\ cmd[d] = Ended
      BY <1>1, <1>2, <2>1 DEF CommandOK, FlowOK, Conditional
    <3> QED
      BY <1>1, <1>2, <3>1
         DEF CommandOK, FlowOK, SourceOK, TempOK, OutputKept, NotModifiedOK, Conditional, Ended
  <2>2. CASE cmd[d].pc # "idle"
    <3>1. cmd'[d] = [cmd[d] EXCEPT !.since = @ \cup {served'}]
      BY <1>1, <2>2
    <3>2. FlowOK(d)' /\ TempOK(d)' /\ OutputKept(d)'
      BY <1>1, <1>2, <2>2, <3>1 DEF CommandOK, FlowOK, Conditional, TempOK, OutputKept, CommandRecords
    <3>3. SourceOK(d)' /\ NotModifiedOK(d)'
      BY <1>1, <1>2, <2>2, <3>1
         DEF CommandOK, SourceOK, NotModifiedOK, Conditional, CommandRecords, Accepted, DistinctTags, Tag
    <3> QED
      BY <3>2, <3>3 DEF CommandOK
  <2> QED
    BY <2>1, <2>2
<1> QED
  BY <1>3, <1>4, <1>5 DEF Inv

LEMMA NextInv == Inv /\ [Next]_vars => Inv'
<1> SUFFICES ASSUME Inv, [Next]_vars PROVE Inv'
  OBVIOUS
<1>1. ASSUME NEW c \in Commands, Begin(c) \/ Step(c) \/ Fault(c) PROVE Inv'
  BY <1>1, BeginInv, InitCommandInv, ReadConfigInv, ReadLocalInv, RespondInv, ReceiveInv, TempInv,
     RenameInv, FailInv DEF Step, Fault
<1>2. CASE UNCHANGED vars
  BY <1>2 DEF vars, Inv, TypeOK, FilesTyped, FilesWhole, CommandOK, FlowOK, SourceOK, TempOK,
     OutputKept, NotModifiedOK, Conditional, Accepted, DistinctTags, Tag
<1> QED
  BY <1>1, <1>2, EditInv, RedeployInv DEF Next

-----------------------------------------------------------------------------
(* The theorems. *)

\* Every reachable state is well formed, and the invariant holds in it.
THEOREM InvHolds == Spec => []Inv
BY InitInv, NextInv, PTL DEF Spec

\* Variables keep their types, for any number of commands, texts and paths.
THEOREM TypeCorrect == Spec => []TypeOK
<1>1. Inv => TypeOK
  BY DEF Inv
<1> QED
  BY <1>1, InvHolds, PTL

\* atomicWrite: whatever runs together, fails or is killed, outputs and the
\* configuration are absent or whole.
THEOREM FilesCorrect == Spec => []FilesWhole
<1>1. Inv => FilesWhole
  BY DEF Inv
<1> QED
  BY <1>1, InvHolds, PTL

\* A temporary file is left only by a process that was killed, or by one whose
\* last error is that of the removal.
THEOREM TempCorrect == Spec => []TempRemoved
<1>1. Inv => TempRemoved
  BY DEF Inv, CommandOK, TempOK, TempRemoved
<1> QED
  BY <1>1, InvHolds, PTL

-----------------------------------------------------------------------------
(* What a step may do to a command: only its own steps move it. *)

LEMMA OthersStay ==
    ASSUME Inv, NEW c \in Commands, Next,
           ~(Begin(c) \/ Step(c) \/ Fault(c))
    PROVE  cmd'[c].pc = cmd[c].pc
<1>1. ASSUME NEW d \in Commands \ {c}, Begin(d) \/ Step(d) \/ Fault(d)
      PROVE  cmd'[c].pc = cmd[c].pc
  <2>1. cmd \in [Commands -> CommandRecords]
    BY DEF Inv, TypeOK
  <2>2. ASSUME NEW o, End(d, o) PROVE cmd'[c] = cmd[c]
    BY <2>1, <2>2 DEF End
  <2>3. ASSUME NEW l, Goto(d, l) PROVE cmd'[c] = cmd[c]
    BY <2>1, <2>3 DEF Goto
  <2>4. CASE Begin(d)
    BY <2>1, <2>4 DEF Begin
  <2>5. CASE LookForConfig(d) \/ Overwrite(d) \/ AskInputs(d) \/ Propose(d) \/ OfferPull(d)
    BY <2>1, <2>2, <2>3, <2>5 DEF LookForConfig, Overwrite, AskInputs, Propose, OfferPull
  <2>6. CASE ReadConfig(d) \/ ReadLocal(d) \/ Receive(d)
    BY <2>1, <2>2, <2>6 DEF ReadConfig, ReadLocal, Receive, Refuse
  <2>7. CASE Respond(d) \/ RespondBadly(d)
    BY <2>1, <2>7 DEF Respond, RespondBadly, Answered
  <2>8. CASE MakeTemp(d) \/ FillTemp(d) \/ Undo(d)
    BY <2>1, <2>2, <2>8 DEF MakeTemp, FillTemp, Undo
  <2>9. CASE Rename(d)
    BY <2>1, <2>9 DEF Rename, Touched, CommandRecords
  <2>10. CASE Clean(d) \/ WriteFails(d) \/ ReadFails(d) \/ Crash(d)
    BY <2>1, <2>2, <2>3, <2>10 DEF Clean, WriteFails, ReadFails, Crash
  <2> QED
    BY <1>1, <2>4, <2>5, <2>6, <2>7, <2>8, <2>9, <2>10 DEF Step, Fault
<1>2. ASSUME NEW p \in Paths, Edit(p) PROVE cmd'[c].pc = cmd[c].pc
  BY <1>2 DEF Edit, Touched, Inv, TypeOK, CommandRecords
<1>3. CASE Redeploy
  BY <1>3 DEF Redeploy, Inv, TypeOK, CommandRecords
<1> QED
  BY <1>1, <1>2, <1>3 DEF Next

\* Where a command that ends well came from.
LEMMA EndsWell ==
    ASSUME Inv, NEW c \in Commands, Next,
           Finishes(c, {"created", "updated", "unchanged", "current", "stale"})
    PROVE  OfferPull(c) \/ Receive(c) \/ Clean(c)
<1>1. cmd \in [Commands -> CommandRecords] /\ outcome \in [Commands -> Outcomes]
  BY DEF Inv, TypeOK
<1>2. Begin(c) \/ Step(c) \/ Fault(c)
  BY OthersStay DEF Finishes
<1>3. ASSUME NEW o, End(c, o) PROVE o \notin {"failed", "unremoved", "cancelled", "crashed"}
  BY <1>1, <1>3 DEF End, Finishes
<1>4. ASSUME NEW l, Goto(c, l) PROVE l = "idle"
  BY <1>1, <1>4 DEF Goto, Finishes, CommandRecords
<1>5. ~Begin(c) /\ ~Undo(c)
  BY <1>1, <1>3 DEF Begin, Undo, Finishes
<1>6. ~LookForConfig(c) /\ ~Overwrite(c) /\ ~AskInputs(c) /\ ~Propose(c)
  <2>1. ~LookForConfig(c) /\ ~Propose(c)
    BY <1>3, <1>4 DEF LookForConfig, Propose
  <2>2. ~Overwrite(c)
    BY <1>3, <1>4 DEF Overwrite
  <2>3. ~AskInputs(c)
    <3>1. ASSUME NEW k, cmd' = [cmd EXCEPT ![c].put = [path |-> ConfigPath, text |-> k],
                          ![c].pc = IF Interactive(cmd[c].inv) THEN "propose" ELSE "mkTemp"]
          PROVE  FALSE
      <4>1. cmd'[c].pc = IF Interactive(cmd[c].inv) THEN "propose" ELSE "mkTemp"
        BY <1>1, <3>1 DEF CommandRecords
      <4> QED
        BY <4>1 DEF Finishes
    <3> QED
      BY <1>3, <3>1 DEF AskInputs
  <2> QED
    BY <2>1, <2>2, <2>3
<1>7. ~ReadConfig(c) /\ ~ReadLocal(c) /\ ~Respond(c) /\ ~RespondBadly(c)
  <2>1. ~ReadConfig(c) /\ ~ReadLocal(c)
    BY <1>1, <1>3 DEF ReadConfig, ReadLocal, Finishes, CommandRecords
  <2>2. ~Respond(c) /\ ~RespondBadly(c)
    BY <1>1 DEF Respond, RespondBadly, Answered, Finishes, CommandRecords
  <2> QED
    BY <2>1, <2>2
<1>8. ~MakeTemp(c) /\ ~FillTemp(c) /\ ~Rename(c)
  BY <1>1 DEF MakeTemp, FillTemp, Rename, Touched, Finishes, CommandRecords
<1>9. ~WriteFails(c) /\ ~ReadFails(c) /\ ~Crash(c)
  BY <1>3, <1>4 DEF WriteFails, ReadFails, Crash
<1> QED
  BY <1>2, <1>5, <1>6, <1>7, <1>8, <1>9 DEF Step, Fault

WriteServed(c) ==
    cmd[c].pc = "rename" /\ cmd'[c].pc = "clean" /\ cmd[c].put.path # ConfigPath
    => file'[cmd[c].put.path] \in cmd[c].since

\* What a command writes to an output was served while it ran.
THEOREM WritesCorrect == Spec => WritesServed
<1>1. Inv /\ [Next]_vars => [\A c \in Commands : WriteServed(c)]_vars
  <2> SUFFICES ASSUME Inv, Next, NEW c \in Commands, cmd[c].pc = "rename", cmd'[c].pc = "clean",
                      cmd[c].put.path # ConfigPath
               PROVE  file'[cmd[c].put.path] \in cmd[c].since
    BY DEF WriteServed
  <2>1. CASE Rename(c)
    BY <2>1, RenameWrites DEF Rename, Inv, TypeOK, FilesTyped, Puts
  <2>2. CASE ~Rename(c)
    <3>1. WriteFails(c) \/ Crash(c)
      BY <2>2, OthersStay DEF Step, Fault, Begin, LookForConfig, Overwrite, AskInputs, Propose,
         OfferPull, ReadConfig, ReadLocal, Respond, Answered, Receive, MakeTemp, FillTemp, Clean,
         Undo, RespondBadly, ReadFails
    <3>2. cmd'[c].pc # "clean"
      BY <3>1 DEF WriteFails, Crash, Goto, End, Ended, Inv, TypeOK, CommandRecords
    <3> QED
      BY <3>2
  <2> QED
    BY <2>1, <2>2
<1> QED
  BY <1>1, InvHolds, PTL DEF Spec, WritesServed, WriteServed

Delivered(c) ==
    Finishes(c, {"created", "updated", "unchanged"}) /\ cmd[c].cfg # Nil /\ ~cmd[c].touched
    => \/ file'[cmd[c].cfg.output] \in cmd[c].since
       \/ /\ TakenOnTrust(cmd[c]) /\ outcome'[c] = "unchanged"
          /\ file'[cmd[c].cfg.output] = cmd[c].local

\* When valid texts have distinct 32-bit hashes, a pull that reports success
\* leaves an artifact that was served while it ran, or the file it found when a
\* 304 came for a request that had no validator.
THEOREM PullCorrect ==
    ASSUME DistinctTags
    PROVE  Spec => PullDelivers
<1>1. Inv /\ [Next]_vars => [\A c \in Commands : Delivered(c)]_vars
  <2> SUFFICES ASSUME Inv, Next, NEW c \in Commands,
                      Finishes(c, {"created", "updated", "unchanged"}), cmd[c].cfg # Nil,
                      ~cmd[c].touched
               PROVE  \/ file'[cmd[c].cfg.output] \in cmd[c].since
                      \/ /\ TakenOnTrust(cmd[c]) /\ outcome'[c] = "unchanged"
                         /\ file'[cmd[c].cfg.output] = cmd[c].local
    BY DEF Delivered
  <2>1. CommandOK(c) /\ cmd \in [Commands -> CommandRecords] /\ outcome \in [Commands -> Outcomes]
    BY DEF Inv, TypeOK
  <2>2. OfferPull(c) \/ Receive(c) \/ Clean(c)
    BY EndsWell DEF Finishes
  <2>3. ~OfferPull(c)
    BY <2>1 DEF OfferPull, CommandOK, FlowOK, Conditional
  <2>4. CASE Receive(c)
    <3>1. cmd[c].pc = "answer" /\ cmd[c].answer # Nil /\ Same(cmd[c]) /\ file' = file
      <4>1. cmd'[c].pc = "idle" /\ outcome'[c] \in {"created", "updated", "unchanged"}
        BY DEF Finishes
      <4> QED
        BY <2>1, <2>4, <4>1
           DEF Receive, End, Refuse, project, CommandOK, FlowOK, Conditional, CommandRecords
    <3>2. file'[cmd[c].cfg.output] = cmd[c].local
      BY <2>1, <3>1 DEF CommandOK, OutputKept
    <3>3. CASE Conditional(cmd[c]) \/ Accepted(cmd[c].answer)
      BY <2>1, <3>1, <3>2, <3>3 DEF Same, CommandOK, SourceOK, NotModifiedOK, Accepted
    <3>4. CASE ~Conditional(cmd[c]) /\ ~Accepted(cmd[c].answer)
      <4>1. cmd[c].answer = [status |-> "notModified"] /\ cmd[c].local # Nil
        BY <2>1, <3>1, <3>4 DEF Same, CommandRecords, Answers
      <4>2. outcome'[c] = "unchanged"
        <5>1. ~(Differs(cmd[c]) /\ cmd[c].inv.op # "check")
          BY <3>4 DEF Differs
        <5>2. \A o : End(c, o) => outcome'[c] = o
          BY <2>1 DEF End
        <5> QED
          BY <2>4, <5>1, <5>2 DEF Receive, Refuse, Finishes
      <4> QED
        BY <3>2, <3>4, <4>1, <4>2 DEF TakenOnTrust
    <3> QED
      BY <3>3, <3>4
  <2>5. CASE Clean(c)
    <3>1. cmd[c].pc = "clean" /\ file' = file
      BY <2>5 DEF Clean, Goto, End, project
    <3> QED
      BY <2>1, <3>1 DEF CommandOK, FlowOK, Conditional, OutputKept, SourceOK
  <2> QED
    BY <2>2, <2>3, <2>4, <2>5
<1> QED
  BY <1>1, InvHolds, PTL DEF Spec, PullDelivers, Delivered

Told(c) ==
    /\ Finishes(c, {"current"}) => cmd[c].local \in cmd[c].since
    /\ Finishes(c, {"stale"}) => \E t \in cmd[c].since : t # cmd[c].local

\* Under the same assumption, what check reports was true while it ran.
THEOREM CheckCorrect ==
    ASSUME DistinctTags
    PROVE  Spec => CheckTells
<1>1. Inv /\ [Next]_vars => [\A c \in Commands : Told(c)]_vars
  <2> SUFFICES ASSUME Inv, Next, NEW c \in Commands, Finishes(c, {"current", "stale"})
               PROVE  Told(c)
    BY DEF Told, Finishes
  <2>1. CommandOK(c) /\ cmd \in [Commands -> CommandRecords] /\ outcome \in [Commands -> Outcomes]
    BY DEF Inv, TypeOK
  <2>2. OfferPull(c) \/ Receive(c) \/ Clean(c)
    BY EndsWell DEF Finishes
  <2>3. \A o : End(c, o) => outcome'[c] = o
    BY <2>1 DEF End
  <2>4. ~OfferPull(c) /\ ~Clean(c)
    <3>1. \A o : End(c, o) => o \in {"current", "stale"}
      BY <2>3 DEF Finishes
    <3>2. cmd'[c].pc = "idle"
      BY DEF Finishes
    <3>3. ~OfferPull(c)
      <4>1. cmd' # [cmd EXCEPT ![c].pc = "config", ![c].put = Nil]
        BY <2>1, <3>2 DEF CommandRecords
      <4>2. ~End(c, "created") /\ ~End(c, "failed")
        BY <3>1
      <4> QED
        BY <4>1, <4>2 DEF OfferPull
    <3>4. ~Goto(c, "offer")
      BY <2>1, <3>2 DEF Goto, CommandRecords
    <3> QED
      BY <3>1, <3>3, <3>4 DEF Clean
  <2>5. Receive(c) /\ cmd[c].answer # Nil
    BY <2>1, <2>2, <2>4 DEF Receive, CommandOK, FlowOK, Conditional
  <2>6. CASE outcome'[c] = "current"
    <3>1. Same(cmd[c])
      BY <2>1, <2>3, <2>5, <2>6 DEF Receive, Refuse, Finishes, CommandRecords
    <3>2. Conditional(cmd[c])
      <4>1. cmd[c].pc = "answer" /\ cmd'[c].pc = "idle"
        BY <2>5 DEF Receive, Finishes
      <4>2. cmd' # [cmd EXCEPT ![c].pc = "mkTemp",
                      ![c].put = [path |-> cmd[c].cfg.output, text |-> cmd[c].answer.text]]
        BY <2>1, <4>1 DEF CommandRecords
      <4>3. cmd[c].inv.op = "check"
        BY <2>3, <2>5, <2>6, <4>2 DEF Receive, Refuse
      <4> QED
        BY <2>1, <4>1, <4>3 DEF CommandOK, FlowOK
    <3> QED
      BY <2>1, <2>5, <2>6, <3>1, <3>2 DEF Same, CommandOK, SourceOK, NotModifiedOK, Told, Finishes
  <2>7. CASE outcome'[c] = "stale"
    <3>1. Differs(cmd[c])
      BY <2>1, <2>3, <2>5, <2>7 DEF Receive, Refuse, Finishes, CommandRecords
    <3> QED
      BY <2>1, <2>5, <2>7, <3>1 DEF Differs, CommandOK, SourceOK, Told, Finishes
  <2> QED
    BY <2>6, <2>7 DEF Finishes
<1> QED
  BY <1>1, InvHolds, PTL DEF Spec, CheckTells, Told
=============================================================================
