--------------------------- MODULE CollectCommand ---------------------------
(***************************************************************************)
(* One prospective command of cli.py (portfolio-collect --initialize,      *)
(* research-collect, decision-collect, fill-collect) as the files and rows *)
(* it leaves behind: the sealed checkpoint, the rows of the Sheet and the  *)
(* output files, over invocations that fail, are killed and are run again. *)
(*                                                                         *)
(* What an append does inside is PortfolioHead's subject; here it is one   *)
(* step that may also go unanswered, or take effect when nobody waits for  *)
(* it any more.                                                            *)
(***************************************************************************)
EXTENDS Integers, FiniteSets

CONSTANTS
    Command,       \* command lines: a kind and its bound inputs
    kindOf,        \* [Command -> CommandKind]
    File,          \* checkpoint paths
    NoFile,        \* the command line has no --checkpoint
    checkpointOf,  \* [Command -> File \cup {NoFile}]
    Runner,        \* operating-system processes that run main()
    NoCommand,     \* a runner at rest; the owner of the one bootstrap artifact
    Production,    \* commands given no attestor: main() builds the policy of sheets.py
    Absent,        \* no such file
    Report,        \* a structured quarantine report
    Torn,          \* write_text was cut short
    Nothing,       \* no (decision) artifact in this invocation
    Faults,        \* SUBSET FaultKind
    MaxFaults,     \* bound: faults that happen
    MaxCollects    \* bound: collections of fresh evidence per command

CommandKind == {"portfolio-collect", "research-collect", "decision-collect", "fill-collect"}

(* "late": a request that was given up on may still be under way *)
FaultKind == {"provider", "service", "write", "kill", "late"}

ASSUME CollectAssumption ==
    /\ kindOf \in [Command -> CommandKind]
    /\ NoCommand \notin Command
    /\ NoFile \notin File
    /\ checkpointOf \in [Command -> File \cup {NoFile}]
    \* without an attested envelope the later stages have no input file
    /\ Production \subseteq {c \in Command :
                               kindOf[c] \in {"portfolio-collect", "research-collect"}}
    /\ Faults \subseteq FaultKind
    /\ MaxFaults \in Nat /\ MaxCollects \in Nat

VARIABLES
    rows,         \* artifacts that have a row in the Attestations tab
    late,         \* artifacts whose append request was given up on under way
    checkpoint,   \* [File -> Checkpoint \cup {Absent}]
    decisionOut,  \* [Command -> FileContent], --decision-output
    output,       \* [Command -> FileContent], --output or --submission-output
    collects,     \* [Command -> Nat], fresh collections so far
    faults,       \* faults so far
    run           \* [Runner -> Run]

vars == <<rows, late, checkpoint, decisionOut, output, collects, faults, run>>

ArtifactKind == {"portfolio_snapshot", "research", "decision", "submission", "fill"}

Artifact == [command : Command \cup {NoCommand}, kind : ArtifactKind, serial : Nat]

(* The bootstrap snapshot carries no time and no input: all initializations *)
(* seal the same artifact.                                                  *)
Bootstrap == [command |-> NoCommand, kind |-> "portfolio_snapshot", serial |-> 0]

FileContent == Artifact \cup {Absent, Report, Torn}

Checkpoint == [command : Command, first : Artifact \cup {Nothing}, last : Artifact]

(* None of the markers is taken for what it stands beside *)
ASSUME MarkerAssumption ==
    /\ \A marker \in {Absent, Report, Torn, Nothing} : marker \notin Artifact \cup Checkpoint
    /\ Absent # Report /\ Absent # Torn /\ Report # Torn

Stage == {"idle", "start", "guard", "collect", "appendFirst", "appendLast", "emitDecision",
          "save", "emit", "reportDecision", "report"}

Run == [stage : Stage, command : Command \cup {NoCommand}, recovered : BOOLEAN,
        first : Artifact \cup {Nothing}, last : Artifact \cup {Nothing}]

AtRest == [stage |-> "idle", command |-> NoCommand, recovered |-> FALSE,
           first |-> Nothing, last |-> Nothing]

TwoStage(c) == kindOf[c] = "decision-collect"

(* What c's invocation finds at its --checkpoint path *)
Saved(c) == IF checkpointOf[c] = NoFile THEN Absent ELSE checkpoint[checkpointOf[c]]

(* A sealed checkpoint is complete for c only when it binds c's inputs *)
Complete(c) == Saved(c) # Absent /\ Saved(c).command = c

Init ==
    /\ rows = {} /\ late = {}
    /\ checkpoint = [f \in File |-> Absent]
    /\ decisionOut = [c \in Command |-> Absent]
    /\ output = [c \in Command |-> Absent]
    /\ collects = [c \in Command |-> 0]
    /\ faults = 0
    /\ run = [i \in Runner |-> AtRest]

Goto(i, stage) == run' = [run EXCEPT ![i].stage = stage]

Exit(i) == run' = [run EXCEPT ![i] = AtRest]

(* except (KeyError, ... ExternalServiceError): the error becomes a report *)
Quarantine(i) ==
    Goto(i, IF TwoStage(run[i].command) THEN "reportDecision" ELSE "report")

Fault(f) ==
    /\ f \in Faults
    /\ faults < MaxFaults
    /\ faults' = faults + 1

(* An operator runs the command line, for the first time or again *)
Launch(i, c) ==
    /\ run[i].stage = "idle"
    /\ collects[c] < MaxCollects \/ Complete(c)
    /\ run' = [run EXCEPT ![i] = [AtRest EXCEPT !.stage = "start", !.command = c]]
    /\ UNCHANGED <<rows, late, checkpoint, decisionOut, output, collects, faults>>

(* recovered.get('complete'): the saved envelopes are verified and reused *)
Recover(i) ==
    LET c == run[i].command
        saved == Saved(c)
    IN  /\ run[i].stage = "start" /\ Complete(c)
        /\ run' = [run EXCEPT ![i] = [@ EXCEPT
               !.stage = IF TwoStage(c) THEN "emitDecision" ELSE "emit",
               !.recovered = TRUE, !.first = saved.first, !.last = saved.last]]
        /\ UNCHANGED <<rows, late, checkpoint, decisionOut, output, collects, faults>>

(* 'checkpoint seal or bound inputs mismatch' *)
Mismatch(i) ==
    LET c == run[i].command IN
    /\ run[i].stage = "start" /\ Saved(c) # Absent /\ ~Complete(c)
    /\ Quarantine(i)
    /\ UNCHANGED <<rows, late, checkpoint, decisionOut, output, collects, faults>>

(* Faulty variant: the command starts its work without reading the checkpoint *)
BeginAfresh(i) ==
    LET c == run[i].command IN
    /\ run[i].stage = "start"
    /\ Goto(i, IF kindOf[c] = "portfolio-collect" THEN "guard" ELSE "collect")
    /\ UNCHANGED <<rows, late, checkpoint, decisionOut, output, collects, faults>>

Begin(i) ==
    LET c == run[i].command IN
    /\ run[i].stage = "start" /\ Saved(c) = Absent
    /\ Goto(i, IF kindOf[c] = "portfolio-collect" THEN "guard" ELSE "collect")
    /\ UNCHANGED <<rows, late, checkpoint, decisionOut, output, collects, faults>>

Initialized == \E r \in rows : r.kind = "portfolio_snapshot"

(* --initialize: any portfolio row in the ledger refuses the command *)
Guard(i) ==
    /\ run[i].stage = "guard"
    /\ IF Initialized THEN Quarantine(i) ELSE Goto(i, "collect")
    /\ UNCHANGED <<rows, late, checkpoint, decisionOut, output, collects, faults>>

Fresh(c, kind) == [command |-> c, kind |-> kind, serial |-> collects[c] + 1]

(* Faulty variant: fills carry the broker's name for them *)
LastKindOfBroker(c) == CASE kindOf[c] = "research-collect" -> "research"
                         [] kindOf[c] = "decision-collect" -> "submission"
                         [] OTHER -> "paper_fill"

LastKind(c) == CASE kindOf[c] = "research-collect" -> "research"
                 [] kindOf[c] = "decision-collect" -> "submission"
                 [] OTHER -> "fill"

(* The stage's own collection: provider reads, evaluation, sealing.  Its   *)
(* artifacts carry the clock's times, so every collection seals new ones.  *)
Collect(i) ==
    LET c == run[i].command IN
    /\ run[i].stage = "collect"
    /\ IF kindOf[c] = "portfolio-collect"
       THEN /\ run' = [run EXCEPT ![i] = [@ EXCEPT !.stage = "appendLast", !.last = Bootstrap]]
            /\ UNCHANGED collects
       ELSE /\ run' = [run EXCEPT ![i] = [@ EXCEPT
                   !.stage = IF TwoStage(c) THEN "appendFirst" ELSE "appendLast",
                   !.first = IF TwoStage(c) THEN Fresh(c, "decision") ELSE Nothing,
                   !.last = Fresh(c, LastKind(c))]]
            /\ collects' = [collects EXCEPT ![c] = @ + 1]
    /\ UNCHANGED <<rows, late, checkpoint, decisionOut, output, faults>>

(* A provider answer is missing, stale or malformed, or a gate rejects *)
CollectFails(i) ==
    /\ run[i].stage = "collect"
    /\ Fault("provider")
    /\ Quarantine(i)
    /\ UNCHANGED <<rows, late, checkpoint, decisionOut, output, collects>>

(* Faulty variant: the decision is sealed locally and its row is left out *)
AppendFirstSkipped(i) ==
    /\ run[i].stage = "appendFirst"
    /\ Goto(i, "appendLast")
    /\ UNCHANGED <<rows, late, checkpoint, decisionOut, output, collects, faults>>

(* append_envelope of the decision *)
AppendFirst(i) ==
    /\ run[i].stage = "appendFirst"
    /\ rows' = rows \cup {run[i].first}
    /\ Goto(i, "appendLast")
    /\ UNCHANGED <<late, checkpoint, decisionOut, output, collects, faults>>

(* append_envelope or append_portfolio_envelope of the final artifact *)
AppendLast(i) ==
    /\ run[i].stage = "appendLast"
    /\ run[i].command \notin Production
    /\ rows' = rows \cup {run[i].last}
    /\ Goto(i, IF TwoStage(run[i].command) THEN "emitDecision" ELSE "save")
    /\ UNCHANGED <<late, checkpoint, decisionOut, output, collects, faults>>

Appending(i) == run[i].stage \in {"appendFirst", "appendLast"}

RowOf(i) == IF run[i].stage = "appendFirst" THEN run[i].first ELSE run[i].last

(* Faulty variant: a failed request is taken for a written row *)
AppendFailsUnnoticed(i) ==
    /\ Appending(i)
    /\ Fault("service")
    /\ Goto(i, IF TwoStage(run[i].command) THEN "emitDecision" ELSE "save")
    /\ UNCHANGED <<rows, late, checkpoint, decisionOut, output, collects>>

(* i's append request is under way when nobody waits for it any more *)
GiveUp(i) ==
    /\ "late" \in Faults /\ Appending(i)
    /\ late' = late \cup {RowOf(i)}
    /\ UNCHANGED rows

(* The request fails before or after Google wrote the row, or it times out *)
AppendFails(i) ==
    /\ Appending(i)
    /\ Fault("service")
    /\ \/ rows' \in {rows, rows \cup {RowOf(i)}} /\ UNCHANGED late
       \/ GiveUp(i)
    /\ Quarantine(i)
    /\ UNCHANGED <<checkpoint, decisionOut, output, collects>>

(* ProductionSheetAttestorPolicy.trusts uses re, which sheets.py does not  *)
(* import: NameError, which main() does not catch.  It is reached from     *)
(* create_attested_artifact, when the row is already written.              *)
AttestorRaises(i) ==
    /\ run[i].command \in Production
    /\ run[i].stage = "appendLast"
    /\ rows' = rows \cup {run[i].last}
    /\ Exit(i)
    /\ UNCHANGED <<late, checkpoint, decisionOut, output, collects, faults>>

EmitDecision(i) ==
    /\ run[i].stage = "emitDecision"
    /\ decisionOut' = [decisionOut EXCEPT ![run[i].command] = run[i].first]
    /\ Goto(i, IF run[i].recovered THEN "emit" ELSE "save")
    /\ UNCHANGED <<rows, late, checkpoint, output, collects, faults>>

(* Faulty variant: a command of two envelopes writes no checkpoint *)
SaveOneStage(i) ==
    LET c == run[i].command IN
    /\ run[i].stage = "save"
    /\ checkpoint' = IF checkpointOf[c] = NoFile \/ TwoStage(c) THEN checkpoint
                     ELSE [checkpoint EXCEPT ![checkpointOf[c]] =
                              [command |-> c, first |-> run[i].first, last |-> run[i].last]]
    /\ Goto(i, "emit")
    /\ UNCHANGED <<rows, late, decisionOut, output, collects, faults>>

(* AtomicCheckpoint.write: temporary file, fsync, rename *)
Save(i) ==
    LET c == run[i].command IN
    /\ run[i].stage = "save"
    /\ checkpoint' = IF checkpointOf[c] = NoFile THEN checkpoint
                     ELSE [checkpoint EXCEPT ![checkpointOf[c]] =
                              [command |-> c, first |-> run[i].first, last |-> run[i].last]]
    /\ Goto(i, "emit")
    /\ UNCHANGED <<rows, late, decisionOut, output, collects, faults>>

Emit(i) ==
    /\ run[i].stage = "emit"
    /\ output' = [output EXCEPT ![run[i].command] = run[i].last]
    /\ Exit(i)
    /\ UNCHANGED <<rows, late, checkpoint, decisionOut, collects, faults>>

EmitReportDecision(i) ==
    /\ run[i].stage = "reportDecision"
    /\ decisionOut' = [decisionOut EXCEPT ![run[i].command] = Report]
    /\ Goto(i, "report")
    /\ UNCHANGED <<rows, late, checkpoint, output, collects, faults>>

EmitReport(i) ==
    /\ run[i].stage = "report"
    /\ output' = [output EXCEPT ![run[i].command] = Report]
    /\ Exit(i)
    /\ UNCHANGED <<rows, late, checkpoint, decisionOut, collects, faults>>

(* _write raises OSError, which main() does not catch; write_text may have *)
(* truncated the file.                                                     *)
WriteFails(i) ==
    LET c == run[i].command IN
    /\ Fault("write")
    /\ \/ /\ run[i].stage \in {"emitDecision", "reportDecision"}
          /\ decisionOut' \in {decisionOut, [decisionOut EXCEPT ![c] = Torn]}
          /\ UNCHANGED output
       \/ /\ run[i].stage \in {"emit", "report"}
          /\ output' \in {output, [output EXCEPT ![c] = Torn]}
          /\ UNCHANGED decisionOut
       \/ run[i].stage = "save" /\ UNCHANGED <<decisionOut, output>>
    /\ Exit(i)
    /\ UNCHANGED <<rows, late, checkpoint, collects>>

(* The process is killed between two effects, or while its request is     *)
(* under way                                                               *)
Kill(i) ==
    /\ run[i].stage # "idle"
    /\ Fault("kill")
    /\ Exit(i)
    /\ GiveUp(i) \/ UNCHANGED <<rows, late>>
    /\ UNCHANGED <<checkpoint, decisionOut, output, collects>>

(* Google writes the row of a request that was given up on, at any time or *)
(* never                                                                   *)
Land(a) ==
    /\ a \in late
    /\ rows' = rows \cup {a}
    /\ late' = late \ {a}
    /\ UNCHANGED <<checkpoint, decisionOut, output, collects, faults, run>>

Step(i) ==
    \/ Recover(i) \/ Mismatch(i) \/ Begin(i)
    \/ Guard(i)
    \/ Collect(i) \/ CollectFails(i)
    \/ AppendFirst(i) \/ AppendLast(i) \/ AppendFails(i) \/ AttestorRaises(i)
    \/ EmitDecision(i) \/ Save(i) \/ Emit(i)
    \/ EmitReportDecision(i) \/ EmitReport(i)
    \/ WriteFails(i) \/ Kill(i)

Next ==
    \/ \E i \in Runner : Step(i) \/ \E c \in Command : Launch(i, c)
    \/ \E a \in late : Land(a)

Spec == Init /\ [][Next]_vars

-----------------------------------------------------------------------------
TypeOK ==
    /\ rows \subseteq Artifact /\ late \subseteq Artifact
    /\ checkpoint \in [File -> Checkpoint \cup {Absent}]
    /\ decisionOut \in [Command -> FileContent]
    /\ output \in [Command -> FileContent]
    /\ collects \in [Command -> Nat]
    /\ faults \in Nat
    /\ run \in [Runner -> Run]

IsEnvelope(content) == content \notin {Absent, Report, Torn}

(* An output file never shows an envelope whose row is not in the ledger,  *)
(* nor another command's, whatever was cut short before (cli.py:130-146).  *)
OutputsBacked ==
    \A c \in Command : \A content \in {decisionOut[c], output[c]} :
        IsEnvelope(content) => content \in rows /\ content.command \in {c, NoCommand}

(* A checkpoint calls a command complete only when all its rows are in the *)
(* ledger, the decision's with the submission's.                           *)
CheckpointBacked ==
    \A f \in File : checkpoint[f] # Absent =>
        {checkpoint[f].first, checkpoint[f].last} \subseteq rows \cup {Nothing}

(* With a complete checkpoint, the outputs never show anything but the     *)
(* envelopes it holds, through any sequence of kills and re-runs.          *)
OutputsMatchCheckpoint ==
    \A c \in Command : Complete(c) =>
        /\ IsEnvelope(output[c]) => output[c] = Saved(c).last
        /\ IsEnvelope(decisionOut[c]) => decisionOut[c] = Saved(c).first

(* "Atomic checkpoint files make completed provider work idempotent across *)
(* restarts": once complete, no re-run collects, appends or saves again,   *)
(* and nothing of it is added but what an earlier run sent.                *)
CompletedWorkIsKept ==
    [][\A c \in Command : Complete(c) =>
          /\ collects'[c] = collects[c]
          /\ \A r \in rows' \ (rows \cup late) : r.command # c
          /\ Saved(c)' = Saved(c)]_vars

(* What the files or a running command still hold of a row *)
Held(r) ==
    \/ \E c \in Command : r \in {decisionOut[c], output[c]}
    \/ \E f \in File : checkpoint[f] # Absent /\ r \in {checkpoint[f].first, checkpoint[f].last}
    \/ \E i \in Runner : r \in {run[i].first, run[i].last}

(* A command that keeps a checkpoint and survives its own append *)
Recoverable(c) == checkpointOf[c] # NoFile /\ c \notin Production

(* Collections that reached the ledger and of which nothing is left but a row *)
Lost == {<<r.command, r.serial>> :
           r \in {q \in rows : q.command \in Command /\ Recoverable(q.command) /\ ~Held(q)}}

(* Nothing is lost but to a fault, and to each fault one collection at the *)
(* most: no re-run, recovery, refusal or report ever takes the place of    *)
(* work that is in the ledger (cli.py:115-150, 225-232).                   *)
LossNeedsFault == Cardinality(Lost) <= faults

(* "If a Sheet append was interrupted after the external write, recovery   *)
(* locates and exactly reads back the existing row instead of appending    *)
(* another" (src/README.md:226): a command with a checkpoint has one row   *)
(* of a kind, however often it is run.                                     *)
RowRecovered ==
    \A q, r \in rows :
        /\ q.command \in Command /\ Recoverable(q.command)
        /\ q.command = r.command /\ q.kind = r.kind
        => q = r
=============================================================================
