----------------------- MODULE CollectCommand_proofs -----------------------
(***************************************************************************)
(* The outputs and checkpoints of the prospective commands are backed by   *)
(* rows of the ledger, for any command lines, checkpoint paths, faults and *)
(* any number of processes that run the commands at once (CollectInv).     *)
(*                                                                         *)
(* What the files show of each other needs one runner (OneRunner): two     *)
(* that find no checkpoint both collect, and the second one saves over the *)
(* first. SoloInv ties what a run holds to the checkpoint that it has      *)
(* saved or found. LossInv counts what nobody will take up again.           *)
(***************************************************************************)
EXTENDS CollectCommand, FiniteSetTheorems, TLAPS

(* An artifact that a run of c may hold *)
Own(a, c) == a \in Artifact /\ a.command \in {c, NoCommand}

Collected == {"appendFirst", "appendLast", "emitDecision", "save", "emit"}

RowsWritten == {"emitDecision", "save", "emit"}

(* What a run holds, by its stage: what it is about to show or save is its *)
(* own and in the ledger.                                                  *)
RunBacked(i) ==
    run[i].stage # "idle" =>
        /\ run[i].command \in Command
        /\ ~TwoStage(run[i].command) =>
              run[i].first = Nothing /\ run[i].stage \notin {"appendFirst", "emitDecision"}
        /\ run[i].stage \in Collected =>
              /\ Own(run[i].last, run[i].command)
              /\ TwoStage(run[i].command) => Own(run[i].first, run[i].command)
        /\ run[i].stage \in RowsWritten => run[i].last \in rows
        /\ run[i].stage \in RowsWritten \cup {"appendLast"} /\ TwoStage(run[i].command) =>
              run[i].first \in rows

RunsBacked == \A i \in Runner : RunBacked(i)

SavedBacked(f) ==
    checkpoint[f] # Absent =>
        /\ Own(checkpoint[f].last, checkpoint[f].command)
        /\ checkpoint[f].last \in rows
        /\ IF TwoStage(checkpoint[f].command)
           THEN Own(checkpoint[f].first, checkpoint[f].command) /\ checkpoint[f].first \in rows
           ELSE checkpoint[f].first = Nothing

SavesBacked == \A f \in File : SavedBacked(f)

CollectInv == TypeOK /\ RunsBacked /\ SavesBacked /\ OutputsBacked

-----------------------------------------------------------------------------
(* The ledger is append-only: no step of any process takes a row away. *)
LEMMA RowsGrow ==
    ASSUME TypeOK, [Next]_vars
    PROVE  rows \subseteq rows'
BY DEF Next, vars, Launch, Step, Recover, Mismatch, Begin, Guard, Collect, CollectFails,
       AppendFirst, AppendLast, AppendFails, AttestorRaises, EmitDecision, Save, Emit,
       EmitReportDecision, EmitReport, WriteFails, Kill, GiveUp, Land

(* A step of one process leaves the runs of the others alone. *)
LEMMA OthersUntouched ==
    ASSUME TypeOK, NEW i \in Runner, NEW j \in Runner, i # j,
           Step(i) \/ \E c \in Command : Launch(i, c)
    PROVE  run'[j] = run[j]
BY DEF TypeOK, Launch, Step, Recover, Mismatch, Begin, Guard, Collect, CollectFails,
       AppendFirst, AppendLast, AppendFails, AttestorRaises, EmitDecision, Save, Emit,
       EmitReportDecision, EmitReport, WriteFails, Kill, GiveUp, Land, Goto, Exit, Quarantine

(* A run that is left alone stays backed while the ledger grows. *)
LEMMA BackedStays ==
    ASSUME NEW j \in Runner, RunBacked(j), run'[j] = run[j], rows \subseteq rows'
    PROVE  RunBacked(j)'
BY DEF RunBacked, Own

(* What a collection seals is an artifact of its own command. *)
LEMMA FreshIsOwn ==
    ASSUME TypeOK, NEW c \in Command, NEW kind \in ArtifactKind
    PROVE  Own(Fresh(c, kind), c)
BY DEF TypeOK, Own, Fresh, Artifact

LEMMA LastKindIsKind ==
    ASSUME NEW c \in Command
    PROVE  LastKind(c) \in ArtifactKind /\ "decision" \in ArtifactKind
BY DEF LastKind, ArtifactKind

LEMMA BootstrapIsOwn ==
    ASSUME NEW c
    PROVE  Own(Bootstrap, c)
BY DEF Own, Bootstrap, Artifact, ArtifactKind

(* The outcome of a collection: two artifacts of a two-stage command, one  *)
(* of another.                                                             *)
LEMMA CollectEffect ==
    ASSUME TypeOK, NEW i \in Runner, Collect(i), RunBacked(i)
    PROVE  \E stage \in Stage, first \in Artifact \cup {Nothing}, last \in Artifact :
              /\ run' = [run EXCEPT ![i] = [run[i] EXCEPT !.stage = stage, !.first = first,
                                                          !.last = last]]
              /\ Own(last, run[i].command)
              /\ IF TwoStage(run[i].command)
                 THEN stage = "appendFirst" /\ Own(first, run[i].command)
                 ELSE stage = "appendLast" /\ first = Nothing
<1> DEFINE c == run[i].command
<1>1. /\ c \in Command /\ run[i] \in Run
      /\ ~TwoStage(c) => run[i].first = Nothing
  BY DEF Collect, TypeOK, RunBacked
<1>2. Own(Bootstrap, c) /\ Own(Fresh(c, LastKind(c)), c) /\ Own(Fresh(c, "decision"), c)
  BY <1>1, BootstrapIsOwn, FreshIsOwn, LastKindIsKind
<1>3. "appendFirst" \in Stage /\ "appendLast" \in Stage
  BY DEF Stage
<1>art. /\ Bootstrap \in Artifact /\ Fresh(c, LastKind(c)) \in Artifact
        /\ Fresh(c, "decision") \in Artifact
  BY <1>2 DEF Own
<1>4. CASE kindOf[c] = "portfolio-collect"
  <2>1. run' = [run EXCEPT ![i] = [run[i] EXCEPT !.stage = "appendLast", !.last = Bootstrap]]
    BY <1>4 DEF Collect
  <2>2. ~TwoStage(c) /\ run[i].first = Nothing
    BY <1>1, <1>4 DEF TwoStage
  <2>3. [run[i] EXCEPT !.stage = "appendLast", !.last = Bootstrap] =
          [run[i] EXCEPT !.stage = "appendLast", !.first = Nothing, !.last = Bootstrap]
    BY <1>1, <2>2 DEF Run
  <2>4. QED
    BY <1>2, <1>3, <1>art, <2>1, <2>2, <2>3
<1>5. CASE kindOf[c] # "portfolio-collect"
  <2>1. run' = [run EXCEPT ![i] = [run[i] EXCEPT
                   !.stage = IF TwoStage(c) THEN "appendFirst" ELSE "appendLast",
                   !.first = IF TwoStage(c) THEN Fresh(c, "decision") ELSE Nothing,
                   !.last = Fresh(c, LastKind(c))]]
    BY <1>5 DEF Collect
  <2>2. CASE TwoStage(c)
    BY <1>2, <1>3, <1>art, <2>1, <2>2
  <2>3. CASE ~TwoStage(c)
    BY <1>2, <1>3, <1>art, <2>1, <2>3
  <2>4. QED
    BY <2>2, <2>3
<1>6. QED
  BY <1>4, <1>5

-----------------------------------------------------------------------------
LEMMA InitEstablishes == Init => CollectInv
BY CollectAssumption
DEF Init, CollectInv, TypeOK, RunsBacked, RunBacked, SavesBacked, SavedBacked, OutputsBacked,
    IsEnvelope, AtRest, Run, Stage, FileContent, Artifact

(* A process's own step leaves its run backed, one step per action. *)
LEMMA OwnStep ==
    ASSUME CollectInv, NEW i \in Runner, Step(i) \/ \E c \in Command : Launch(i, c)
    PROVE  RunBacked(i)'
<1> DEFINE c == run[i].command
<1>1. TypeOK /\ RunBacked(i) /\ run \in [Runner -> Run]
  BY DEF CollectInv, RunsBacked, TypeOK
<1>2. run[i].stage # "idle" => c \in Command
  BY <1>1 DEF RunBacked
<1>3. ASSUME NEW d \in Command, Launch(i, d) PROVE RunBacked(i)'
  BY <1>1, <1>3 DEF RunBacked, Launch, AtRest, Collected, RowsWritten, Run
<1>4. CASE Recover(i)
  <2>1. c \in Command /\ checkpointOf[c] \in File /\ Complete(c)
    BY <1>2, <1>4, CollectAssumption DEF Recover, Complete, Saved
  <2>2. SavedBacked(checkpointOf[c]) /\ Saved(c) = checkpoint[checkpointOf[c]]
    BY <2>1, CollectAssumption DEF CollectInv, SavesBacked, Saved
  <2>3. /\ Own(Saved(c).last, c) /\ Saved(c).last \in rows
        /\ IF TwoStage(c) THEN Own(Saved(c).first, c) /\ Saved(c).first \in rows
           ELSE Saved(c).first = Nothing
    BY <2>1, <2>2 DEF SavedBacked, Complete
  <2>4. /\ run'[i].stage = IF TwoStage(c) THEN "emitDecision" ELSE "emit"
        /\ run'[i].command = c
        /\ run'[i].first = Saved(c).first /\ run'[i].last = Saved(c).last
        /\ rows' = rows
    <3> DEFINE stage == IF TwoStage(c) THEN "emitDecision" ELSE "emit"
    <3>1. /\ run'[i] = [run[i] EXCEPT !.stage = stage, !.recovered = TRUE,
                                      !.first = Saved(c).first, !.last = Saved(c).last]
          /\ rows' = rows
      BY <1>1, <1>4 DEF Recover
    <3> HIDE DEF stage
    <3>2. /\ run'[i].stage = stage /\ run'[i].command = c
          /\ run'[i].first = Saved(c).first /\ run'[i].last = Saved(c).last
      BY <1>1, <3>1 DEF Run
    <3>3. QED
      BY <3>1, <3>2 DEF stage
  <2>5. QED
    BY <2>1, <2>3, <2>4 DEF RunBacked, Own, Collected, RowsWritten, TwoStage
<1>5. CASE Mismatch(i)
  BY <1>1, <1>2, <1>5
  DEF Mismatch, Quarantine, Goto, RunBacked, Run, Collected, RowsWritten, TwoStage
<1>6. CASE Begin(i)
  BY <1>1, <1>2, <1>6 DEF Begin, Goto, RunBacked, Run, Collected, RowsWritten, TwoStage
<1>7. CASE Guard(i)
  BY <1>1, <1>2, <1>7
  DEF Guard, Quarantine, Goto, RunBacked, Run, Collected, RowsWritten, TwoStage
<1>8. CASE Collect(i)
  <2>1. c \in Command /\ run[i].stage = "collect"
    BY <1>2, <1>8 DEF Collect
  <2>2. PICK stage \in Stage, first \in Artifact \cup {Nothing}, last \in Artifact :
              /\ run' = [run EXCEPT ![i] = [run[i] EXCEPT !.stage = stage, !.first = first,
                                                          !.last = last]]
              /\ Own(last, c)
              /\ IF TwoStage(c) THEN stage = "appendFirst" /\ Own(first, c)
                 ELSE stage = "appendLast" /\ first = Nothing
    BY <1>1, <1>8, CollectEffect
  <2>3. /\ run'[i].stage = stage /\ run'[i].command = c
        /\ run'[i].first = first /\ run'[i].last = last
    BY <1>1, <2>2 DEF Run
  <2>4. QED
    BY <2>1, <2>2, <2>3 DEF RunBacked, Own, Collected, RowsWritten, TwoStage
<1>9. CASE CollectFails(i)
  BY <1>1, <1>2, <1>9
  DEF CollectFails, Quarantine, Goto, RunBacked, Run, Collected, RowsWritten, TwoStage
<1>10. CASE AppendFirst(i)
  BY <1>1, <1>2, <1>10
  DEF AppendFirst, Goto, RunBacked, Own, Run, Collected, RowsWritten, TwoStage
<1>11. CASE AppendLast(i)
  BY <1>1, <1>2, <1>11
  DEF AppendLast, Goto, RunBacked, Own, Run, Collected, RowsWritten, TwoStage
<1>12. CASE AppendFails(i)
  BY <1>1, <1>2, <1>12
  DEF AppendFails, Appending, Quarantine, Goto, RunBacked, Run, Collected, RowsWritten, TwoStage
<1>13. CASE EmitDecision(i)
  BY <1>1, <1>2, <1>13
  DEF EmitDecision, Goto, RunBacked, Own, Run, Collected, RowsWritten, TwoStage
<1>14. CASE Save(i)
  BY <1>1, <1>2, <1>14 DEF Save, Goto, RunBacked, Own, Run, Collected, RowsWritten, TwoStage
<1>15. CASE EmitReportDecision(i)
  BY <1>1, <1>2, <1>15
  DEF EmitReportDecision, Goto, RunBacked, Run, Collected, RowsWritten, TwoStage
<1>16. CASE AttestorRaises(i) \/ Emit(i) \/ EmitReport(i) \/ WriteFails(i) \/ Kill(i)
  BY <1>1, <1>16
  DEF AttestorRaises, Emit, EmitReport, WriteFails, Kill, GiveUp, Land, Exit, AtRest, RunBacked, Run
<1>17. QED
  BY <1>3, <1>4, <1>5, <1>6, <1>7, <1>8, <1>9, <1>10, <1>11, <1>12, <1>13, <1>14, <1>15,
     <1>16 DEF Step

LEMMA RunsStep ==
    ASSUME CollectInv, [Next]_vars
    PROVE  RunsBacked'
<1> SUFFICES ASSUME NEW j \in Runner PROVE RunBacked(j)'
  BY DEF RunsBacked
<1>1. RunBacked(j) /\ rows \subseteq rows'
  BY RowsGrow DEF CollectInv, RunsBacked
<1>2. CASE UNCHANGED vars
  BY <1>1, <1>2, BackedStays DEF vars
<1>3. ASSUME NEW i \in Runner, Step(i) \/ \E c \in Command : Launch(i, c)
      PROVE  RunBacked(j)'
  <2>1. CASE i = j
    BY <1>3, <2>1, OwnStep
  <2>2. CASE i # j
    BY <1>1, <1>3, <2>2, OthersUntouched, BackedStays DEF CollectInv
  <2>3. QED
    BY <2>1, <2>2
<1>4. ASSUME NEW a \in late, Land(a) PROVE RunBacked(j)'
  BY <1>1, <1>4, BackedStays DEF Land
<1>5. QED
  BY <1>2, <1>3, <1>4 DEF Next

-----------------------------------------------------------------------------
(* Only Save writes a checkpoint, and what it saves is backed. *)
LEMMA SavesStep ==
    ASSUME CollectInv, [Next]_vars
    PROVE  SavesBacked'
<1> SUFFICES ASSUME NEW f \in File PROVE SavedBacked(f)'
  BY DEF SavesBacked
<1>1. SavedBacked(f) /\ rows \subseteq rows' /\ TypeOK
  BY RowsGrow DEF CollectInv, SavesBacked
<1>2. CASE checkpoint' = checkpoint
  BY <1>1, <1>2 DEF SavedBacked, Own
<1>3. ASSUME NEW i \in Runner, Save(i) PROVE SavedBacked(f)'
  <2> DEFINE c == run[i].command
  <2>1. /\ c \in Command /\ Own(run[i].last, c) /\ run[i].last \in rows
        /\ IF TwoStage(c) THEN Own(run[i].first, c) /\ run[i].first \in rows
           ELSE run[i].first = Nothing
    BY <1>3 DEF CollectInv, RunsBacked, RunBacked, Save, Collected, RowsWritten
  <2>2. CASE checkpoint'[f] = checkpoint[f]
    BY <1>1, <2>2 DEF SavedBacked, Own
  <2>3. CASE checkpoint'[f] # checkpoint[f]
    <3>1. checkpoint'[f] = [command |-> c, first |-> run[i].first, last |-> run[i].last]
      BY <1>1, <1>3, <2>3 DEF Save, TypeOK
    <3>2. QED
      BY <1>1, <2>1, <3>1 DEF SavedBacked, Own
  <2>4. QED
    BY <2>2, <2>3
<1>4. QED
  BY <1>2, <1>3
  DEF Next, vars, Launch, Step, Recover, Mismatch, Begin, Guard, Collect, CollectFails,
      AppendFirst, AppendLast, AppendFails, AttestorRaises, EmitDecision, Emit,
      EmitReportDecision, EmitReport, WriteFails, Kill, GiveUp, Land

-----------------------------------------------------------------------------
(* An output file shows only what a backed run has put there. *)
LEMMA OutputsStep ==
    ASSUME CollectInv, [Next]_vars
    PROVE  OutputsBacked'
<1> DEFINE Shows(content, d) ==
              IsEnvelope(content) => content \in rows' /\ content.command \in {d, NoCommand}
<1> SUFFICES ASSUME NEW d \in Command PROVE Shows(decisionOut'[d], d) /\ Shows(output'[d], d)
  BY DEF OutputsBacked, IsEnvelope
<1>1. Shows(decisionOut[d], d) /\ Shows(output[d], d)
  BY RowsGrow DEF CollectInv, OutputsBacked
<1>2. Shows(Report, d) /\ Shows(Torn, d)
  BY DEF IsEnvelope
<1>3. CASE decisionOut' = decisionOut /\ output' = output
  BY <1>1, <1>3
<1>4. TypeOK
  BY DEF CollectInv
<1>5. ASSUME NEW i \in Runner, EmitDecision(i) PROVE Shows(decisionOut'[d], d) /\ output' = output
  <2>1. run[i].first \in rows' /\ Own(run[i].first, run[i].command)
    BY <1>5, RowsGrow
    DEF CollectInv, RunsBacked, RunBacked, EmitDecision, Collected, RowsWritten
  <2>2. decisionOut'[d] \in {decisionOut[d]} \cup
           (IF run[i].command = d THEN {run[i].first} ELSE {})
    BY <1>4, <1>5 DEF EmitDecision, TypeOK
  <2>3. QED
    BY <1>1, <1>5, <2>1, <2>2 DEF EmitDecision, Own
<1>6. ASSUME NEW i \in Runner, Emit(i) PROVE Shows(output'[d], d) /\ decisionOut' = decisionOut
  <2>1. run[i].last \in rows' /\ Own(run[i].last, run[i].command)
    BY <1>6, RowsGrow
    DEF CollectInv, RunsBacked, RunBacked, Emit, Collected, RowsWritten
  <2>2. output'[d] \in {output[d]} \cup (IF run[i].command = d THEN {run[i].last} ELSE {})
    BY <1>4, <1>6 DEF Emit, TypeOK
  <2>3. QED
    BY <1>1, <1>6, <2>1, <2>2 DEF Emit, Own
<1>7. ASSUME NEW i \in Runner, EmitReportDecision(i) \/ EmitReport(i) \/ WriteFails(i)
      PROVE  /\ decisionOut'[d] \in {decisionOut[d], Report, Torn}
             /\ output'[d] \in {output[d], Report, Torn}
  BY <1>4, <1>7 DEF EmitReportDecision, EmitReport, WriteFails, TypeOK
<1>8. \/ decisionOut' = decisionOut /\ output' = output
      \/ \E i \in Runner : \/ EmitDecision(i) \/ Emit(i)
                          \/ EmitReportDecision(i) \/ EmitReport(i) \/ WriteFails(i)
  BY DEF Next, vars, Launch, Step, Recover, Mismatch, Begin, Guard, Collect, CollectFails,
         AppendFirst, AppendLast, AppendFails, AttestorRaises, Save, Kill, Land
<1> HIDE DEF Shows
<1>9. ASSUME NEW i \in Runner, EmitReportDecision(i) \/ EmitReport(i) \/ WriteFails(i)
      PROVE  Shows(decisionOut'[d], d) /\ Shows(output'[d], d)
  BY <1>1, <1>2, <1>7, <1>9
<1> QED
  BY <1>1, <1>3, <1>5, <1>6, <1>8, <1>9

-----------------------------------------------------------------------------
(* Types, for the actions of one process *)
LEMMA TypeStep ==
    ASSUME CollectInv, NEW i \in Runner, Step(i) \/ \E c \in Command : Launch(i, c)
    PROVE  TypeOK'
<1> DEFINE c == run[i].command
<1>1. TypeOK /\ RunBacked(i) /\ run[i] \in Run
  BY DEF CollectInv, RunsBacked, TypeOK
<1>2. run[i].stage # "idle" => c \in Command
  BY <1>1 DEF RunBacked
<1>3. ASSUME NEW d \in Command, Launch(i, d) PROVE TypeOK'
  BY <1>1, <1>3 DEF TypeOK, Launch, AtRest, Run, Stage
<1>4. CASE Recover(i)
  <2>1. c \in Command /\ Saved(c) \in Checkpoint
    BY <1>1, <1>2, <1>4, CollectAssumption DEF Recover, Complete, Saved, TypeOK
  <2>2. run' \in [Runner -> Run]
    <3> DEFINE stage == IF TwoStage(c) THEN "emitDecision" ELSE "emit"
    <3>1. run' = [run EXCEPT ![i] = [run[i] EXCEPT !.stage = stage, !.recovered = TRUE,
                                        !.first = Saved(c).first, !.last = Saved(c).last]]
      BY <1>1, <1>4 DEF Recover, TypeOK
    <3>2. /\ stage \in Stage
          /\ Saved(c).first \in Artifact \cup {Nothing} /\ Saved(c).last \in Artifact
      BY <2>1 DEF Stage, Checkpoint
    <3> HIDE DEF stage
    <3>3. QED
      BY <1>1, <3>1, <3>2 DEF TypeOK, Run
  <2>3. QED
    BY <1>1, <1>4, <2>2 DEF Recover, TypeOK
<1>5. CASE Mismatch(i)
  BY <1>1, <1>5 DEF TypeOK, Mismatch, Quarantine, Goto, Run, Stage
<1>6. CASE Begin(i)
  BY <1>1, <1>6 DEF TypeOK, Begin, Goto, Run, Stage
<1>7. CASE Guard(i)
  BY <1>1, <1>7 DEF TypeOK, Guard, Quarantine, Goto, Run, Stage
<1>8. CASE Collect(i)
  <2>1. c \in Command
    BY <1>2, <1>8 DEF Collect
  <2>2. PICK stage \in Stage, first \in Artifact \cup {Nothing}, last \in Artifact :
              /\ run' = [run EXCEPT ![i] = [run[i] EXCEPT !.stage = stage, !.first = first,
                                                          !.last = last]]
              /\ Own(last, c)
              /\ IF TwoStage(c) THEN stage = "appendFirst" /\ Own(first, c)
                 ELSE stage = "appendLast" /\ first = Nothing
    BY <1>1, <1>8, CollectEffect
  <2>3. run' \in [Runner -> Run]
    <3>1. first \in Artifact \cup {Nothing} /\ last \in Artifact
      BY <2>2 DEF Own
    <3>2. QED
      BY <1>1, <2>2, <3>1 DEF TypeOK, Run
  <2>4. collects' \in [Command -> Nat]
    BY <1>1, <1>8, <2>1 DEF Collect, TypeOK
  <2>5. QED
    BY <1>1, <1>8, <2>3, <2>4 DEF Collect, TypeOK
<1>9. CASE CollectFails(i)
  BY <1>1, <1>9 DEF TypeOK, CollectFails, Fault, Quarantine, Goto, Run, Stage
<1>10. CASE AppendFirst(i)
  BY <1>1, <1>2, <1>10
  DEF TypeOK, AppendFirst, Goto, RunBacked, Own, Collected, Run, Stage
<1>11. CASE AppendLast(i)
  BY <1>1, <1>2, <1>11
  DEF TypeOK, AppendLast, Goto, RunBacked, Own, Collected, Run, Stage
<1>12. CASE AppendFails(i)
  <2>1. RowOf(i) \in Artifact
    BY <1>1, <1>2, <1>12 DEF AppendFails, Appending, RowOf, RunBacked, Own, Collected
  <2>2. QED
    BY <1>1, <1>12, <2>1
    DEF TypeOK, AppendFails, GiveUp, Fault, Quarantine, Goto, Run, Stage
<1>13. CASE AttestorRaises(i)
  BY <1>1, <1>2, <1>13
  DEF TypeOK, AttestorRaises, Exit, AtRest, RunBacked, Own, Collected, Run, Stage
<1>14. CASE EmitDecision(i)
  <2>1. run[i].first \in Artifact
    BY <1>1, <1>2, <1>14 DEF EmitDecision, RunBacked, Own, Collected
  <2>2. QED
    BY <1>1, <1>14, <2>1 DEF TypeOK, EmitDecision, Goto, FileContent, Run, Stage
<1>15. CASE Save(i)
  <2>1. c \in Command /\ run[i].last \in Artifact
    BY <1>1, <1>2, <1>15 DEF Save, RunBacked, Own, Collected
  <2>2. [command |-> c, first |-> run[i].first, last |-> run[i].last] \in Checkpoint
    BY <1>1, <2>1 DEF Run, Checkpoint
  <2>3. checkpoint' \in [File -> Checkpoint \cup {Absent}]
    BY <1>1, <1>15, <2>2 DEF TypeOK, Save
  <2>4. QED
    BY <1>1, <1>15, <2>3 DEF TypeOK, Save, Goto, Run, Stage
<1>16. CASE Emit(i)
  <2>1. run[i].last \in Artifact
    BY <1>1, <1>2, <1>16 DEF Emit, RunBacked, Own, Collected
  <2>2. QED
    BY <1>1, <1>16, <2>1 DEF TypeOK, Emit, Exit, AtRest, FileContent, Run, Stage
<1>17. CASE EmitReportDecision(i)
  BY <1>1, <1>17 DEF TypeOK, EmitReportDecision, Goto, FileContent, Run, Stage
<1>18. CASE EmitReport(i)
  BY <1>1, <1>18 DEF TypeOK, EmitReport, Exit, AtRest, FileContent, Run, Stage
<1>19. CASE WriteFails(i)
  BY <1>1, <1>19 DEF TypeOK, WriteFails, Fault, Exit, AtRest, FileContent, Run, Stage
<1>20. CASE Kill(i)
  <2>1. Appending(i) => RowOf(i) \in Artifact
    BY <1>1, <1>2 DEF Appending, RowOf, RunBacked, Own, Collected
  <2>2. QED
    BY <1>1, <1>20, <2>1 DEF TypeOK, Kill, GiveUp, Fault, Exit, AtRest, Run, Stage
<1>21. QED
  BY <1>3, <1>4, <1>5, <1>6, <1>7, <1>8, <1>9, <1>10, <1>11, <1>12, <1>13, <1>14, <1>15,
     <1>16, <1>17, <1>18, <1>19, <1>20 DEF Step

LEMMA CollectInvStep == CollectInv /\ [Next]_vars => CollectInv'
<1> SUFFICES ASSUME CollectInv, [Next]_vars PROVE CollectInv'
  OBVIOUS
<1>1. CASE UNCHANGED vars
  <2>1. TypeOK'
    BY <1>1 DEF CollectInv, TypeOK, vars
  <2>2. QED
    BY <2>1, RunsStep, SavesStep, OutputsStep DEF CollectInv
<1>2. CASE Next
  <2>0. ASSUME NEW a \in late, Land(a) PROVE TypeOK'
    BY <2>0 DEF CollectInv, TypeOK, Land
  <2>1. TypeOK'
    BY <1>2, <2>0, TypeStep DEF Next
  <2>2. QED
    BY <2>1, RunsStep, SavesStep, OutputsStep DEF CollectInv
<1>3. QED
  BY <1>1, <1>2

LEMMA CollectInvHolds == Spec => []CollectInv
BY InitEstablishes, CollectInvStep, PTL DEF Spec

-----------------------------------------------------------------------------
(* Rows, checkpoints, files and runs keep their shape, for any command     *)
(* lines, paths and processes (cli.py:97-146).                             *)
THEOREM CollectTypeCorrect == Spec => []TypeOK
BY CollectInvHolds, PTL DEF CollectInv

(* No output file ever shows an envelope that is not in the ledger or that *)
(* belongs to another command, also when two processes run one command at  *)
(* once and both find its checkpoint absent (cli.py:115-146).              *)
THEOREM OutputsAreBacked == Spec => []OutputsBacked
BY CollectInvHolds, PTL DEF CollectInv

(* Whichever process saved it last, a checkpoint only holds envelopes      *)
(* whose rows are in the ledger (cli.py:142-145, workflow.py:43-54).       *)
THEOREM CheckpointsAreBacked == Spec => []CheckpointBacked
<1>1. SavesBacked => CheckpointBacked
  BY DEF SavesBacked, SavedBacked, CheckpointBacked
<1>2. QED
  BY <1>1, CollectInvHolds, PTL DEF CollectInv

-----------------------------------------------------------------------------
(* One process at a time: an operator who runs the commands by hand.  What *)
(* follows fails of two, which may both find the checkpoint absent.        *)
OneRunner == \A i, j \in Runner : i = j

(* A run that is doing its command's work for the first time *)
Working(r) ==
    \/ r.stage \in {"guard", "collect", "appendFirst", "appendLast", "save"}
    \/ r.stage = "emitDecision" /\ ~r.recovered

(* A run that has, or has found, its work in the checkpoint *)
Completed(r) ==
    \/ r.stage = "emit"
    \/ r.stage = "emitDecision" /\ r.recovered

Kept(r) == [command |-> r.command, first |-> r.first, last |-> r.last]

(* What the files say while r is in a stage *)
RunMatches(i) ==
    LET r == run[i]
        c == r.command
    IN  /\ Working(r) => Saved(c) = Absent
        /\ r.stage \in {"start", "guard", "collect", "appendFirst", "appendLast"} => ~r.recovered
        /\ Completed(r) /\ checkpointOf[c] # NoFile => Saved(c) = Kept(r)
        /\ TwoStage(c) /\ r.stage \in {"save", "emit"} => decisionOut[c] = r.first
        /\ TwoStage(c) /\ r.stage \in Collected => r.first.serial = r.last.serial

PairSaved(f) ==
    checkpoint[f] # Absent /\ TwoStage(checkpoint[f].command) =>
        checkpoint[f].first.serial = checkpoint[f].last.serial

(* Nothing is shown before it is saved, where it is saved at all *)
ShownAfterSave(c) ==
    checkpointOf[c] # NoFile /\ Saved(c) = Absent => ~IsEnvelope(output[c])

DecisionOfTwoStage(c) == IsEnvelope(decisionOut[c]) => TwoStage(c)

SoloInv ==
    /\ CollectInv
    /\ \A i \in Runner : run[i].stage # "idle" => RunMatches(i)
    /\ \A f \in File : PairSaved(f)
    /\ \A c \in Command : ShownAfterSave(c) /\ DecisionOfTwoStage(c)
    /\ OutputsMatchCheckpoint

LEMMA SoloInit == Init => SoloInv
<1> SUFFICES ASSUME Init PROVE SoloInv
  OBVIOUS
<1>1. CollectInv
  BY InitEstablishes
<1>2. \A c \in Command : Saved(c) = Absent
  BY CollectAssumption DEF Init, Saved
<1> QED
  BY <1>1, <1>2
  DEF Init, AtRest, SoloInv, PairSaved, ShownAfterSave, DecisionOfTwoStage,
      OutputsMatchCheckpoint, Complete, IsEnvelope

(* What is known of the one run, before each of its steps *)
LEMMA SoloRun ==
    ASSUME SoloInv, NEW i \in Runner, run[i].stage # "idle"
    PROVE  /\ TypeOK /\ RunBacked(i) /\ RunMatches(i) /\ run[i] \in Run
           /\ run \in [Runner -> Run] /\ run[i].command \in Command
BY DEF SoloInv, CollectInv, RunsBacked, RunBacked, TypeOK

(* Steps that leave the run and the files of a command that is not running *)
(* its work alone: a command starts, or finds its checkpoint.              *)
LEMMA StartMatches ==
    ASSUME SoloInv, NEW i \in Runner,
           Recover(i) \/ Mismatch(i) \/ Begin(i) \/ Guard(i) \/ \E c \in Command : Launch(i, c)
    PROVE  RunMatches(i)'
<1>1. ASSUME NEW d \in Command, Launch(i, d) PROVE RunMatches(i)'
  <2>1. run'[i] = [AtRest EXCEPT !.stage = "start", !.command = d]
    BY <1>1 DEF Launch, SoloInv, CollectInv, TypeOK
  <2>2. run'[i].stage = "start" /\ ~run'[i].recovered
    BY <2>1 DEF AtRest
  <2> QED
    BY <2>2 DEF RunMatches, Working, Completed, Collected
<1>2. CASE Recover(i)
  <2> DEFINE c == run[i].command
  <2>1. /\ run[i].stage = "start" /\ run[i] \in Run /\ run \in [Runner -> Run] /\ TypeOK
        /\ c \in Command /\ Complete(c)
    BY <1>2, SoloRun DEF Recover
  <2>2. checkpointOf[c] \in File /\ Saved(c) = checkpoint[checkpointOf[c]]
    BY <2>1, CollectAssumption DEF Complete, Saved
  <2>3. Saved(c) \in Checkpoint /\ Saved(c).command = c
    BY <2>1, <2>2 DEF Complete, TypeOK
  <2>4. TwoStage(c) => Saved(c).first.serial = Saved(c).last.serial
    BY <2>1, <2>2, <2>3 DEF SoloInv, PairSaved, Complete
  <2> DEFINE stage == IF TwoStage(c) THEN "emitDecision" ELSE "emit"
  <2>5. /\ run'[i].stage = stage /\ run'[i].command = c /\ run'[i].recovered = TRUE
        /\ run'[i].first = Saved(c).first /\ run'[i].last = Saved(c).last
    <3>1. run'[i] = [run[i] EXCEPT !.stage = stage, !.recovered = TRUE,
                                      !.first = Saved(c).first, !.last = Saved(c).last]
      BY <1>2, <2>1 DEF Recover
    <3> HIDE DEF stage
    <3> QED
      BY <2>1, <3>1 DEF Run
  <2>6. Saved(c)' = Saved(c) /\ decisionOut' = decisionOut
    BY <1>2 DEF Recover, Saved
  <2>7. Kept(run'[i]) = Saved(c)
    BY <2>3, <2>5 DEF Kept, Checkpoint
  <2>8. (Saved(run[i].command))' = Kept(run'[i])
    BY <2>2, <2>5, <2>6, <2>7, <1>2 DEF Recover, Saved
  <2> QED
    BY <2>4, <2>5, <2>8 DEF RunMatches, Working, Completed, Collected
<1>3. CASE Mismatch(i)
  <2>1. run[i] \in Run /\ run \in [Runner -> Run]
    BY <1>3, SoloRun DEF Mismatch
  <2> QED
    BY <1>3, <2>1
    DEF Mismatch, Quarantine, Goto, Run, RunMatches, Working, Completed, Collected, TwoStage
<1>4. CASE Begin(i)
  <2>1. run[i] \in Run /\ run \in [Runner -> Run] /\ RunMatches(i)
    BY <1>4, SoloRun DEF Begin
  <2> QED
    BY <1>4, <2>1
    DEF Begin, Goto, Run, RunMatches, Working, Completed, Collected, TwoStage, Saved
<1>5. CASE Guard(i)
  <2>1. run[i] \in Run /\ run \in [Runner -> Run] /\ RunMatches(i)
    BY <1>5, SoloRun DEF Guard
  <2> QED
    BY <1>5, <2>1
    DEF Guard, Quarantine, Goto, Run, RunMatches, Working, Completed, Collected, TwoStage, Saved
<1> QED
  BY <1>1, <1>2, <1>3, <1>4, <1>5

(* A two-stage command seals both artifacts with the number of the         *)
(* collection.                                                             *)
LEMMA CollectPairs ==
    ASSUME SoloInv, NEW i \in Runner, Collect(i), TwoStage(run[i].command)
    PROVE  run'[i].first.serial = run'[i].last.serial
<1> DEFINE c == run[i].command
           first == Fresh(c, "decision")
           last == Fresh(c, LastKind(c))
<1>1. run[i] \in Run /\ run \in [Runner -> Run]
  BY SoloRun DEF Collect
<1>2. run'[i] = [run[i] EXCEPT !.stage = "appendFirst", !.first = first, !.last = last]
  BY <1>1 DEF Collect, TwoStage
<1>3. first.serial = last.serial
  BY DEF Fresh
<1> HIDE DEF first, last
<1>4. run'[i].first = first /\ run'[i].last = last
  BY <1>1, <1>2 DEF Run
<1> QED
  BY <1>3, <1>4

LEMMA WorkMatches ==
    ASSUME SoloInv, NEW i \in Runner,
           \/ Collect(i) \/ CollectFails(i)
           \/ AppendFirst(i) \/ AppendLast(i) \/ AppendFails(i)
    PROVE  RunMatches(i)'
<1>1. CASE Collect(i)
  <2> DEFINE c == run[i].command
  <2>1. /\ run[i] \in Run /\ run \in [Runner -> Run] /\ RunMatches(i) /\ RunBacked(i)
        /\ TypeOK /\ run[i].stage = "collect"
    BY <1>1, SoloRun DEF Collect
  <2>2. PICK stage \in {"appendFirst", "appendLast"}, first \in Artifact \cup {Nothing},
              last \in Artifact :
           run' = [run EXCEPT ![i] = [run[i] EXCEPT !.stage = stage, !.first = first,
                                                    !.last = last]]
    <3>1. PICK stage \in Stage, first \in Artifact \cup {Nothing}, last \in Artifact :
              /\ run' = [run EXCEPT ![i] = [run[i] EXCEPT !.stage = stage, !.first = first,
                                                          !.last = last]]
              /\ Own(last, c)
              /\ IF TwoStage(c) THEN stage = "appendFirst" /\ Own(first, c)
                 ELSE stage = "appendLast" /\ first = Nothing
      BY <1>1, <2>1, CollectEffect
    <3>2. stage \in {"appendFirst", "appendLast"}
      BY <3>1
    <3> QED
      BY <3>1, <3>2
  <2>3. /\ run'[i].stage = stage /\ run'[i].command = c
        /\ run'[i].recovered = run[i].recovered
    BY <2>1, <2>2 DEF Run
  <2>4. Saved(c) = Absent /\ ~run[i].recovered
    BY <2>1 DEF RunMatches, Working
  <2>5. Saved(c)' = Absent
    BY <1>1, <2>4, <2>3 DEF Collect, Saved
  <2>6. TwoStage(c) => run'[i].first.serial = run'[i].last.serial
    BY <1>1, CollectPairs
  <2> QED
    BY <2>3, <2>4, <2>5, <2>6 DEF RunMatches, Working, Completed, Collected
<1>2. CASE CollectFails(i)
  <2>1. run[i] \in Run /\ run \in [Runner -> Run]
    BY <1>2, SoloRun DEF CollectFails
  <2> QED
    BY <1>2, <2>1
    DEF CollectFails, Quarantine, Goto, Run, RunMatches, Working, Completed, Collected, TwoStage
<1>3. CASE AppendFirst(i)
  <2>1. run[i] \in Run /\ run \in [Runner -> Run] /\ RunMatches(i)
    BY <1>3, SoloRun DEF AppendFirst
  <2> QED
    BY <1>3, <2>1
    DEF AppendFirst, Goto, Run, RunMatches, Working, Completed, Collected, TwoStage, Saved
<1>4. CASE AppendLast(i)
  <2>1. run[i] \in Run /\ run \in [Runner -> Run] /\ RunMatches(i)
    BY <1>4, SoloRun DEF AppendLast
  <2> QED
    BY <1>4, <2>1
    DEF AppendLast, Goto, Run, RunMatches, Working, Completed, Collected, TwoStage, Saved
<1>5. CASE AppendFails(i)
  <2>1. run[i] \in Run /\ run \in [Runner -> Run]
    BY <1>5, SoloRun DEF AppendFails, Appending
  <2> QED
    BY <1>5, <2>1
    DEF AppendFails, Quarantine, Goto, Run, RunMatches, Working, Completed, Collected, TwoStage
<1> QED
  BY <1>1, <1>2, <1>3, <1>4, <1>5

LEMMA EmissionMatches ==
    ASSUME SoloInv, NEW i \in Runner, EmitDecision(i) \/ Save(i) \/ EmitReportDecision(i)
    PROVE  RunMatches(i)'
<1> DEFINE c == run[i].command
<1>1. /\ run[i] \in Run /\ run \in [Runner -> Run] /\ RunMatches(i) /\ c \in Command
      /\ TypeOK
  BY SoloRun DEF EmitDecision, Save, EmitReportDecision
<1>2. CASE EmitDecision(i)
  <2>1. decisionOut'[c] = run[i].first
    BY <1>1, <1>2 DEF EmitDecision, TypeOK
  <2>2. /\ run'[i].stage = (IF run[i].recovered THEN "emit" ELSE "save")
        /\ run'[i].command = c /\ run'[i].recovered = run[i].recovered
        /\ run'[i].first = run[i].first /\ run'[i].last = run[i].last
    BY <1>1, <1>2 DEF EmitDecision, Goto, Run
  <2>3. checkpoint' = checkpoint /\ run[i].stage = "emitDecision"
    BY <1>2 DEF EmitDecision
  <2> QED
    BY <1>1, <2>1, <2>2, <2>3 DEF RunMatches, Working, Completed, Collected, Saved, Kept
<1>3. CASE Save(i)
  <2>1. /\ run'[i].stage = "emit" /\ run'[i].command = c
        /\ run'[i].first = run[i].first /\ run'[i].last = run[i].last
    BY <1>1, <1>3 DEF Save, Goto, Run
  <2>2. checkpointOf[c] # NoFile => checkpoint'[checkpointOf[c]] = Kept(run[i])
    BY <1>1, <1>3, CollectAssumption DEF Save, TypeOK, Kept
  <2>3. decisionOut' = decisionOut /\ run[i].stage = "save"
    BY <1>3 DEF Save
  <2> QED
    BY <1>1, <2>1, <2>2, <2>3 DEF RunMatches, Working, Completed, Collected, Saved, Kept
<1>4. CASE EmitReportDecision(i)
  <2>1. /\ run'[i].stage = "report" /\ run'[i].command = c
    BY <1>1, <1>4 DEF EmitReportDecision, Goto, Run
  <2>2. decisionOut'[c] = Report
    BY <1>1, <1>4 DEF EmitReportDecision, TypeOK
  <2> QED
    BY <2>1, <2>2 DEF RunMatches, Working, Completed, Collected
<1> QED
  BY <1>2, <1>3, <1>4

LEMMA RunMatchesStep ==
    ASSUME SoloInv, NEW i \in Runner, Step(i) \/ \E c \in Command : Launch(i, c),
           run'[i].stage # "idle"
    PROVE  RunMatches(i)'
<1>1. run \in [Runner -> Run]
  BY DEF SoloInv, CollectInv, TypeOK
<1>2. ~(AttestorRaises(i) \/ Emit(i) \/ EmitReport(i) \/ WriteFails(i) \/ Kill(i))
  BY <1>1 DEF AttestorRaises, Emit, EmitReport, WriteFails, Kill, GiveUp, Land, Exit, AtRest
<1> QED
  BY <1>2, StartMatches, WorkMatches, EmissionMatches DEF Step

(* A checkpoint is written where there was none, by the command it names. *)
LEMMA SavedOnce ==
    ASSUME SoloInv, [Next]_vars
    PROVE  \/ checkpoint' = checkpoint
           \/ \E i \in Runner :
                 LET d == run[i].command IN
                 /\ Save(i) /\ d \in Command /\ checkpointOf[d] \in File
                 /\ Saved(d) = Absent
                 /\ checkpoint' = [checkpoint EXCEPT ![checkpointOf[d]] = Kept(run[i])]
                 /\ Kept(run[i]) # Absent
<1>1. ASSUME NEW i \in Runner, Save(i), checkpointOf[run[i].command] # NoFile
      PROVE  LET d == run[i].command IN
             /\ d \in Command /\ checkpointOf[d] \in File
             /\ Saved(d) = Absent
             /\ checkpoint' = [checkpoint EXCEPT ![checkpointOf[d]] = Kept(run[i])]
             /\ Kept(run[i]) # Absent
  <2> DEFINE d == run[i].command
  <2>1. /\ d \in Command /\ RunMatches(i) /\ RunBacked(i) /\ run[i] \in Run
        /\ run[i].stage = "save"
    BY <1>1, SoloRun DEF Save
  <2>2. Saved(d) = Absent /\ run[i].last \in Artifact
    BY <2>1 DEF RunMatches, Working, RunBacked, Collected, Own
  <2>3. Kept(run[i]) \in Checkpoint
    BY <2>1, <2>2 DEF Kept, Checkpoint, Run
  <2> QED
    BY <1>1, <2>1, <2>2, <2>3, CollectAssumption, MarkerAssumption DEF Save, Kept
<1>2. (\E i \in Runner : Save(i) /\ checkpointOf[run[i].command] # NoFile)
        \/ checkpoint' = checkpoint
  BY DEF Next, vars, Launch, Step, Recover, Mismatch, Begin, Guard, Collect, CollectFails,
         AppendFirst, AppendLast, AppendFails, AttestorRaises, EmitDecision, Save, Emit,
         EmitReportDecision, EmitReport, WriteFails, Kill, GiveUp, Land
<1> QED
  BY <1>1, <1>2

(* What a step may put into the output files *)
LEMMA OutputStep ==
    ASSUME SoloInv, [Next]_vars, NEW c \in Command
    PROVE  /\ \/ output'[c] = output[c] \/ ~IsEnvelope(output'[c])
              \/ \E i \in Runner : /\ Emit(i) /\ c = run[i].command
                                   /\ output'[c] = run[i].last
           /\ \/ decisionOut'[c] = decisionOut[c] \/ ~IsEnvelope(decisionOut'[c])
              \/ \E i \in Runner : /\ EmitDecision(i) /\ c = run[i].command
                                   /\ decisionOut'[c] = run[i].first
<1>1. TypeOK
  BY DEF SoloInv, CollectInv
<1>2. CASE output' = output /\ decisionOut' = decisionOut
  BY <1>2
<1>3. ASSUME NEW i \in Runner, EmitDecision(i)
      PROVE  /\ output' = output
             /\ \/ decisionOut'[c] = decisionOut[c]
                \/ c = run[i].command /\ decisionOut'[c] = run[i].first
  <2>1. output' = output /\ decisionOut' = [decisionOut EXCEPT ![run[i].command] = run[i].first]
    BY <1>3 DEF EmitDecision
  <2>2. CASE c = run[i].command
    BY <1>1, <2>1, <2>2 DEF TypeOK
  <2>3. CASE c # run[i].command
    BY <1>1, <2>1, <2>3 DEF TypeOK
  <2> QED
    BY <2>1, <2>2, <2>3
<1>4. ASSUME NEW i \in Runner, Emit(i)
      PROVE  /\ decisionOut' = decisionOut
             /\ \/ output'[c] = output[c]
                \/ c = run[i].command /\ output'[c] = run[i].last
  <2>1. decisionOut' = decisionOut /\ output' = [output EXCEPT ![run[i].command] = run[i].last]
    BY <1>4 DEF Emit
  <2>2. CASE c = run[i].command
    BY <1>1, <2>1, <2>2 DEF TypeOK
  <2>3. CASE c # run[i].command
    BY <1>1, <2>1, <2>3 DEF TypeOK
  <2> QED
    BY <2>1, <2>2, <2>3
<1>5. ASSUME NEW i \in Runner, EmitReportDecision(i) \/ EmitReport(i) \/ WriteFails(i)
      PROVE  /\ decisionOut'[c] \in {decisionOut[c], Report, Torn}
             /\ output'[c] \in {output[c], Report, Torn}
  BY <1>1, <1>5 DEF EmitReportDecision, EmitReport, WriteFails, TypeOK
<1> QED
  BY <1>2, <1>3, <1>4, <1>5
  DEF IsEnvelope, Next, vars, Launch, Step, Recover, Mismatch, Begin, Guard, Collect, CollectFails,
      AppendFirst, AppendLast, AppendFails, AttestorRaises, Save, Kill, Land

LEMMA PairsStep ==
    ASSUME SoloInv, [Next]_vars, NEW f \in File
    PROVE  PairSaved(f)'
<1>0. PairSaved(f) /\ checkpoint \in [File -> Checkpoint \cup {Absent}]
  BY DEF SoloInv, CollectInv, TypeOK
<1>1. CASE checkpoint'[f] = checkpoint[f]
  BY <1>0, <1>1 DEF PairSaved, TwoStage
<1>2. CASE checkpoint'[f] # checkpoint[f]
  <2>1. PICK i \in Runner : Save(i) /\ checkpoint'[f] = Kept(run[i])
    BY <1>0, <1>2, SavedOnce
  <2>2. RunMatches(i) /\ run[i].stage = "save"
    BY <2>1, SoloRun DEF Save
  <2> QED
    BY <2>1, <2>2 DEF PairSaved, RunMatches, Collected, Kept, TwoStage
<1> QED
  BY <1>1, <1>2

LEMMA ShownStep ==
    ASSUME SoloInv, [Next]_vars, NEW c \in Command
    PROVE  ShownAfterSave(c)' /\ DecisionOfTwoStage(c)'
<1>0. checkpoint \in [File -> Checkpoint \cup {Absent}] /\ ShownAfterSave(c) /\ DecisionOfTwoStage(c)
  BY DEF SoloInv, CollectInv, TypeOK
<1>1. checkpointOf[c] # NoFile => checkpointOf[c] \in File
  BY CollectAssumption
<1>2. ASSUME checkpointOf[c] # NoFile, Saved(c)' = Absent PROVE Saved(c) = Absent
  <2>1. CASE checkpoint' = checkpoint
    BY <1>2, <2>1 DEF Saved
  <2>2. ASSUME NEW i \in Runner, NEW f \in File, Kept(run[i]) # Absent,
               checkpoint' = [checkpoint EXCEPT ![f] = Kept(run[i])]
        PROVE  Saved(c) = Absent
    BY <1>0, <1>1, <1>2, <2>2 DEF Saved
  <2> QED
    BY <2>1, <2>2, SavedOnce
<1>3. ASSUME NEW i \in Runner, Emit(i), c = run[i].command, checkpointOf[c] # NoFile
      PROVE  Saved(c) # Absent
  <2>1. RunMatches(i) /\ RunBacked(i) /\ run[i] \in Run /\ run[i].stage = "emit"
    BY <1>3, SoloRun DEF Emit
  <2>2. Kept(run[i]) \in Checkpoint
    BY <2>1, <1>3 DEF RunBacked, Collected, Own, Run, Kept, Checkpoint
  <2> QED
    BY <1>3, <2>1, <2>2, MarkerAssumption DEF RunMatches, Completed
<1>4. ShownAfterSave(c)'
  BY <1>0, <1>2, <1>3, OutputStep DEF ShownAfterSave, IsEnvelope
<1>5. ASSUME NEW i \in Runner, EmitDecision(i), c = run[i].command
      PROVE  TwoStage(c)
  BY <1>5, SoloRun DEF EmitDecision, RunBacked
<1>6. DecisionOfTwoStage(c)'
  BY <1>0, <1>5, OutputStep DEF DecisionOfTwoStage, IsEnvelope, TwoStage
<1> QED
  BY <1>4, <1>6

LEMMA MatchStep ==
    ASSUME SoloInv, [Next]_vars
    PROVE  OutputsMatchCheckpoint'
<1> SUFFICES ASSUME NEW c \in Command, Complete(c)'
             PROVE  /\ IsEnvelope(output'[c]) => output'[c] = Saved(c)'.last
                    /\ IsEnvelope(decisionOut'[c]) => decisionOut'[c] = Saved(c)'.first
  BY DEF OutputsMatchCheckpoint, IsEnvelope
<1>0. checkpoint \in [File -> Checkpoint \cup {Absent}] /\ checkpointOf[c] \in File
  BY CollectAssumption DEF SoloInv, CollectInv, TypeOK, Complete, Saved
<1>1. CASE Saved(c)' = Saved(c)
  <2>1. Complete(c)
    BY <1>1 DEF Complete
  <2>2. /\ IsEnvelope(output[c]) => output[c] = Saved(c).last
        /\ IsEnvelope(decisionOut[c]) => decisionOut[c] = Saved(c).first
    BY <2>1 DEF SoloInv, OutputsMatchCheckpoint
  <2>3. ASSUME NEW i \in Runner, Emit(i), c = run[i].command
        PROVE  run[i].last = Saved(c).last
    <3>1. RunMatches(i) /\ run[i].stage = "emit"
      BY <2>3, SoloRun DEF Emit
    <3> QED
      BY <2>3, <3>1, <1>0, CollectAssumption DEF RunMatches, Completed, Kept
  <2>4. ASSUME NEW i \in Runner, EmitDecision(i), c = run[i].command
        PROVE  run[i].first = Saved(c).first
    <3>1. RunMatches(i) /\ run[i].stage = "emitDecision"
      BY <2>4, SoloRun DEF EmitDecision
    <3>2. run[i].recovered
      BY <2>1, <2>4, <3>1 DEF RunMatches, Working, Complete
    <3> QED
      BY <2>4, <3>1, <3>2, <1>0, CollectAssumption DEF RunMatches, Completed, Kept
  <2> QED
    BY <1>1, <2>2, <2>3, <2>4, OutputStep DEF IsEnvelope
<1>2. CASE Saved(c)' # Saved(c)
  <2>1. PICK i \in Runner :
           LET d == run[i].command IN
           /\ Save(i) /\ d \in Command /\ Saved(d) = Absent
           /\ checkpointOf[d] \in File
           /\ checkpoint' = [checkpoint EXCEPT ![checkpointOf[d]] = Kept(run[i])]
    BY <1>2, SavedOnce DEF Saved
  <2>2. checkpointOf[run[i].command] = checkpointOf[c]
    BY <1>0, <1>2, <2>1 DEF Saved
  <2>3. Saved(c)' = Kept(run[i]) /\ Saved(c) = Absent
    BY <1>0, <2>1, <2>2, CollectAssumption DEF Saved
  <2>4. c = run[i].command
    BY <2>3 DEF Complete, Kept
  <2>5. output' = output /\ decisionOut' = decisionOut /\ run[i].stage = "save" /\ RunMatches(i)
    BY <2>1, SoloRun DEF Save
  <2>6. ~IsEnvelope(output[c])
    BY <1>0, <2>3, CollectAssumption DEF SoloInv, ShownAfterSave
  <2>7. IsEnvelope(decisionOut[c]) => decisionOut[c] = run[i].first
    BY <2>4, <2>5 DEF SoloInv, DecisionOfTwoStage, RunMatches
  <2> QED
    BY <2>3, <2>5, <2>6, <2>7 DEF Kept
<1> QED
  BY <1>1, <1>2

LEMMA SoloStep ==
    ASSUME OneRunner, SoloInv, [Next]_vars
    PROVE  SoloInv'
<1>1. CollectInv'
  BY CollectInvStep DEF SoloInv
<1>2. ASSUME NEW j \in Runner, run'[j].stage # "idle" PROVE RunMatches(j)'
  <2>1. CASE UNCHANGED vars
    BY <1>2, <2>1 DEF SoloInv, RunMatches, Saved, vars
  <2>2. ASSUME NEW i \in Runner, Step(i) \/ \E c \in Command : Launch(i, c)
        PROVE  RunMatches(j)'
    BY <1>2, <2>2, RunMatchesStep DEF OneRunner
  <2>3. ASSUME NEW a \in late, Land(a) PROVE RunMatches(j)'
    BY <1>2, <2>3 DEF SoloInv, RunMatches, Saved, Land
  <2> QED
    BY <2>1, <2>2, <2>3 DEF Next
<1>3. (\A f \in File : PairSaved(f)')
      /\ (\A c \in Command : ShownAfterSave(c)' /\ DecisionOfTwoStage(c)')
  BY PairsStep, ShownStep
<1>4. OutputsMatchCheckpoint'
  BY MatchStep
<1> QED
  BY <1>1, <1>2, <1>3, <1>4 DEF SoloInv

LEMMA SoloInvHolds == ASSUME OneRunner PROVE Spec => []SoloInv
<1>1. SoloInv /\ [Next]_vars => SoloInv'
  BY SoloStep
<1> QED
  BY <1>1, SoloInit, PTL DEF Spec

(* With a complete checkpoint the outputs show what it holds or no         *)
(* envelope, however the earlier runs ended (cli.py:115-146).              *)
THEOREM OutputsAreOfCheckpoint ==
    ASSUME OneRunner
    PROVE  Spec => []OutputsMatchCheckpoint
BY SoloInvHolds, PTL DEF SoloInv

(* What a checkpoint calls complete is never collected, appended or saved  *)
(* again, by whatever command line meets it (cli.py:115-121,               *)
(* workflow.py:33-54).                                                     *)
THEOREM CompletedWorkStays ==
    ASSUME OneRunner
    PROVE  Spec => CompletedWorkIsKept
<1>1. ASSUME SoloInv, [Next]_vars, NEW c \in Command, Complete(c)
      PROVE  /\ collects'[c] = collects[c]
             /\ \A r \in rows' \ (rows \cup late) : r.command # c
             /\ Saved(c)' = Saved(c)
  <2>0. /\ TypeOK /\ Saved(c) # Absent
        /\ checkpointOf[c] \in File /\ Saved(c) = checkpoint[checkpointOf[c]]
    BY <1>1, CollectAssumption DEF SoloInv, CollectInv, Complete, Saved
  <2>1. Saved(c)' = Saved(c)
    BY <1>1, <2>0, SavedOnce, CollectAssumption DEF Saved, TypeOK
  <2>2. ASSUME NEW i \in Runner, Working(run[i]) PROVE run[i].command # c
    BY <1>1, <2>0, <2>2 DEF SoloInv, RunMatches, Working
  <2>3. collects'[c] = collects[c]
    <3>1. (\E i \in Runner : Collect(i)) \/ collects' = collects
      BY <1>1
      DEF Next, vars, Launch, Step, Recover, Mismatch, Begin, Guard, CollectFails,
          AppendFirst, AppendLast, AppendFails, AttestorRaises, EmitDecision, Save, Emit,
          EmitReportDecision, EmitReport, WriteFails, Kill, GiveUp, Land
    <3>2. ASSUME NEW i \in Runner, Collect(i) PROVE collects'[c] = collects[c]
      BY <2>0, <2>2, <3>2 DEF Collect, Working, TypeOK
    <3> QED
      BY <3>1, <3>2
  <2>4. ASSUME NEW r \in rows' \ (rows \cup late) PROVE r.command # c
    <3>1. PICK i \in Runner :
             /\ run[i].stage \in {"appendFirst", "appendLast"}
             /\ r = RowOf(i)
      BY <1>1, <2>4
      DEF RowOf, Appending, Next, vars, Launch, Step, Recover, Mismatch, Begin, Guard, Collect,
          CollectFails, AppendFirst, AppendLast, AppendFails, AttestorRaises, EmitDecision,
          Save, Emit, EmitReportDecision, EmitReport, WriteFails, Kill, GiveUp, Land
    <3>2. /\ run[i].command # c /\ RunBacked(i) /\ run[i].command \in Command
      BY <1>1, <2>2, <3>1, SoloRun DEF Working
    <3>3. Own(r, run[i].command)
      BY <3>1, <3>2 DEF RunBacked, RowOf, Collected
    <3> QED
      BY <3>2, <3>3, CollectAssumption DEF Own
  <2> QED
    BY <2>1, <2>3, <2>4
<1>2. SoloInv /\ [Next]_vars =>
        [\A c \in Command : Complete(c) =>
            /\ collects'[c] = collects[c]
            /\ \A r \in rows' \ (rows \cup late) : r.command # c
            /\ Saved(c)' = Saved(c)]_vars
  BY <1>1
<1> QED
  BY <1>2, SoloInvHolds, PTL DEF Spec, CompletedWorkIsKept

-----------------------------------------------------------------------------
(* A row that a checkpoint keeps, or that a run is still working for.  This *)
(* is narrower than Held: a run that failed goes on to hold its artifacts   *)
(* until the report is written, but nothing will come of them.              *)
Secure(r) ==
    \/ \E f \in File : checkpoint[f] # Absent /\ r \in {checkpoint[f].first, checkpoint[f].last}
    \/ \E i \in Runner : run[i].stage \in Collected /\ r \in {run[i].first, run[i].last}

Abandoned(r) ==
    /\ r \in rows \cup late
    /\ r.command \in Command
    /\ Recoverable(r.command)
    /\ ~Secure(r)

Collection(r) == <<r.command, r.serial>>

AbandonedCollections == {Collection(r) : r \in {q \in rows \cup late : Abandoned(q)}}

LossInv ==
    /\ IsFiniteSet(AbandonedCollections)
    /\ Cardinality(AbandonedCollections) <= faults

LEMMA SavedStays ==
    ASSUME SoloInv, [Next]_vars, NEW f \in File, checkpoint[f] # Absent
    PROVE  checkpoint'[f] = checkpoint[f]
<1>1. checkpoint \in [File -> Checkpoint \cup {Absent}]
  BY DEF SoloInv, CollectInv, TypeOK
<1> QED
  BY <1>1, SavedOnce, CollectAssumption DEF Saved

(* The two artifacts of a run are of one collection. *)
LEMMA OneCollection ==
    ASSUME SoloInv, NEW i \in Runner, run[i].stage \in Collected,
           NEW r \in {run[i].first, run[i].last}, r \in Artifact, r.command \in Command
    PROVE  Collection(r) = <<run[i].command, run[i].last.serial>>
<1>1. RunBacked(i) /\ RunMatches(i) /\ run[i].command \in Command
  BY SoloRun DEF Collected
<1>2. r = run[i].first => TwoStage(run[i].command)
  BY <1>1, MarkerAssumption DEF RunBacked, Collected
<1>3. r.command = run[i].command
  BY <1>1, <1>2, CollectAssumption DEF RunBacked, Own, Collected
<1>4. r.serial = run[i].last.serial
  BY <1>1, <1>2 DEF RunMatches
<1> QED
  BY <1>3, <1>4 DEF Collection

(* A run keeps its artifacts until it ends well, its attestor raises or a  *)
(* fault ends it.                                                          *)
LEMMA RunKeeps ==
    ASSUME SoloInv, NEW i \in Runner, run[i].stage \in Collected,
           Step(i) \/ \E c \in Command : Launch(i, c)
    PROVE  \/ /\ run'[i].stage \in Collected
              /\ run'[i].first = run[i].first /\ run'[i].last = run[i].last
           \/ faults' = faults + 1
           \/ AttestorRaises(i)
           \/ Emit(i)
<1>1. run[i] \in Run /\ run \in [Runner -> Run]
  BY SoloRun DEF Collected
<1>2. CASE AppendFirst(i) \/ AppendLast(i) \/ EmitDecision(i) \/ Save(i)
  BY <1>1, <1>2 DEF AppendFirst, AppendLast, EmitDecision, Save, Goto, Collected, Run
<1>3. CASE AppendFails(i) \/ WriteFails(i) \/ Kill(i)
  BY <1>3 DEF AppendFails, WriteFails, Kill, Fault
<1> QED
  BY <1>2, <1>3
  DEF Step, Launch, Recover, Mismatch, Begin, Guard, Collect, CollectFails, EmitReportDecision,
      EmitReport, Collected

(* What a step writes into the ledger, or leaves on its way there *)
LEMMA RowWritten ==
    ASSUME SoloInv, NEW i \in Runner, Step(i) \/ \E c \in Command : Launch(i, c),
           NEW r \in (rows' \cup late') \ (rows \cup late)
    PROVE  /\ run[i].stage \in Collected
           /\ r \in {run[i].first, run[i].last}
           /\ ~Emit(i)
BY DEF Step, Launch, Recover, Mismatch, Begin, Guard, Collect, CollectFails, AppendFirst,
       AppendLast, AppendFails, RowOf, Appending, AttestorRaises, EmitDecision, Save, Emit,
       EmitReportDecision, EmitReport, WriteFails, Kill, GiveUp, Land, Collected

(* Nothing is given up without a fault. *)
LEMMA RowLoss ==
    ASSUME SoloInv, NEW i \in Runner, Step(i) \/ \E c \in Command : Launch(i, c),
           NEW r, Abandoned(r)', ~Abandoned(r)
    PROVE  /\ faults' = faults + 1
           /\ Collection(r) = <<run[i].command, run[i].last.serial>>
<1>0. /\ TypeOK /\ TypeOK' /\ r \in rows' \cup late' /\ r \in Artifact
      /\ r.command \in Command /\ Recoverable(r.command)
  <2>1. TypeOK /\ TypeOK'
    BY CollectInvStep DEF SoloInv, CollectInv, Next
  <2> QED
    BY <2>1 DEF Abandoned, TypeOK, Recoverable
<1>1. ASSUME NEW f \in File, checkpoint[f] # Absent
      PROVE  r \notin {checkpoint[f].first, checkpoint[f].last}
  <2>1. checkpoint'[f] = checkpoint[f]
    BY <1>1, SavedStays DEF Next
  <2> QED
    BY <1>1, <2>1 DEF Abandoned, Secure
<1>2. ASSUME NEW j \in Runner, j # i
      PROVE  ~(run[j].stage \in Collected /\ r \in {run[j].first, run[j].last})
  <2>1. run'[j] = run[j]
    BY <1>0, <1>2, OthersUntouched
  <2> QED
    BY <2>1 DEF Abandoned, Secure
<1>3. run[i].stage \in Collected /\ r \in {run[i].first, run[i].last}
  BY <1>0, <1>1, <1>2, RowWritten DEF Abandoned, Secure
<1>4. Collection(r) = <<run[i].command, run[i].last.serial>>
  BY <1>0, <1>3, OneCollection
<1>5. ~(/\ run'[i].stage \in Collected
        /\ run'[i].first = run[i].first /\ run'[i].last = run[i].last)
  BY <1>3 DEF Abandoned, Secure
<1>6. r.command = run[i].command
  BY <1>4 DEF Collection
<1>7. ~AttestorRaises(i)
  BY <1>0, <1>6 DEF AttestorRaises, Recoverable
<1>8. ~Emit(i)
  <2> SUFFICES ASSUME Emit(i) PROVE FALSE
    OBVIOUS
  <2>1. RunMatches(i) /\ run[i].stage = "emit" /\ run[i] \in Run
    BY SoloRun DEF Emit
  <2>2. checkpointOf[run[i].command] # NoFile
    BY <1>0, <1>6 DEF Recoverable
  <2>3. Saved(run[i].command) = Kept(run[i])
    BY <2>1, <2>2 DEF RunMatches, Completed
  <2>4. checkpointOf[run[i].command] \in File
    BY <1>0, <1>6, <2>2, CollectAssumption
  <2>5. checkpoint[checkpointOf[run[i].command]] = Kept(run[i])
    BY <2>2, <2>3 DEF Saved
  <2>6. Kept(run[i]) \in Checkpoint
    <3>1. RunBacked(i)
      BY <2>1, SoloRun
    <3> QED
      BY <1>0, <1>6, <2>1, <3>1 DEF Kept, Checkpoint, Run, RunBacked, Collected, Own
  <2>7. checkpoint[checkpointOf[run[i].command]] # Absent
    BY <2>5, <2>6, MarkerAssumption
  <2> QED
    BY <1>1, <1>3, <2>4, <2>5, <2>7 DEF Kept
<1> QED
  BY <1>3, <1>4, <1>5, <1>7, <1>8, RunKeeps

LEMMA LossStep ==
    ASSUME SoloInv, LossInv, [Next]_vars
    PROVE  LossInv'
<1>0. faults \in Nat
  BY DEF SoloInv, CollectInv, TypeOK
<1>1. CASE UNCHANGED vars
  <2>1. AbandonedCollections' = AbandonedCollections
    BY <1>1 DEF AbandonedCollections, Abandoned, Secure, vars
  <2> QED
    BY <1>1, <2>1 DEF LossInv, vars
<1>2. ASSUME NEW i \in Runner, Step(i) \/ \E c \in Command : Launch(i, c)
      PROVE  LossInv'
  <2> DEFINE given == <<run[i].command, run[i].last.serial>>
  <2>1. ASSUME NEW r \in rows' \cup late', Abandoned(r)'
        PROVE  \/ r \in rows \cup late /\ Abandoned(r)
               \/ faults' = faults + 1 /\ Collection(r) = given
    BY <1>2, <2>1, RowLoss DEF Abandoned
  <2>2. faults' = faults \/ faults' = faults + 1
    BY <1>2
    DEF Step, Launch, Recover, Mismatch, Begin, Guard, Collect, CollectFails, AppendFirst,
        AppendLast, AppendFails, AttestorRaises, EmitDecision, Save, Emit, EmitReportDecision,
        EmitReport, WriteFails, Kill, GiveUp, Land, Fault
  <2>3. CASE faults' = faults
    <3>1. AbandonedCollections' \subseteq AbandonedCollections
      BY <1>0, <2>1, <2>3 DEF AbandonedCollections, Collection
    <3> QED
      BY <1>0, <2>3, <3>1, FS_Subset, FS_CardinalityType DEF LossInv
  <2>4. CASE faults' = faults + 1
    <3> DEFINE more == AbandonedCollections \cup {given}
    <3>1. AbandonedCollections' \subseteq more
      BY <2>1 DEF AbandonedCollections, Collection
    <3>2. /\ IsFiniteSet(AbandonedCollections)
          /\ Cardinality(AbandonedCollections) \in Nat
          /\ Cardinality(AbandonedCollections) <= faults
      BY FS_CardinalityType DEF LossInv
    <3>3. IsFiniteSet(more) /\ Cardinality(more) <= Cardinality(AbandonedCollections) + 1
      BY <3>2, FS_AddElement
    <3>4. Cardinality(more) \in Nat
      BY <3>3, FS_CardinalityType
    <3> HIDE DEF more
    <3>5. /\ IsFiniteSet(AbandonedCollections')
          /\ Cardinality(AbandonedCollections') <= Cardinality(more)
          /\ Cardinality(AbandonedCollections') \in Nat
      BY <3>1, <3>3, FS_Subset, FS_CardinalityType
    <3> QED
      BY <1>0, <2>4, <3>2, <3>3, <3>4, <3>5 DEF LossInv
  <2> QED
    BY <2>2, <2>3, <2>4
<1>3. ASSUME NEW a \in late, Land(a) PROVE LossInv'
  <2>1. rows' \cup late' = rows \cup late
    BY <1>3 DEF Land
  <2>2. AbandonedCollections' = AbandonedCollections
    BY <1>3, <2>1 DEF AbandonedCollections, Abandoned, Secure, Land
  <2> QED
    BY <1>3, <2>2 DEF LossInv, Land
<1> QED
  BY <1>1, <1>2, <1>3 DEF Next

(* A collection that is in the ledger is lost to nothing but a fault, and  *)
(* to each fault one at the most: no re-run, recovery, refusal or report   *)
(* of a command with a checkpoint gives up what an earlier run left in it  *)
(* (cli.py:115-150, 225-232).                                              *)
THEOREM LossesAreFaults ==
    ASSUME OneRunner
    PROVE  Spec => []LossNeedsFault
<1>1. Init => LossInv
  <2> SUFFICES ASSUME Init PROVE LossInv
    OBVIOUS
  <2>1. AbandonedCollections = {}
    BY DEF Init, AbandonedCollections
  <2> QED
    BY <2>1, FS_EmptySet DEF Init, LossInv
<1>2. SoloInv /\ LossInv /\ [Next]_vars => LossInv'
  BY LossStep
<1>3. SoloInv /\ LossInv => LossNeedsFault
  <2> SUFFICES ASSUME SoloInv, LossInv PROVE LossNeedsFault
    OBVIOUS
  <2>1. /\ faults \in Nat /\ IsFiniteSet(AbandonedCollections)
        /\ Cardinality(AbandonedCollections) <= faults
    BY DEF SoloInv, CollectInv, TypeOK, LossInv
  <2>2. Lost \subseteq AbandonedCollections
    BY DEF Lost, AbandonedCollections, Abandoned, Collection, Held, Secure
  <2>3. Cardinality(Lost) <= Cardinality(AbandonedCollections) /\ Cardinality(Lost) \in Nat
    BY <2>1, <2>2, FS_Subset, FS_CardinalityType
  <2>4. Cardinality(AbandonedCollections) \in Nat
    BY <2>1, FS_CardinalityType
  <2> QED
    BY <2>1, <2>3, <2>4 DEF LossNeedsFault
<1> QED
  BY <1>1, <1>2, <1>3, SoloInvHolds, PTL DEF Spec
=============================================================================
