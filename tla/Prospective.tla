----------------------------- MODULE Prospective -----------------------------
(***************************************************************************)
(* The chronology of the prospective commands: research-collect,           *)
(* decision-collect (with its submission) and fill-collect, over a running *)
(* clock.  Evidence is collected one provider answer after another and     *)
(* assessed together when the artifact is sealed; sealed artifacts are     *)
(* attested later still.                                                   *)
(*                                                                         *)
(* A tick is the grain at which clock readings differ.  Ticks count        *)
(* Europe/London time.  Artifacts are content-addressed: an id that names  *)
(* an ancestor is that ancestor.  What a command does to files and rows is *)
(* CollectCommand's subject, what the risk engine says is RiskEngine's.    *)
(***************************************************************************)
EXTENDS Integers, Sequences, FiniteSets

CONSTANTS
    DayLength,     \* ticks of a day
    ResearchOpen,  \* 13:30, in ticks of the day
    DecisionOpen,  \* 14:40
    Tolerance,     \* how long a window stays open
    MaxQuoteAge,   \* mandate.max_quote_age_seconds
    Lag,           \* by how much answers lag behind the clock (ahead: negative)
    Snapshot,      \* attested portfolio snapshots
    Nothing,       \* no ancestor of this kind
    MaxTime,       \* bound: the last tick
    MaxAttested    \* bound, per command: its artifacts when it starts

Command == {"research-collect", "decision-collect", "fill-collect"}

ASSUME ProspectiveAssumption ==
    /\ {DayLength, ResearchOpen, DecisionOpen, Tolerance} \subseteq Nat
    /\ ResearchOpen + Tolerance < DecisionOpen
    /\ DecisionOpen + Tolerance < DayLength
    /\ MaxQuoteAge \in Nat /\ Lag \subseteq Int
    /\ MaxTime \in Nat /\ MaxAttested \in [Command -> Nat]

VARIABLES
    now,       \* the UTC clock
    attested,  \* artifacts with an envelope
    run        \* the command that is running

vars == <<now, attested, run>>

(* The evidence that chronology can refuse.  Market clock, option chain,   *)
(* corporate actions, dividends and FX are never too old for assess: they  *)
(* only let time pass between the others, as Tick does.                    *)
Reads(command) ==
    CASE command = "research-collect" -> <<"trading_calendar", "underlying_quote">>
      [] command = "decision-collect" -> <<"trading_calendar", "underlying_quote",
                                           "option_quote">>
      [] command = "fill-collect" -> <<"option_quote">>

QuoteKinds == {"underlying_quote", "option_quote"}

(* stamp: the provider's observation time, or the session of a calendar *)
Packet == [kind : QuoteKinds \cup {"trading_calendar"},
           received : Nat, stamp : Int]

Day(t) == t \div DayLength

AtRest == [command |-> "none", day |-> 0, packets |-> << >>, research |-> Nothing,
           snapshot |-> Nothing, submission |-> Nothing, sealed |-> << >>]

Of(kind) == {a \in attested : a.kind = kind}

KindOf(command) == CASE command = "research-collect" -> "research"
                     [] command = "decision-collect" -> "decision"
                     [] command = "fill-collect" -> "fill"

Init ==
    /\ now = 0
    /\ attested = {}
    /\ run = AtRest

Tick ==
    /\ now < MaxTime
    /\ now' = now + 1
    /\ UNCHANGED <<attested, run>>

Begin(command, research, snapshot, submission) ==
    /\ run = AtRest
    /\ Cardinality(Of(KindOf(command))) < MaxAttested[command]
    /\ run' = [AtRest EXCEPT !.command = command, !.day = Day(now), !.research = research,
                             !.snapshot = snapshot, !.submission = submission]
    /\ UNCHANGED <<now, attested>>

BeginResearch == Begin("research-collect", Nothing, Nothing, Nothing)

(* Any attested research, of whatever day, and any attested snapshot *)
BeginDecision ==
    \E r \in Of("research"), p \in Snapshot : Begin("decision-collect", r, p, Nothing)

(* Faulty variant: the snapshot is not compared with the decision's *)
DescendsUnvalued(s, d, r, p) ==
    /\ d.research = r
    /\ s.decision = d /\ d.at < s.at

(* The ancestry that fill-collect demands of its four input files *)
Descends(s, d, r, p) ==
    /\ d.research = r /\ d.snapshot = p
    /\ s.decision = d /\ d.at < s.at

BeginFill ==
    \E r \in Of("research"), d \in Of("decision"), s \in Of("submission"), p \in Snapshot :
        Descends(s, d, r, p) /\ Begin("fill-collect", r, p, s)

Outstanding == Len(run.packets) < Len(Reads(run.command))

(* What the provider may put on its answer.  On a holiday the calendar     *)
(* names the next session; a provider's clock may be ahead of ours.        *)
Stamps(kind) ==
    IF kind = "trading_calendar" THEN {run.day, run.day + 1} ELSE {now - lag : lag \in Lag}

(* collect_packet: an observation later than its receipt is refused *)
Collect ==
    /\ run.command # "none" /\ Outstanding
    /\ LET kind == Reads(run.command)[Len(run.packets) + 1] IN
       \E stamp \in Stamps(kind) :
          /\ kind # "trading_calendar" => stamp <= now
          /\ run' = [run EXCEPT !.packets =
                 Append(@, [kind |-> kind, received |-> now, stamp |-> stamp])]
    /\ UNCHANGED <<now, attested>>

(* Faulty variant: staleness is judged when the answer comes in *)
AssessedAtReceipt(p, at) ==
    IF p.kind = "trading_calendar" THEN p.stamp = Day(at)
    ELSE p.received - p.stamp <= MaxQuoteAge

(* assess: actionable as of `at' *)
Assessed(p, at) ==
    /\ p.received <= at
    /\ IF p.kind = "trading_calendar" THEN p.stamp = Day(at)
       ELSE p.stamp <= at /\ at - p.stamp <= MaxQuoteAge

Complete(command) ==
    /\ run.command = command /\ run.sealed = << >> /\ ~Outstanding
    /\ \A k \in DOMAIN run.packets : Assessed(run.packets[k], now)

InWindow(at, open) ==
    open <= at % DayLength /\ at % DayLength <= open + Tolerance

Seal(artifact) ==
    /\ run' = [run EXCEPT !.sealed = Append(@, artifact)]
    /\ UNCHANGED <<now, attested>>

SealResearch ==
    /\ Complete("research-collect")
    /\ InWindow(now, ResearchOpen)
    /\ Seal([kind |-> "research", at |-> now, packets |-> run.packets])

(* Faulty variant: a decision does not name the snapshot it was taken on *)
SealDecisionUnvalued ==
    /\ Complete("decision-collect")
    /\ InWindow(now, DecisionOpen)
    /\ Seal([kind |-> "decision", at |-> now, packets |-> run.packets,
             research |-> run.research])

SealDecision ==
    /\ Complete("decision-collect")
    /\ InWindow(now, DecisionOpen)
    /\ Seal([kind |-> "decision", at |-> now, packets |-> run.packets,
             research |-> run.research, snapshot |-> run.snapshot])

(* The submission reads the clock again, and must find it advanced *)
SealSubmission ==
    /\ run.command = "decision-collect" /\ Len(run.sealed) = 1
    /\ run.sealed[1].kind = "decision" /\ run.sealed[1].at < now
    /\ Seal([kind |-> "submission", at |-> now, decision |-> run.sealed[1]])

(* Faulty variant: the quote's availability is compared, not its market time *)
PricedByAvailable(quote, submission) ==
    submission.at < quote.received /\ quote.received < now

(* simulate_fill: observed and received after the submission, before now *)
PricedBy(quote, submission) ==
    /\ submission.at < quote.stamp
    /\ submission.at < quote.received /\ quote.received < now

SealFill ==
    /\ Complete("fill-collect")
    /\ PricedBy(run.packets[1], run.submission)
    /\ Seal([kind |-> "fill", at |-> now, packets |-> run.packets, research |-> run.research,
             snapshot |-> run.snapshot, submission |-> run.submission])

(* decision-collect seals both artifacts before it appends the first *)
Ready == run.sealed # << >> /\ run.sealed[Len(run.sealed)].kind # "decision"

(* append_envelope, one artifact after the other *)
Attest ==
    /\ Ready
    /\ attested' = attested \cup {Head(run.sealed)}
    /\ run' = IF Len(run.sealed) = 1 THEN AtRest ELSE [run EXCEPT !.sealed = Tail(@)]
    /\ UNCHANGED now

(* An answer is missing or refused, a check fails, the process dies *)
Stop ==
    /\ run # AtRest
    /\ run' = AtRest
    /\ UNCHANGED <<now, attested>>

Next ==
    \/ Tick
    \/ BeginResearch \/ BeginDecision \/ BeginFill
    \/ Collect
    \/ SealResearch \/ SealDecision \/ SealSubmission \/ SealFill
    \/ Attest
    \/ Stop

Spec == Init /\ [][Next]_vars
-----------------------------------------------------------------------------
Research == [kind : {"research"}, at : Nat, packets : Seq(Packet)]
Decision == [kind : {"decision"}, at : Nat, packets : Seq(Packet),
             research : Research, snapshot : Snapshot]
Submission == [kind : {"submission"}, at : Nat, decision : Decision]
Fill == [kind : {"fill"}, at : Nat, packets : Seq(Packet), research : Research,
         snapshot : Snapshot, submission : Submission]

TypeOK ==
    /\ now \in 0 .. MaxTime
    /\ attested \subseteq Research \cup Decision \cup Submission \cup Fill
    /\ run.packets \in Seq(Packet)
    /\ run.research \in Research \cup {Nothing}
    /\ run.submission \in Submission \cup {Nothing}

(* "One-sided, crossed, zero-size, stale, future ... quotes are rejected"  *)
(* (README.md:34): whatever an attested artifact rests on was known when   *)
(* it was sealed, its quotes were still fresh then, however long the other *)
(* providers took, and its calendar names that day's session.              *)
EvidenceTimely ==
    \A a \in attested \ Of("submission") : \A k \in DOMAIN a.packets :
        LET p == a.packets[k] IN
        /\ p.received <= a.at
        /\ p.kind = "trading_calendar" => p.stamp = a.at \div DayLength
        /\ p.kind \in QuoteKinds => p.stamp <= p.received /\ a.at - p.stamp <= MaxQuoteAge

(* "Submissions cannot predate decisions and fills cannot predate          *)
(* submissions" (README.md:32): along every attested chain the research    *)
(* had its whole window, the decision comes after that window, and the     *)
(* price of the fill was made in the market after the submission.          *)
Chronology ==
    \A f \in Of("fill") :
        LET s == f.submission
            d == s.decision
            quote == f.packets[1]
        IN  /\ d.research.at + (DecisionOpen - ResearchOpen - Tolerance) <= d.at
            /\ d.at < s.at
            /\ s.at < quote.stamp /\ quote.stamp <= quote.received
            /\ quote.received < f.at

(* An attested decision's submission and fill are in the ledger only after *)
(* it, and the research and snapshot a fill names are the ones its         *)
(* decision was taken on.                                                  *)
Ancestry ==
    /\ \A d \in Of("decision") : d.research \in attested
    /\ \A s \in Of("submission") : s.decision \in attested
    /\ \A f \in Of("fill") :
          /\ f.submission \in attested
          /\ f.research = f.submission.decision.research
          /\ f.snapshot = f.submission.decision.snapshot
=============================================================================
