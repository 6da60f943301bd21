------------------------ MODULE Prospective_proofs ------------------------
(***************************************************************************)
(* The chronology of the prospective commands for any length of a day, any *)
(* windows, any tolerance and any delay of the providers' answers.         *)
(***************************************************************************)
EXTENDS Prospective, TLAPS

Artifact == Research \cup Decision \cup Submission \cup Fill

Run == [command : Command \cup {"none"}, day : Int, packets : Seq(Packet),
        research : Research \cup {Nothing}, snapshot : Snapshot \cup {Nothing},
        submission : Submission \cup {Nothing}, sealed : Seq(Artifact)]

(* The conditions on evidence, as EvidenceTimely states them *)
Timely(packets, at) ==
    \A k \in DOMAIN packets :
        /\ packets[k].received <= at
        /\ packets[k].kind = "trading_calendar" => packets[k].stamp = at \div DayLength
        /\ packets[k].kind \in QuoteKinds =>
              packets[k].stamp <= packets[k].received /\ at - packets[k].stamp <= MaxQuoteAge

SoundResearch(r) ==
    /\ r \in Research /\ Timely(r.packets, r.at)
    /\ r.at <= now /\ InWindow(r.at, ResearchOpen)

SoundDecision(d) ==
    /\ d \in Decision /\ Timely(d.packets, d.at)
    /\ d.at <= now /\ InWindow(d.at, DecisionOpen)
    /\ d.research \in attested /\ d.research.at <= d.at

SoundSubmission(s) ==
    /\ s \in Submission
    /\ SoundDecision(s.decision)
    /\ s.decision.at < s.at /\ s.at <= now

SoundFill(f) ==
    /\ f \in Fill /\ Timely(f.packets, f.at)
    /\ f.submission \in attested
    /\ f.submission.at < f.packets[1].stamp
    /\ f.packets[1].stamp <= f.packets[1].received /\ f.packets[1].received < f.at
    /\ f.research = f.submission.decision.research
    /\ f.snapshot = f.submission.decision.snapshot

AttestedSound ==
    \A a \in attested :
        \/ SoundResearch(a) \/ SoundDecision(a) \/ SoundFill(a)
        \/ SoundSubmission(a) /\ a.decision \in attested

(* What a command was given is in the ledger and belongs together *)
InputsSound ==
    /\ run.command \in {"decision-collect", "fill-collect"} =>
          run.research \in Of("research") /\ run.snapshot \in Snapshot
    /\ run.command = "fill-collect" =>
          /\ run.submission \in Of("submission")
          /\ run.submission.decision.research = run.research
          /\ run.submission.decision.snapshot = run.snapshot

(* What it has collected was received by now, and no quote before it was made *)
PacketsSound ==
    \A k \in DOMAIN run.packets :
        /\ run.packets[k].received <= now
        /\ run.packets[k].kind = Reads(run.command)[k]
        /\ run.packets[k].kind \in QuoteKinds => run.packets[k].stamp <= run.packets[k].received

SealedSound ==
    \/ run.sealed = << >>
    \/ run.command = "research-collect" /\ Len(run.sealed) = 1 /\ SoundResearch(run.sealed[1])
    \/ run.command = "decision-collect" /\ Len(run.sealed) = 1 /\ SoundDecision(run.sealed[1])
    \/ /\ run.command = "decision-collect" /\ Len(run.sealed) = 2
       /\ SoundDecision(run.sealed[1]) /\ SoundSubmission(run.sealed[2])
       /\ run.sealed[2].decision = run.sealed[1]
    \/ /\ run.command = "decision-collect" /\ Len(run.sealed) = 1
       /\ SoundSubmission(run.sealed[1]) /\ run.sealed[1].decision \in attested
    \/ run.command = "fill-collect" /\ Len(run.sealed) = 1 /\ SoundFill(run.sealed[1])

TypeInv ==
    /\ now \in 0 .. MaxTime
    /\ attested \subseteq Artifact
    /\ run \in Run

ChainInv == TypeInv /\ AttestedSound /\ InputsSound /\ PacketsSound /\ SealedSound

-----------------------------------------------------------------------------
(* Arithmetic of the daily windows *)
LEMMA DivMod ==
    ASSUME NEW a \in Nat, NEW m \in Nat, m > 0
    PROVE  /\ a = m * (a \div m) + (a % m)
           /\ 0 <= a % m /\ a % m < m /\ a \div m \in Nat
BY SMTT(30)

(* A time in an earlier window and a later time in a later window are at   *)
(* least the gap between the windows apart, on the same day or not.        *)
LEMMA WindowsApart ==
    ASSUME NEW m \in Nat, NEW lo \in Nat, NEW hi \in Nat, lo < hi, hi < m,
           NEW a \in Nat, NEW b \in Nat, a <= b, a % m <= lo, hi <= b % m
    PROVE  a + (hi - lo) <= b
<1> DEFINE qa == a \div m
           qb == b \div m
           ra == a % m
           rb == b % m
<1>1. /\ a = m * qa + ra /\ b = m * qb + rb
      /\ qa \in Nat /\ qb \in Nat /\ ra \in Nat /\ rb \in Nat /\ rb < m /\ ra < m
      /\ ra <= lo /\ hi <= rb
  BY DivMod
<1> HIDE DEF qa, qb, ra, rb
<1>2. CASE qa = qb
  BY <1>1, <1>2
<1>3. CASE qa < qb
  <2>1. PICK n \in Nat : qb = qa + 1 + n
    BY <1>1, <1>3
  <2>2. m * qb = m * qa + m + m * n /\ m * n \in Nat /\ m * qa \in Nat
    BY <1>1, <2>1
  <2>3. QED
    BY <1>1, <2>2
<1>4. CASE qb < qa
  <2>1. PICK n \in Nat : qa = qb + 1 + n
    BY <1>1, <1>4
  <2>2. m * qa = m * qb + m + m * n /\ m * n \in Nat /\ m * qb \in Nat
    BY <1>1, <2>1
  <2>3. QED
    BY <1>1, <2>2
<1>5. QED
  BY <1>1, <1>2, <1>3, <1>4

-----------------------------------------------------------------------------
(* What is sound stays so while the clock runs and the ledger grows. *)
LEMMA SoundStays ==
    ASSUME now \in Nat, now' \in Nat, now <= now', attested \subseteq attested', NEW a
    PROVE  /\ SoundResearch(a) => SoundResearch(a)'
           /\ SoundDecision(a) => SoundDecision(a)'
           /\ SoundSubmission(a) => SoundSubmission(a)'
           /\ SoundFill(a) => SoundFill(a)'
<1>1. SoundResearch(a) => SoundResearch(a)'
  BY DEF SoundResearch, Timely, Research
<1>2. ASSUME NEW d PROVE SoundDecision(d) => SoundDecision(d)'
  BY DEF SoundDecision, Timely, Decision
<1>3. SoundSubmission(a) => SoundSubmission(a)'
  BY <1>2 DEF SoundSubmission, Submission
<1>4. SoundFill(a) => SoundFill(a)'
  BY DEF SoundFill, Timely
<1>5. QED
  BY <1>1, <1>2, <1>3, <1>4

LEMMA AttestedStays ==
    ASSUME ChainInv, now' \in Nat, now <= now', attested' = attested
    PROVE  AttestedSound'
BY SoundStays DEF ChainInv, AttestedSound, TypeInv

LEMMA SealedStays ==
    ASSUME ChainInv, now' \in Nat, now <= now', attested \subseteq attested',
           run'.sealed = run.sealed, run'.command = run.command
    PROVE  SealedSound'
BY SoundStays DEF ChainInv, SealedSound, TypeInv

LEMMA InitEstablishes == Init => ChainInv
BY ProspectiveAssumption
DEF Init, ChainInv, TypeInv, AttestedSound, InputsSound, PacketsSound, SealedSound, AtRest, Run

(* A command that starts has collected and sealed nothing. *)
LEMMA BeginStep ==
    ASSUME ChainInv, NEW command \in Command, NEW research \in Research \cup {Nothing},
           NEW snapshot \in Snapshot \cup {Nothing}, NEW submission \in Submission \cup {Nothing},
           Begin(command, research, snapshot, submission),
           command \in {"decision-collect", "fill-collect"} =>
               research \in Of("research") /\ snapshot \in Snapshot,
           command = "fill-collect" =>
               /\ submission \in Of("submission")
               /\ submission.decision.research = research
               /\ submission.decision.snapshot = snapshot
    PROVE  ChainInv'
<1>1. /\ now' = now /\ attested' = attested /\ now \in Nat
      /\ run' = [command |-> command, day |-> Day(now), packets |-> << >>, research |-> research,
                 snapshot |-> snapshot, submission |-> submission, sealed |-> << >>]
  <2>1. run' = [AtRest EXCEPT !.command = command, !.day = Day(now), !.research = research,
                              !.snapshot = snapshot, !.submission = submission]
    BY DEF Begin
  <2>2. now' = now /\ attested' = attested /\ now \in Nat
    BY ProspectiveAssumption DEF Begin, ChainInv, TypeInv
  <2> HIDE DEF ChainInv
  <2>3. QED
    BY Zenon, <2>1, <2>2 DEF AtRest
<1>2. Day(now) \in Int
  BY <1>1, ProspectiveAssumption DEF Day
<1>3. TypeInv'
  BY <1>1, <1>2 DEF ChainInv, TypeInv, Run
<1>4. AttestedSound'
  BY <1>1, AttestedStays
<1>5. InputsSound' /\ PacketsSound' /\ SealedSound'
  BY <1>1 DEF InputsSound, PacketsSound, SealedSound, Of
<1>6. QED
  BY <1>3, <1>4, <1>5 DEF ChainInv

LEMMA KindsApart ==
    ASSUME TypeInv, NEW a \in attested
    PROVE  /\ a \in Of("research") <=> a \in Research
           /\ a \in Of("decision") <=> a \in Decision
           /\ a \in Of("submission") <=> a \in Submission
           /\ a \in Of("fill") <=> a \in Fill
BY DEF TypeInv, Of, Artifact, Research, Decision, Submission, Fill

LEMMA BeginsStep ==
    ASSUME ChainInv, BeginResearch \/ BeginDecision \/ BeginFill
    PROVE  ChainInv'
<1>1. CASE BeginResearch
  BY <1>1, BeginStep DEF BeginResearch, Command
<1>2. CASE BeginDecision
  <2>1. PICK r \in Of("research"), p \in Snapshot :
            Begin("decision-collect", r, p, Nothing)
    BY <1>2 DEF BeginDecision
  <2>2. r \in Research
    BY KindsApart DEF ChainInv, Of
  <2>3. QED
    BY <2>1, <2>2, BeginStep DEF Command
<1>3. CASE BeginFill
  <2>1. PICK r \in Of("research"), d \in Of("decision"), s \in Of("submission"), p \in Snapshot :
            Descends(s, d, r, p) /\ Begin("fill-collect", r, p, s)
    BY <1>3 DEF BeginFill
  <2>2. r \in Research /\ s \in Submission
    BY KindsApart DEF ChainInv, Of
  <2>3. s.decision.research = r /\ s.decision.snapshot = p
    BY <2>1 DEF Descends
  <2>4. QED
    BY <2>1, <2>2, <2>3, BeginStep DEF Command
<1>4. QED
  BY <1>1, <1>2, <1>3

LEMMA TickStep ==
    ASSUME ChainInv, Tick
    PROVE  ChainInv'
<1>1. now \in Nat /\ now' \in 0 .. MaxTime /\ now <= now' /\ attested' = attested /\ run' = run
  BY ProspectiveAssumption DEF Tick, ChainInv, TypeInv
<1>2. TypeInv' /\ InputsSound'
  BY <1>1 DEF ChainInv, TypeInv, InputsSound, Of
<1>3. PacketsSound'
  <2> SUFFICES ASSUME NEW k \in DOMAIN run.packets PROVE run.packets[k].received <= now'
    BY <1>1 DEF ChainInv, PacketsSound
  <2>1. run.packets[k].received <= now /\ run.packets[k] \in Packet
    BY DEF ChainInv, TypeInv, PacketsSound, Run
  <2>2. QED
    BY <1>1, <2>1 DEF Packet
<1>4. AttestedSound' /\ SealedSound'
  BY <1>1, AttestedStays, SealedStays
<1>5. QED
  BY <1>2, <1>3, <1>4 DEF ChainInv

LEMMA CollectStep ==
    ASSUME ChainInv, Collect
    PROVE  ChainInv'
<1> DEFINE kind == Reads(run.command)[Len(run.packets) + 1]
<1>1. now \in Nat /\ now' = now /\ attested' = attested /\ run \in Run
  BY ProspectiveAssumption DEF Collect, ChainInv, TypeInv
<1>2. PICK stamp \in Stamps(kind) :
          /\ kind # "trading_calendar" => stamp <= now
          /\ run' = [run EXCEPT !.packets =
                        Append(@, [kind |-> kind, received |-> now, stamp |-> stamp])]
  BY DEF Collect
<1>3. kind \in QuoteKinds \cup {"trading_calendar"}
  <2>1. /\ run.command # "none" /\ Len(run.packets) \in Nat
        /\ Len(run.packets) < Len(Reads(run.command))
    BY <1>1 DEF Collect, Outstanding, Run
  <2>2. CASE run.command = "research-collect"
    BY <2>1, <2>2 DEF Reads, QuoteKinds
  <2>3. CASE run.command = "decision-collect"
    BY <2>1, <2>3 DEF Reads, QuoteKinds
  <2>4. CASE run.command = "fill-collect"
    BY <2>1, <2>4 DEF Reads, QuoteKinds
  <2>5. QED
    BY <1>1, <2>1, <2>2, <2>3, <2>4 DEF Run, Command
<1>4. stamp \in Int
  BY <1>1, <1>2, ProspectiveAssumption DEF Stamps, Run
<1> HIDE DEF kind
<1> DEFINE packet == [kind |-> kind, received |-> now, stamp |-> stamp]
<1>5. packet \in Packet
  BY <1>1, <1>3, <1>4 DEF Packet
<1>6. /\ run'.packets = Append(run.packets, packet)
      /\ run'.command = run.command /\ run'.research = run.research
      /\ run'.snapshot = run.snapshot /\ run'.submission = run.submission
      /\ run'.sealed = run.sealed
  BY <1>1, <1>2 DEF Run
<1>7. run' \in Run
  <2>1. Append(run.packets, packet) \in Seq(Packet)
    BY <1>1, <1>5 DEF Run
  <2>2. run' = [run EXCEPT !.packets = Append(run.packets, packet)]
    BY <1>2
  <2> HIDE DEF packet
  <2>3. QED
    BY <1>1, <2>1, <2>2 DEF Run
<1>8. TypeInv' /\ InputsSound'
  BY <1>1, <1>6, <1>7 DEF ChainInv, TypeInv, InputsSound, Of
<1>9. PacketsSound'
  <2> SUFFICES ASSUME NEW k \in DOMAIN run'.packets
               PROVE  /\ run'.packets[k].received <= now
                      /\ run'.packets[k].kind = Reads(run.command)[k]
                      /\ run'.packets[k].kind \in QuoteKinds =>
                            run'.packets[k].stamp <= run'.packets[k].received
    BY <1>1, <1>6 DEF PacketsSound
  <2>1. CASE k = Len(run.packets) + 1
    <3>1. run'.packets[k] = packet
      BY <1>1, <1>5, <1>6, <2>1 DEF Run
    <3>2. QED
      BY <1>1, <1>2, <2>1, <3>1 DEF kind, QuoteKinds
  <2>2. CASE k # Len(run.packets) + 1
    <3>1. k \in DOMAIN run.packets /\ run'.packets[k] = run.packets[k]
      BY <1>1, <1>5, <1>6, <2>2 DEF Run
    <3>2. QED
      BY <3>1 DEF ChainInv, PacketsSound
  <2>3. QED
    BY <2>1, <2>2
<1>10. AttestedSound' /\ SealedSound'
  BY <1>1, <1>6, AttestedStays, SealedStays
<1>11. QED
  BY <1>8, <1>9, <1>10 DEF ChainInv

-----------------------------------------------------------------------------
(* A complete bundle is timely: assess compares every packet with the time *)
(* at which the artifact is sealed.                                        *)
LEMMA CompleteIsTimely ==
    ASSUME ChainInv, NEW command \in Command, Complete(command)
    PROVE  Timely(run.packets, now)
<1> SUFFICES ASSUME NEW k \in DOMAIN run.packets
             PROVE  /\ run.packets[k].received <= now
                    /\ run.packets[k].kind = "trading_calendar" =>
                          run.packets[k].stamp = now \div DayLength
                    /\ run.packets[k].kind \in QuoteKinds =>
                          /\ run.packets[k].stamp <= run.packets[k].received
                          /\ now - run.packets[k].stamp <= MaxQuoteAge
  BY DEF Timely
<1>1. Assessed(run.packets[k], now)
  BY DEF Complete
<1>2. run.packets[k].kind \in QuoteKinds => run.packets[k].stamp <= run.packets[k].received
  BY DEF ChainInv, PacketsSound
<1>3. QED
  BY <1>1, <1>2 DEF Assessed, QuoteKinds, Day

(* Sealing adds a sound artifact to what the command has sealed. *)
LEMMA SealStep ==
    ASSUME ChainInv, NEW artifact \in Artifact, Seal(artifact)
    PROVE  /\ TypeInv' /\ InputsSound' /\ PacketsSound' /\ AttestedSound'
           /\ now' = now /\ attested' = attested
           /\ run'.command = run.command /\ run'.sealed = Append(run.sealed, artifact)
<1>1. now \in Nat /\ now' = now /\ attested' = attested /\ run \in Run
  BY ProspectiveAssumption DEF Seal, ChainInv, TypeInv
<1>2. run' = [run EXCEPT !.sealed = Append(run.sealed, artifact)]
  BY DEF Seal
<1>3. Append(run.sealed, artifact) \in Seq(Artifact)
  BY <1>1 DEF Run
<1>4. /\ run' \in Run /\ run'.sealed = Append(run.sealed, artifact)
      /\ run'.command = run.command /\ run'.packets = run.packets
      /\ run'.research = run.research /\ run'.snapshot = run.snapshot
      /\ run'.submission = run.submission
  BY <1>1, <1>2, <1>3 DEF Run
<1>5. TypeInv' /\ InputsSound' /\ PacketsSound'
  BY <1>1, <1>4 DEF ChainInv, TypeInv, InputsSound, PacketsSound, Of
<1>6. QED
  BY <1>1, <1>4, <1>5, AttestedStays

LEMMA SealResearchStep ==
    ASSUME ChainInv, SealResearch
    PROVE  ChainInv'
<1>0. PICK r : r = [kind |-> "research", at |-> now, packets |-> run.packets]
  OBVIOUS
<1>1. now \in Nat /\ run \in Run
  BY ProspectiveAssumption DEF ChainInv, TypeInv
<1>2. r \in Research
  BY <1>0, <1>1 DEF Research, Run
<1>3. SoundResearch(r)
  BY <1>0, <1>1, <1>2, CompleteIsTimely DEF SealResearch, SoundResearch, Command
<1>4. /\ run.command = "research-collect" /\ run.sealed = << >> /\ Seal(r)
  BY <1>0 DEF SealResearch, Complete
<1>5. run'.sealed = Append(<< >>, r) /\ run'.command = "research-collect"
  BY <1>2, <1>4, SealStep DEF Artifact
<1>6. Len(run'.sealed) = 1 /\ run'.sealed[1] = r
  BY <1>5
<1>7. SoundResearch(r)'
  BY <1>1, <1>2, <1>3, <1>4, SealStep, SoundStays DEF Artifact
<1>8. SealedSound'
  BY <1>5, <1>6, <1>7 DEF SealedSound
<1>9. QED
  BY <1>2, <1>4, <1>8, SealStep DEF ChainInv, Artifact

LEMMA SealDecisionStep ==
    ASSUME ChainInv, SealDecision
    PROVE  ChainInv'
<1>0. PICK d : d = [kind |-> "decision", at |-> now, packets |-> run.packets,
                    research |-> run.research, snapshot |-> run.snapshot]
  OBVIOUS
<1>1. now \in Nat /\ run \in Run
  BY ProspectiveAssumption DEF ChainInv, TypeInv
<1>2. run.command = "decision-collect" /\ run.sealed = << >> /\ Seal(d)
  BY <1>0 DEF SealDecision, Complete
<1>3. /\ run.research \in attested /\ run.research \in Research
      /\ run.research.at <= now /\ run.snapshot \in Snapshot
  <2>1. run.research \in Of("research") /\ run.snapshot \in Snapshot
    BY <1>2 DEF ChainInv, InputsSound
  <2>2. run.research \in attested /\ run.research \in Research
    BY <2>1, KindsApart DEF ChainInv, Of
  <2>3. SoundResearch(run.research)
    BY <2>2 DEF ChainInv, AttestedSound, SoundDecision, SoundSubmission, SoundFill,
                Research, Decision, Submission, Fill
  <2>4. QED
    BY <2>1, <2>2, <2>3 DEF SoundResearch
<1>4. d \in Decision
  BY <1>0, <1>1, <1>3 DEF Decision, Run
<1>5. SoundDecision(d)
  BY <1>0, <1>1, <1>3, <1>4, CompleteIsTimely DEF SealDecision, SoundDecision, Command
<1>6. run'.sealed = Append(<< >>, d) /\ run'.command = "decision-collect"
  BY <1>2, <1>4, SealStep DEF Artifact
<1>7. Len(run'.sealed) = 1 /\ run'.sealed[1] = d
  BY <1>6
<1>8. SoundDecision(d)'
  BY <1>1, <1>2, <1>4, <1>5, SealStep, SoundStays DEF Artifact
<1>9. SealedSound'
  BY <1>6, <1>7, <1>8 DEF SealedSound
<1>10. QED
  BY <1>2, <1>4, <1>9, SealStep DEF ChainInv, Artifact

LEMMA SealSubmissionStep ==
    ASSUME ChainInv, SealSubmission
    PROVE  ChainInv'
<1>0. PICK d, s : d = run.sealed[1] /\ s = [kind |-> "submission", at |-> now, decision |-> d]
  OBVIOUS
<1>1. now \in Nat /\ run \in Run
  BY ProspectiveAssumption DEF ChainInv, TypeInv
<1>2. /\ run.command = "decision-collect" /\ Len(run.sealed) = 1 /\ Seal(s)
      /\ d.kind = "decision" /\ d.at < now
  BY <1>0 DEF SealSubmission
<1>3. SoundDecision(d)
  BY <1>0, <1>2 DEF ChainInv, SealedSound, SoundSubmission, Submission
<1>4. s \in Submission
  BY <1>0, <1>1, <1>3 DEF Submission, SoundDecision
<1>5. SoundSubmission(s)
  BY <1>0, <1>1, <1>2, <1>3, <1>4 DEF SoundSubmission
<1>6. s.decision = d
  BY <1>0
<1>7. run'.sealed = Append(run.sealed, s) /\ run'.command = "decision-collect"
  BY <1>2, <1>4, SealStep DEF Artifact
<1>8. Len(run'.sealed) = 2 /\ run'.sealed[1] = d /\ run'.sealed[2] = s
  BY <1>0, <1>1, <1>2, <1>4, <1>7 DEF Run, Artifact
<1>9. SoundDecision(d)' /\ SoundSubmission(s)'
  BY <1>1, <1>2, <1>3, <1>4, <1>5, SealStep, SoundStays DEF Artifact
<1>10. SealedSound'
  BY <1>6, <1>7, <1>8, <1>9 DEF SealedSound
<1>11. QED
  BY <1>2, <1>4, <1>10, SealStep DEF ChainInv, Artifact

LEMMA SealFillStep ==
    ASSUME ChainInv, SealFill
    PROVE  ChainInv'
<1>0. PICK f, q : /\ q = run.packets[1]
                  /\ f = [kind |-> "fill", at |-> now, packets |-> run.packets,
                          research |-> run.research, snapshot |-> run.snapshot,
                          submission |-> run.submission]
  OBVIOUS
<1>1. now \in Nat /\ run \in Run
  BY ProspectiveAssumption DEF ChainInv, TypeInv
<1>2. /\ run.command = "fill-collect" /\ run.sealed = << >> /\ Seal(f)
      /\ PricedBy(q, run.submission)
  BY <1>0 DEF SealFill, Complete
<1>3. /\ run.research \in Research /\ run.snapshot \in Snapshot
      /\ run.submission \in attested /\ run.submission \in Submission
      /\ run.submission.decision.research = run.research
      /\ run.submission.decision.snapshot = run.snapshot
  BY <1>2, KindsApart DEF ChainInv, InputsSound, Of
<1>4. q.stamp <= q.received
  <2>1. Reads("fill-collect") = <<"option_quote">>
    BY DEF Reads
  <2>2. 1 \in DOMAIN run.packets
    BY <1>1, <1>2, <2>1 DEF SealFill, Complete, Outstanding, Run
  <2>3. q.kind = "option_quote"
    BY <1>0, <1>2, <2>1, <2>2 DEF ChainInv, PacketsSound
  <2>4. QED
    BY <1>0, <2>2, <2>3 DEF ChainInv, PacketsSound, QuoteKinds
<1>5. f \in Fill
  BY <1>0, <1>1, <1>3 DEF Fill, Run
<1>6. SoundFill(f)
  BY <1>0, <1>1, <1>2, <1>3, <1>4, <1>5, CompleteIsTimely
  DEF SealFill, SoundFill, PricedBy, Command
<1>7. run'.sealed = Append(<< >>, f) /\ run'.command = "fill-collect"
  BY <1>2, <1>5, SealStep DEF Artifact
<1>8. Len(run'.sealed) = 1 /\ run'.sealed[1] = f
  BY <1>7
<1>9. SoundFill(f)'
  BY <1>1, <1>2, <1>5, <1>6, SealStep, SoundStays DEF Artifact
<1>10. SealedSound'
  BY <1>7, <1>8, <1>9 DEF SealedSound
<1>11. QED
  BY <1>2, <1>5, <1>10, SealStep DEF ChainInv, Artifact

-----------------------------------------------------------------------------
(* A command that stops, or has nothing left to attest *)
LEMMA RestStep ==
    ASSUME TypeInv, now' = now, attested' \subseteq Artifact, run' = AtRest
    PROVE  TypeInv' /\ InputsSound' /\ PacketsSound' /\ SealedSound'
BY DEF TypeInv, InputsSound, PacketsSound, SealedSound, AtRest, Run

LEMMA StopStep ==
    ASSUME ChainInv, Stop
    PROVE  ChainInv'
<1>1. TypeInv /\ now' = now /\ attested' = attested /\ now \in Nat /\ run' = AtRest
  BY ProspectiveAssumption DEF Stop, ChainInv, TypeInv
<1>2. AttestedSound'
  BY <1>1, AttestedStays
<1>3. QED
  BY <1>1, <1>2, RestStep DEF ChainInv, TypeInv

(* Attesting the first sealed artifact: it is sound, and when it is a      *)
(* submission its decision was attested before it.                         *)
LEMMA AttestStep ==
    ASSUME ChainInv, Attest
    PROVE  ChainInv'
<1>0. PICK h : h = Head(run.sealed)
  OBVIOUS
<1>1. /\ now \in Nat /\ run \in Run /\ now' = now /\ attested' = attested \cup {h}
      /\ run.sealed # << >> /\ run.sealed \in Seq(Artifact)
  BY <1>0, ProspectiveAssumption DEF Attest, Ready, ChainInv, TypeInv, Run
<1>2. h = run.sealed[1] /\ h \in Artifact
  BY <1>0, <1>1
<1>3. \/ SoundResearch(h) \/ SoundDecision(h) \/ SoundFill(h)
      \/ SoundSubmission(h) /\ h.decision \in attested
  BY <1>1, <1>2 DEF ChainInv, SealedSound
<1>4. ASSUME NEW a
      PROVE  /\ SoundResearch(a) => SoundResearch(a)'
             /\ SoundDecision(a) => SoundDecision(a)'
             /\ SoundSubmission(a) => SoundSubmission(a)'
             /\ SoundFill(a) => SoundFill(a)'
  BY <1>1, SoundStays
<1>5. AttestedSound'
  <2> SUFFICES ASSUME NEW a \in attested'
               PROVE  \/ SoundResearch(a)' \/ SoundDecision(a)' \/ SoundFill(a)'
                      \/ SoundSubmission(a)' /\ a.decision \in attested'
    BY DEF AttestedSound
  <2>1. \/ SoundResearch(a) \/ SoundDecision(a) \/ SoundFill(a)
        \/ SoundSubmission(a) /\ a.decision \in attested
    BY <1>1, <1>3 DEF ChainInv, AttestedSound
  <2>2. QED
    BY <1>1, <1>4, <2>1
<1>6. CASE Len(run.sealed) = 1
  <2>1. run' = AtRest
    BY <1>6 DEF Attest
  <2>2. QED
    BY <1>1, <1>2, <1>5, <2>1, RestStep DEF ChainInv, TypeInv
<1>7. CASE Len(run.sealed) # 1
  <2>1. PICK d, s : d = run.sealed[1] /\ s = run.sealed[2]
    OBVIOUS
  <2>2. /\ run.command = "decision-collect" /\ Len(run.sealed) = 2
        /\ SoundSubmission(s) /\ s.decision = d
    BY <1>1, <1>7, <2>1 DEF ChainInv, SealedSound
  <2>3. run' = [run EXCEPT !.sealed = Tail(run.sealed)]
    BY <1>7 DEF Attest
  <2>4. Tail(run.sealed) \in Seq(Artifact) /\ Len(Tail(run.sealed)) = 1 /\ Tail(run.sealed)[1] = s
    BY <1>1, <2>1, <2>2
  <2>5. /\ run' \in Run /\ run'.sealed = Tail(run.sealed)
        /\ run'.command = run.command /\ run'.packets = run.packets
        /\ run'.research = run.research /\ run'.snapshot = run.snapshot
        /\ run'.submission = run.submission
    BY <1>1, <2>3, <2>4 DEF Run
  <2>6. SealedSound'
    BY <1>1, <1>2, <1>4, <2>1, <2>2, <2>4, <2>5 DEF SealedSound
  <2>7. TypeInv' /\ InputsSound' /\ PacketsSound'
    BY <1>1, <1>2, <2>5 DEF ChainInv, TypeInv, InputsSound, PacketsSound, Of
  <2>8. QED
    BY <1>5, <2>6, <2>7 DEF ChainInv
<1>8. QED
  BY <1>6, <1>7

LEMMA ChainInvStep == ChainInv /\ [Next]_vars => ChainInv'
<1> SUFFICES ASSUME ChainInv, [Next]_vars PROVE ChainInv'
  OBVIOUS
<1>1. CASE UNCHANGED vars
  <2>1. now' = now /\ attested' = attested /\ run' = run /\ now \in Nat
    BY <1>1, ProspectiveAssumption DEF vars, ChainInv, TypeInv
  <2>2. AttestedSound' /\ SealedSound'
    BY <2>1, AttestedStays, SealedStays
  <2>3. QED
    BY <2>1, <2>2 DEF ChainInv, TypeInv, InputsSound, PacketsSound, Of
<1>2. QED
  BY <1>1, TickStep, BeginsStep, CollectStep, SealResearchStep, SealDecisionStep,
     SealSubmissionStep, SealFillStep, AttestStep, StopStep DEF Next

LEMMA ChainInvHolds == Spec => []ChainInv
BY InitEstablishes, ChainInvStep, PTL DEF Spec

-----------------------------------------------------------------------------
(* The clock, the ledger of artifacts and the running command keep their   *)
(* shape, whatever the providers answer and when (workflow.py:288-345).    *)
THEOREM ChainTypeCorrect == Spec => []TypeOK
<1>1. ChainInv => TypeOK
  BY DEF ChainInv, TypeInv, TypeOK, Artifact, Run
<1>2. QED
  BY <1>1, ChainInvHolds, PTL

(* What an attested artifact rests on was known and fresh when it was      *)
(* sealed, for any delays and any maximal age (market_data.py:111-158).    *)
THEOREM EvidenceIsTimely == Spec => []EvidenceTimely
<1>1. ChainInv => EvidenceTimely
  BY DEF ChainInv, AttestedSound, SoundResearch, SoundDecision, SoundFill, SoundSubmission,
         Submission, EvidenceTimely, Timely, Of
<1>2. QED
  BY <1>1, ChainInvHolds, PTL

(* Attested chains are closed: a decision's research, a submission's       *)
(* decision and a fill's submission precede it in the ledger, and a fill   *)
(* names what its decision rests on (workflow.py:333-341).                 *)
THEOREM ChainsClosed == Spec => []Ancestry
<1>1. ChainInv => Ancestry
  <2> SUFFICES ASSUME ChainInv PROVE Ancestry
    OBVIOUS
  <2>1. ASSUME NEW d \in Of("decision") PROVE d.research \in attested
    BY DEF ChainInv, AttestedSound, Of, SoundResearch, SoundDecision, SoundSubmission, SoundFill,
           Research, Submission, Fill
  <2>2. ASSUME NEW s \in Of("submission") PROVE s.decision \in attested
    BY DEF ChainInv, AttestedSound, Of, SoundResearch, SoundDecision, SoundFill,
           Research, Decision, Fill
  <2>3. ASSUME NEW f \in Of("fill") PROVE SoundFill(f)
    BY DEF ChainInv, AttestedSound, Of, SoundResearch, SoundDecision, SoundSubmission,
           Research, Decision, Submission
  <2>4. QED
    BY <2>1, <2>2, <2>3 DEF Ancestry, SoundFill
<1>2. QED
  BY <1>1, ChainInvHolds, PTL

(* Along every attested chain research, decision, submission, quote and    *)
(* fill follow one another in time, the decision at least the gap between  *)
(* the two windows after its research, of the same day or an earlier one   *)
(* (operations.py:85-169).                                                 *)
THEOREM ChainsInOrder == Spec => []Chronology
<1>1. ChainInv => Chronology
  <2> SUFFICES ASSUME ChainInv, NEW f \in Of("fill")
               PROVE  LET s == f.submission
                          d == s.decision
                          quote == f.packets[1]
                      IN  /\ d.research.at + (DecisionOpen - ResearchOpen - Tolerance) <= d.at
                          /\ d.at < s.at
                          /\ s.at < quote.stamp /\ quote.stamp <= quote.received
                          /\ quote.received < f.at
    BY DEF Chronology
  <2> DEFINE s == f.submission
             d == s.decision
             r == d.research
  <2>1. SoundFill(f)
    BY DEF ChainInv, AttestedSound, Of, SoundResearch, SoundDecision, SoundSubmission,
           Research, Decision, Submission
  <2>2. s \in attested /\ s \in Submission
    BY <2>1 DEF SoundFill, Fill
  <2>3. SoundSubmission(s)
    BY <2>2 DEF ChainInv, AttestedSound, SoundResearch, SoundDecision, SoundFill,
                Research, Decision, Submission, Fill
  <2>4. SoundDecision(d) /\ d.at < s.at
    BY <2>3 DEF SoundSubmission
  <2>5. r \in attested /\ r \in Research /\ r.at <= d.at
    BY <2>4 DEF SoundDecision, Decision
  <2>6. SoundResearch(r)
    BY <2>5 DEF ChainInv, AttestedSound, SoundDecision, SoundSubmission, SoundFill,
                Research, Decision, Submission, Fill
  <2>7. r.at + (DecisionOpen - ResearchOpen - Tolerance) <= d.at
    <3>1. /\ r.at \in Nat /\ d.at \in Nat /\ DayLength \in Nat
          /\ ResearchOpen + Tolerance \in Nat /\ DecisionOpen \in Nat
          /\ ResearchOpen + Tolerance < DecisionOpen /\ DecisionOpen < DayLength
      BY <2>4, <2>5, ProspectiveAssumption DEF SoundDecision, Decision, Research
    <3>2. r.at % DayLength <= ResearchOpen + Tolerance /\ DecisionOpen <= d.at % DayLength
      BY <2>4, <2>6 DEF SoundResearch, SoundDecision, InWindow
    <3>3. r.at + (DecisionOpen - (ResearchOpen + Tolerance)) <= d.at
      BY <2>5, <3>1, <3>2, WindowsApart
    <3>4. QED
      BY <3>1, <3>3, ProspectiveAssumption
  <2>8. QED
    BY <2>1, <2>4, <2>7 DEF SoundFill
<1>2. QED
  BY <1>1, ChainInvHolds, PTL
=============================================================================
