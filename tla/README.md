# Verification of value_options

TLA+ models, TLC runs and TLAPS proofs for the paper-trading fund in `src/`: a Python
package that collects research, decides an option trade, simulates its fill and keeps a
paper ledger, with every stage attested in an append-only Google Sheet. Paths below are
relative to `src/src/value_options/` unless they start with `src/`.

## The system

| component | state it keeps | operations | talks to |
|---|---|---|---|
| attestation boundary (`sheets.py:249-345`, `attestation.py`) | rows of the tab `Attestations!A:G` (external, shared), a class-level lock per process | `append`, `append_envelope`, `append_portfolio_envelope`, `read_back`, `correction`, `reconcile` | Google Sheets over HTTP; called by every prospective command |
| prospective commands (`cli.py:82-239`), `AtomicCheckpoint` (`workflow.py:33-54`) | checkpoint file, one or two output files | `portfolio-collect`, `research-collect`, `decision-collect`, `fill-collect` | the stages below, then the boundary, then the files |
| ledger replay (`workflow.py:108-285`) | none; the ledger file is its input, the attested snapshot its output | `portfolio_collect`, `portfolio_from_artifact` | anchors on a snapshot of the boundary |
| risk engine (`risk.py`, `mandate.py`) | none | `check`, `drawdown_controls` | called by `PaperRun.decide` on a snapshot |
| stages and chronology (`operations.py`, `models.py`, `workflow.py:288-345`) | `PaperRun` of one invocation; sealed records | `create_research`, `decide`, `submit`, `simulate_fill` | providers, clock, parents' envelopes |
| evidence assessment (`market_data.py:76-151`) | none | `ingest_response`, `assess` | called by every stage |
| evidence store (`market_data.py:178-204`) | an append-only evidence file and its lock file | `AppendOnlyEvidenceStore.append` | the file system |
| accounting (`accounting.py`, `execution.py`) | list of events | `append`, `book_fill`, `replay`, `reconcile` | lifecycle events, a sink |
| lifecycle (`lifecycle.py`, `calendar.py`) | none | expiry, assignment, ex-dividend, deep-ITM instructions, rolls | accounting, calendar evidence |
| clients (`broker.py`, `providers.py`, `http.py`), configuration (`config.py`) | none | read-only requests; page traversal of option chains | HTTP, environment |

What is hard in it: several threads and processes share one Sheet that has no
transactions (the head is read, compared, appended to and read again); an answer can be
lost after its write, and a request may take effect after its caller gave up; commands die between
the external write, the checkpoint and the output files and are run again; an evidence file is rewritten as a whole by several
callers, and the machine may lose power around the rename; an assignment is three events
that are appended one by one; the ledger is re-read from a file whose unattested part
may change between runs; an order is approved by one piece of code on a snapshot that is
already old and accepted by another piece of code after its fill.

What makes each component correct:

* boundary: one chain of portfolio snapshots, no forks, no second row for a retry,
  envelopes that say where and when their row really is, a lock that always comes back;
* commands: files never show what the ledger does not hold, a completed command is never
  done again, what is in the ledger is not lost without a fault;
* replay: what was put on record survives;
* engine and replay together: what is approved can be recorded, and the mandate's limits
  hold over sequences of trades, not only over one order;
* chronology: nothing observed after a decision is used in it, nothing stale, ancestors
  are the ones named, each stage after the one before;
* evidence store: whole and distinct packets, no append lost to another caller, calls that
  end;
* accounting and lifecycle: a repeated booking changes nothing, an assignment moves its
  shares at the strike exactly once whoever is interrupted where, the cost basis stays
  within what was paid, an instruction names the right day, a copy that reconciles is the
  same ledger.

## Modules

`CanonicalHead` is the abstract promise: a head that only advances to a snapshot naming it
as its anchor, and envelopes only for the snapshot that is the head. The promise holds until
the tab is disturbed (`Disturb`, `Intrude`); from then on a row still continues only what is
published, and an envelope still says only what is in the tab.

`PortfolioHead` is `append_portfolio_envelope` with everything it calls, one action per
place where another thread may come in between.

| code | action |
|---|---|
| `cli.py:130`: clock read, call made | `Submit` |
| `with self._portfolio_lock` (286) | `Acquire`, and `Leave` on every way out |
| `before = read_all()`, comparison (287-292) | `ReadHead`, `Stale` |
| `append`: scan for the artifact (257-262) | `ScanFound`, `ScanAbsent` |
| `append_row` (123-137) | `Post`; `PostUnanswered` when the row is written and the answer lost |
| the transport's timeout (`http.py:33-45`): the caller raises and leaves the lock | `PostTimesOut`; `Land` is Google writing the row, at any later time or never |
| `read_back`, receipt verification (301-310, `attestation.py:55-64`) | `ReadBack`, `Recover`, `ReadBackInvalid` |
| `after = read_all()`, children (294-299) | `Recheck`, `Competing` |
| any request failing without effect | `ServiceFails` |
| process death | `Crash`, which may leave a request under way too |
| `append_envelope` of other artifact kinds, which takes no lock | `AppendOther` |

Artifacts are content-addressed, so an artifact fixes its anchor: `anchorOf` is a constant
function. Seals, hashes and the trust of the attestor are not modelled here: with them
unforgeable they only ever reject. A row's position is its index in `rows`. `crossed` is
a history variable: calls of two processes were inside at once.

`CollectCommand` is the prospective branch of `main()` as its effects on files and rows:
`Launch`, the three outcomes of reading the checkpoint (`Recover`, `Mismatch`, `Begin`),
the initialization guard, the collection, the appends, the writes in the code's order, the
except clause (`Quarantine`, `EmitReport...`), the exceptions it does not catch
(`WriteFails`, `AttestorRaises`) and `Kill`. An append is one step that may fail before or
after the row is written, or be given up while it is under way: its row is then in `late`, and
`Land` may write it at any time. Each fresh collection seals a new artifact (its times differ);
the bootstrap snapshot carries no time and is the same artifact for everybody.

`PortfolioLedger` is `portfolio_collect`. The state of the replay is a record (`working`);
each record kind is an operator on it (`WithCash`, `WithPosition`, ...) and an action with
the guard of its branch. `Acceptable` is the validation after the loop, `Collect` attests
the result (`head`), `SupplyOther` is a next run that is given another suffix after the
attested prefix. A record that the loop rejects is not added: a ledger with such a record
is rejected as a whole. Decimals are integers, percentages and the division by the
midpoint are multiplied out, cost basis is left out (an input that is compared with
nothing else). `highest` is a history variable.

`RiskEngine` is `RiskEngine.check`: every rejection is a conjunct of `Approves`, limits are
in per cent as in `mandate.py`. It sees the marks of what the snapshot holds (`MarkHeld`), and 0
for anything else, where the ledger keeps the mark of a closed position. `MandateLoop` composes it with the ledger: `Decide`
(`decision-collect` on the latest snapshot), `Reserve` (a `pending_submission` record),
`Fill` (the cash, position, mark and `submission_resolved` records), `Settle`
(`portfolio-collect`), and `Move` and `Invest` for the market and the shares. Nothing in
`src/` writes ledger records; their writer is modelled as a careful external one, who
books a fill at the mark, records FX and a valuation before each snapshot, and changes
marks and shares only between trades. `CloseHeldOnly` says whether proposals close only
positions that exist, which the engine does not check.

`Prospective` is the time side of the three collection commands. A command reads the clock
again at every provider answer (`Collect`), at the assessment of all of them
(`SealResearch`, `SealDecision`, `SealFill`), and for the submission (`SealSubmission`);
`Tick` may come between any two, and `Attest` (`append_envelope`) later still. `Assessed`
is `assess` for what a clock can refuse: quotes and calendars. The other evidence families
are never too old for it, and are left out. `Stop` is every rejection and failure.
Artifacts contain the artifacts whose ids they name. Whether an order is acceptable is
left to `RiskEngine`, what an interrupted command leaves behind to `CollectCommand`.

`EvidenceLog` is what an evidence file promises: distinct packets, a log that only grows at
its end, answers only for what is in it, and a power cut that may take back a tail.

`EvidenceStore` is `append`, one action per place where another caller, a failure or a power
cut may come in between: `Acquire` (`flock`), `ReadFound`/`ReadAbsent` (the whole file is
read, the packet looked for), `Write` (the temporary file), `Sync` (`os.fsync`), `Replace`
(`os.replace`), `Return`; `Fails` for an `OSError` before the rename, `Kill` for the caller's
death, which closes its descriptors. `rows` is what a reader of the path sees, `disk` what a
power cut would leave there: `Commit` is the file system writing the rename at some later
time, which is never forced because the directory is not synced. Every caller opens the lock
file itself, so threads exclude each other as processes do. Packets are verified, so an id
stands for its content.

`PaperLedger` is `PaperLedger` and `reconcile` of `accounting.py` as operators on a sequence
of events; `Replay` is a fold of `ReplayEvent`, one turn of the code's loop, and a cost basis
is a fraction. `Lifecycle` is the three instructions of `lifecycle.py` and
`next_session_after`, as operators. `PaperAccount` composes them over the life of one option
on one share: fills at `conservative_fill`'s prices (`BuyShares`, `SellShares`, `WriteOption`,
`CloseOption`, `BookAgain`), the instructions (`Evaluate...`), an assignment whose legs are
appended one by one (`BeginAssignment`, `AppendLeg`), and a copy that comes back from a sink
(`ReadBack`). Nothing in `src/` calls these functions except its tests. Their caller is
modelled as an external one that does what it is told: it keeps written options secured
(`Secured`), may be interrupted between any two legs (`Interrupt`), and makes an assignment
that it finds half booked again (`Recover`), relying on `append`'s rule for repeated ids.
`append` has no guard, as in the code; only `book_fill` has. The quote-time guards of
`conservative_fill` are of the same kind as those of `Prospective` and are left out here, as
are currencies (one, at a fixed rate) and `validate_roll`.

Definitions marked "Faulty variant" take part in no specification. Each is a plausible
bug of the definition that follows it, and shows that a property notices it.

## Runs

| run | instance | shows |
|---|---|---|
| `PortfolioHead_calls` | 2 threads of 1 process and 1 of another, 3 snapshots of which 2 compete, 4 calls, 1 late request, 1 clock tick, 1 foreign row | locks come back, no fork without a disturbance and none without a retry, one row per continuation until then, anchors and envelopes exact throughout, the refinement of `CanonicalHead` |
| `PortfolioHead_fork` | 1 thread in each of 2 processes, 4 calls, no late request | **violated** `NoFork` |
| `CollectCommand_restarts` | 5 commands, 3 checkpoint paths with collisions, every fault, 2 of them | backing of files by rows, idempotence of completed commands, no collection lost but to a fault |
| `CollectCommand_rerun` | 2 commands with a checkpoint each, 1 kill | **violated** `RowRecovered` |
| `PortfolioLedger_replay` | 1 share, 1 put, ledgers of up to 8 records | recorded peak kept |
| `PortfolioLedger_peak` | the same, up to 6 records | **violated** `PeakIsHighest` |
| `Prospective_chain` | 2 researches, 1 decision, 1 fill, 2 snapshots, two days | evidence timely, chains in order, ancestors as decided on |
| `EvidenceStore_appends` | 3 callers, 2 packets, 5 calls, 2 faults, fair | no partial row, each packet once, one caller told so, the refinement of `EvidenceLog`, calls end |
| `PaperAccount_life` | 1 share, 1 option (put or call) on it, 3 opening fills, 6 instants, 5 calendars, 1 interruption | solvency between assignments, assignments settle once, cost basis bounded, right mornings, reconciled copies replay alike |
| `MandateLoop_serial` | 1 share, 2 calls on it, 1 put, 4 trades, two prices | approved trades import, limits hold, no attested high is forgotten when a valuation precedes each snapshot |
| `MandateLoop_cash` | puts on a fund, two trades | **violated** `NoNakedShort` |
| `MandateLoop_rate` | one put, a rate of 2 | **violated** `CollateralConverted` |

Bounds. Two threads of one process contend for a lock, and a caller of another process is the one
that no lock holds back; the first two are alike, and TLC treats them so (`Alike`). A bootstrap
and two continuations of it are the fewest with a fork, four calls leave one retry beside
them, one late request is the one that matters; one tick separates "earlier" from "later".
Two faults
let a re-run be interrupted again. Eight ledger records are the fewest with which cash,
shares, a put, its marks, FX and a valuation meet (cash below the put's strike, NAV above
it). Four trades reach both call limits, a put and a close. Days of five ticks have two
windows of two ticks and a night; the second day reaches its decision window, so that a
decision may rest on research of the day before. Three callers of the evidence store put two
behind the lock at once, and five calls of two packets give every packet a retry after a
fault. Three fills buy shares, write two contracts and sell some of the shares; two
contracts make a partial assignment and the rest of it; the instants are the first day, the
expiry's morning, its last hour before the close, the close and the hour after it, and the
morning after the holiday; the five calendars are good, late, unverified, observed too late
and ending too early. All bounds are CONSTANTS in guards: `MaxClock`, `MaxLate`, `MaxOther`,
`MaxFaults`, `MaxCollects`, `MaxLength`, `MaxQuantity`, `MaxTime`, `MaxTrades`,
`MaxOutstanding`, `MaxAttested`, `MaxCalls`, `MaxFills`, `MaxInterrupts`. Deadlock checking is
off: the models stop when their bounds are used up.

Fairness. Only `EvidenceStore` is given any: weak fairness of each caller's next step. Inside a
call a caller waits for nothing but the lock and the file system, the calls are finitely many,
and a caller that dies closes the descriptor that holds the lock.

## Findings

The violation runs are disagreements between the code and what its documents say of it;
`PROJECT.json` quotes the lines.

1. `PortfolioHead_fork`, `sheets.py:290`: the shortcut for a recovering call skips the
   recheck, so two processes can both attest a continuation of one anchor.
2. `PortfolioLedger_peak`, `workflow.py:275`: the peak NAV of a snapshot is forgotten by
   the next one.
3. `MandateLoop_cash`, `risk.py:105`: free cash ignores the puts already short.
4. `MandateLoop_rate`, `operations.py:144`: the engine multiplies by the rate that the
   ledger divides by.
5. `CollectCommand_rerun`, `cli.py:142`: a command that is killed between its append and its
   checkpoint is not recovered. Its re-run collects afresh, seals an artifact with other times and
   hence another id, and appends a second row, where `src/README.md:226` has it read back the first.

Two more disagreements have no run of their own. The comment at `cli.py:230` says that a failed
stage never leaves a partial decision or submission behind, but an `OSError` of the second write
is not in the except clause of `cli.py:223` and leaves the decision alone until the command is run
again (`WriteFails` at stage "emit"). And `sheets.py:232` calls `re.fullmatch` while `sheets.py`
does not import `re`: every production command dies of a `NameError` after its row is appended
(`AttestorRaises`), so that each re-run appends another row without any fault, against the same
lines of `src/README.md` as finding 5.

The passing runs hold within limits that their constants name. What lies beyond them is
part of what they say, and is reached by changing a constant:

* `PortfolioHead_fork` with one process and `MaxLate = 1`: `NoFork` fails there as well. A call times
  out, its sibling is appended and attested, the request lands behind it, and the retry of the first
  call finds its row last and skips the recheck (`sheets.py:290`). Hence `Undisturbed` in what
  `PortfolioHead_calls` checks, and the hypothesis of `ForkNeedsRetry`.
* `CollectCommand_restarts` without `c \notin Production` in `Recoverable`: `LossNeedsFault` fails, by
  the `NameError` above. Commands without a checkpoint are exempt because nothing of theirs is kept.
* `PaperAccount_life` with `Secured = FALSE`: `SettledSolvent` fails, because `append` lets
  an assignment take cash and shares that are not there (`accounting.py:50`,
  `lifecycle.py:58`); `BasisBounded` fails for the same reason.
* `PaperAccount_life` with `Altered = TRUE`: `CleanReconcile` fails, because `reconcile`
  keeps the last of two versions of an event and `replay` the first (`accounting.py:75-77`,
  `109-110`): such a copy has no difference and another balance.
* `MandateLoop_serial` with `MaxOutstanding = 2`, `MaxTrades = 3` and
  `Order <- OpenTwoCalls`: `ApprovedImportable` and `CoverWithinFraction` fail, because two
  decisions on one snapshot use the same shares (`workflow.py:304`) and the ledger compares each
  call contract with the shares on its own (`workflow.py:254`).
* `MandateLoop_serial` with `Order <- ExitByCalls` and `Purchase = {8}`:
  `ApprovedImportable` fails, because a whole-holding exit (`risk.py:81`) exceeds the cover
  limit of the ledger (`workflow.py:273`).
* `MandateLoop_serial` with orders that sell shares, or with `Purchase = {8, -4}`:
  `CoverWithinFraction` fails, because neither a sale of shares (`risk.py:54-106`) nor the ledger
  asks for the calls that were written on them beyond one contract's limit.
* `MandateLoop_serial` with option sales of intent "assign": `ApprovedImportable` fails, because
  such a sale opens a short that the engine neither limits nor secures (`risk.py:72`).
* `MandateLoop_cash` with `CloseHeldOnly = FALSE`, `Order <- SellToClose`,
  `Instrument = {acme, lowCall}` and three trades: `NoNakedShort` fails, because a "close"
  that closes nothing is not asked for security (`risk.py:72`).

Some behaviours are the code's and claimed by no property, because no document says what
should be:

* a bootstrap that is interrupted after its append is refused by the guard of `cli.py:128` ever
  after; its row is in the ledger and its envelope nowhere;
* a decision may rest on research of an earlier day (`operations.py:133`), on an attested
  snapshot that is not the latest (`workflow.py:307`), and on FX of any age
  (`operations.py:122`); the ledger's FX is as fresh as its last valuation record, which may
  be older than the marks and fills after it (`workflow.py:260`);
* a position that is closed and opened again finds its old mark in the ledger (`workflow.py:245`),
  while the engine takes it to be worth nothing until it is held (`risk.py:89`);
* one submission may be filled twice, at two prices (`workflow.py:329`);
* an option that expires out of the money stays in the accounting ledger for ever
  (`lifecycle.py:55`), and one in the money is assigned at once when it is evaluated before
  the final hour (`lifecycle.py:52`);
* a power cut may take back an evidence packet that was answered for, since the directory is
  not synced (`market_data.py:201-204`).

## Proofs

Eight modules hold theorems. All are for every value of the constants that the named
assumptions admit. No bound is used, except where the last column names one as a hypothesis.

| module | theorems | beyond the assumptions of the modules |
|---|---|---|
| `PortfolioHead_proofs` | `TypeCorrect`, `EnvelopesExact`, `AnchorsPrecede`, `LocksAreReturned`, `ContinuationsUnique`, `ForkFree`, `ForkFreeUnretried`, `ForksAreRecoveries`, `ImplementsHead` | |
| | `ThreadsDoNotCross` | `SharedLock`: all callers are threads of one process |
| `EvidenceStore_proofs` | `StoreTypeCorrect`, `RowsWhole`, `PacketsDistinct`, `AcceptedOnce`, `ImplementsLog` | |
| `CollectCommand_proofs` | `CollectTypeCorrect`, `OutputsAreBacked`, `CheckpointsAreBacked` | |
| | `OutputsAreOfCheckpoint`, `CompletedWorkStays`, `LossesAreFaults` | `OneRunner` |
| `Prospective_proofs` | `ChainTypeCorrect`, `EvidenceIsTimely`, `ChainsClosed`, `ChainsInOrder` | |
| `PortfolioLedger_proofs` | `LedgerTypeCorrect`, `RecordedPeakIsKept` | |
| `MandateLoop_proofs` | `LoopTypeCorrect`, `NewRiskStops`, `ValuedPeakIsHighest` | |
| | `CoverStays`, `ApprovedTradesImport` | `SerialTrading`, `ExactReservations` |
| | `OptionFundImports`, `OptionFundSecured` | these and `OptionsOnly` |
| `PaperAccount_proofs` | `AccountTypeCorrect`, `MorningsAreNext`, `AssignmentsAreSettled`, `ReconciledReplayAlike` | `CalendarAssumption`: verified evidence is true of the days it covers |
| | `SecuredStaysSolvent`, `BasisStaysBounded` | `Secured`, cash to begin with, a premium that is at most the price of a share |
| | `CleanCopies` | `~Altered`: the sink alters no event |
| `FiniteSums` | lemmas only: sums over finite sets, least members, induction on sequences | |

`MarkerAssumption`, `SnapshotAssumption` and their like say that a marker such as `Torn` or
`NoSnapshot` is none of the values it stands beside.

**The head.** The argument has three layers. `LedgerInv` holds of any callers and any late rows: rows
are only appended, a located call points at a row of its own artifact and time, an envelope's row is
exact, and an anchor is in the tab, no younger, before a call that continues it is made, hence
before the row of that call lands, however late. `SharedInv` adds the locks: a lock is held by whoever
is inside (`LockHeldInside`), so until two processes cross there is one call inside (`Alone`), and what
a call continues is attested. `Chained` is what both are for: until the tab is disturbed each portfolio
row continues the one before it, and a call that has compared the head and not yet posted still sees
its anchor as the head. None of the properties is inductive alone: that a `Post` adds no second child
follows only from the comparison, which holds at the time of the post only because nobody else could
append a portfolio row in between, which is what `Undisturbed` says and what the locks give.

A disturbance is a row that lands after its caller gave up, or calls of two processes that are inside
at once. `ThreadsDoNotCross` says that threads of one process never are, so a single process is
disturbed by late rows alone. In the refinement an undisturbed `Post` is `Advance`; `Land`, and a `Post`
of a disturbed tab, are `Intrude`, since even they only continue what is attested; `Recheck` and
`Recover` are `Publish`; everything else is `Disturb` or stutters.

Once the tab is disturbed, rows do fork, and the recheck after the append is all there is.
`ForksAreRecoveries` says how far it carries: whoever publishes after a `Recheck` has seen that
no other continuation of his anchor is in the tab, and rows do not go away, so an attested
sibling would have been seen. The step that forks the attested chain is always a `Recover`,
which does not look. A call recovers only when its row is there before it posts, that is when
the snapshot was handed in before: `OneTry` makes that `ForkFreeUnretried`. `PortfolioHead_fork`
shows that one retry is enough to fork.

**The evidence store.** `StoreInv` says that who is past the lock has it, that the file a
caller is about to put in place is the present file and its packet, that no file is ever
renamed unsynced, and that the disk has a beginning of what readers see. A `Replace` is then
`Add`, an answer is `Acknowledge`, and a `PowerCut` is `Lose`.

**The commands.** `CollectInv` follows an artifact through a run: what a run holds is its
own, what it holds after its appends is in the ledger, and a checkpoint holds the artifacts
of one command line. It is proved for any number of runners at once, although the run has
one: two invocations of one command may both append, but neither shows what is not there.

What the files say of each other is proved of one runner (`OneRunner`): two that both find no
checkpoint would both collect and save, and an output may then show what the later save replaced.
`SoloInv` adds to `CollectInv` what the files say while a run is in a stage: whoever collects and
appends has no checkpoint, whoever is about to show his work holds what his checkpoint holds, and
the first output of a decision agrees with the artifact that goes into the second. That a
checkpoint, once written, is never written again (`SavedOnce`) keeps this through recoveries.

`LossInv` counts the collections of which a row is in the ledger or under way and that no checkpoint
keeps and no run is still working for. This is more than `Lost`, and is what can be counted step by
step: a run lets go of its artifacts by a fault, which it pays for with one collection (`OneCollection`:
both its artifacts are of the same one), or at its end, when its checkpoint has them (`RowLoss`); what
a late row lands was counted when it was given up.

**The stages.** The invariant (`ChainInv` of `Prospective_proofs`) says of each attested
artifact what was true when it was sealed, in terms that time cannot take away, of the
running command that its packets were received by now, and of what it has sealed that it is
already sound. The chronology of whole chains follows by unfolding ancestors.

**The ledger.** `LedgerInv` adds to the types that the replayed peak is never below the
attested replay's, nor below the starting cash. The worth of a portfolio and the collateral
of its puts are sums over the instruments, for which `FiniteSums` shows that they are integers.

**The loop.** That a fund in drawdown opens nothing is not a matter of the engine alone: the
peak it is shown must be no less than any attested NAV. That fails of the ledger in general
(`PortfolioLedger_peak`) and holds of the loop, whose writer records a valuation before each
snapshot; `LoopInv` is that fact, and with `ValuedPeakIsHighest` the refuted `PeakIsHighest` holds
of such a writer.

The limits are checked twice in the code, by two pieces of it on two states: by the engine on the
last snapshot before the trade, by the ledger on the book after it. Neither check is inductive.
`PlanInv` is about a third state, `Planned`: the book as if every submission that is not filled
had its reservation recorded. Its calls stay within half the shares and its puts within 40% of the
NAV. `Decide` adds to the plan what the engine has just counted; `Reserve` leaves it as it is;
`Fill` moves a reservation into the positions at the mark, which does not raise the sum nor change
the NAV; `Settle` attests it. What the engine counts is good for the plan because nothing is
outstanding when it decides, and the head then reflects all that was decided before (`Reflected`).
The NAV moves in `Move` alone, which attests what it leaves, so that the ledger's own check renews
the limit.

`SerialTrading` is what this takes for granted, and each of its parts is needed, as the limits
listed under "Findings" show: one outstanding submission, closing orders for what is held, no exit
of a whole holding, no assignment by order, no sale of shares. `ExactReservations` says that the
dollars an order reserves are a whole number of the model's pounds: the amount that a record
reserves is its writer's, an integer in the model and a Decimal of 28 digits in the code. With both, all calls on the same shares stay within the fraction
(`CoverStays`), and the only thing that `portfolio-collect` may miss is cash
(`ApprovedTradesImport`): the engine compares each put with the free cash on its own, which is the
third finding. In a fund that trades options only (`OptionsOnly`) the NAV is at most the cash, as
everything held is short: the limit of 40% of the NAV is then one of the cash, all approved trades
import (`OptionFundImports`) and no short is naked (`OptionFundSecured`, the property that
`MandateLoop_cash` refutes of a fund that buys shares).

**The account.** The days a calendar covers lie before those it does not, so the first
covered session after the expiry is the first of all; `AccountInv` carries it to the last
instruction.

A replay is a fold over a sequence, in which an event whose id was seen does nothing.
`BalancesAreSums` says what it computes: cash and quantities are sums over the *set* of events, if
no two share an id. Two ledgers with the same events therefore replay alike in any order and with
any repetition (`ReconciledReplayAlike`, of which `CleanCopies` is the instance the run checks).
The same sums carry `LedgerInv`: at most one assignment is half booked, its first legs are in the
ledger and the rest are still to come, and without what these legs have moved ahead the balances
are settled (`SettledBut`) and enough for what is written (`SecuredBut`). That an assignment
settles needs nothing of the caller. That cash and shares are there does: he keeps what secures
his options, and pays for buying a put back no more than was kept for it, hence the hypothesis on
the premium. `BasisInv` follows the cost basis, a fraction, event by event; the replayed quantity
of shares never crosses zero for such a caller, and partial sales take from the basis in
proportion.

Induction is by well-founded strict inclusion of finite sets (`FiniteSums`), in forms that are
stated of sets and not of predicates.

Model-checked only: `AppendsEnd`, which is liveness under fairness and out of the prover's
reach, and the five violations. Every invariant and action property of a passing run is a theorem, those
named beside a hypothesis in the table under that hypothesis. `ApprovedImportable` of a fund that
holds shares is a theorem only for as long as its cash secures its puts; that in
`MandateLoop_serial` it always does is a fact of that instance. `NoFork` of a disturbed tab with
retries, and what the files of two runners say of each other, are not claimed: the first is
refuted, the second not checked.

## Not modelled

* Seals and hashes (`canonical_json`, content ids) and the trust in receipts
  (`attestation.py:67-213`): with them unforgeable they only ever reject.
* `correction` and `reconcile` of the boundary: nothing in `src/` calls them, and what a
  caller would do around a correction, which takes no lock and does not read the head, is
  not known.
* The file-driven commands, `inspect`, `replay` and the preflights, which write one report.
* The clients of `broker.py` and `providers.py`: request building, allowlists and parsing.
  The one loop, the traversal of option-chain pages, keeps its state in locals and ends when
  a token comes again; there is no bound on tokens that are always new.
* `http.py` but for its timeout, and the service-account token (one request each), `config.py` and
  redaction.
* `validate_roll`: a conjunction over its arguments, without state.
* Deciding on a snapshot older than the latest attested one is left out of `MandateLoop`.

## Plan

What could follow: two runners of one command in a run of `CollectCommand` (`Runner` allows it,
the backing theorems cover it), and what of `CompletedWorkIsKept` survives them; `correction` in
`PortfolioHead`, once something calls it; the weakest condition on several outstanding submissions
under which `PlanInv` holds, which is one on what they reserve together; and a fund of options and
shares whose purchases leave the cash that its puts need.
