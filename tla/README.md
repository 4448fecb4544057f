# skopli verification

TLA+ models of skopli, checked with TLC and, where it says so, proved with
TLAPS. skopli reads the usage logs that coding agents leave on disk, rolls the
token counts up, and prices them against catalogs it fetches and caches. The
models are translated from the source; the comment at the head of each module
names the functions it stands for, and `PROJECT.json` maps every definition to
its lines. Paths below are relative to the repository root.

To check one run: `tlc -config CodexSession_sessions.cfg MCCodexSession.tla`. To
check one proof module: `tlapm ReadProofs.tla`.

## 1. The system

| Component | State it keeps | Operations | What makes it hard | What makes it correct |
|---|---|---|---|---|
| **TypeScript catalog loader** `src/pricing/index.ts` | two memoized promises (catalogs, native engine), completion stamp, one-shot refresh flag | every query goes through `loadCatalogs` and `buildEngine` | callers, expiries and rejections interleave at every `await`; `.catch` handlers of old attempts run late | one load at a time; refresh spent once per source; fresh answers; no rejection replayed; every query settles |
| **On-disk price cache** `src/pricing/{cache,sources}.ts`, `crates/skopli-core/src/pricing/sources.rs`, its SDK twins | one JSON file per source | `cachedSource.load` / `load_one`: read, fetch, write temporary file, rename | several processes share the file without a lock; crashes, timeouts, full disks, torn files | a usable file stays usable; fresh means recent; offline, refresh and fallback contract |
| **SDK pricing object** `sdks/{go,java,csharp,swift}`, Python, Ruby | a native handle, its stamp, closed flag, refresh flag, one lock | query, reload, close | ownership of C memory under concurrency; partial failure of a reload; wall clock set back | no use after free, double free or leak; close is terminal; a failed reload is retried |
| **Codex reader** `crates/skopli-core/src/readers/codex.rs` | per file: model, last totals, turn flag, replay keys; over files: keys seen | `read_codex`, `read_session_file` | cumulative totals that repeat or restart; forks that replay another file; unreadable files, lines that do not parse | each call counted once, never over; turns real; no loss without a report |
| **Readers of transcripts** `readers/{claude,codebuddy,qwen,gemini,pi,openclaw,commandcode,opencodereview,junie,kimi,amp,codebuff,augment,trae,cherrystudio}.rs` | ids, fingerprints or slots seen over all files; the prompt not yet answered | one `read_*` each, over its files and their lines | usage is streamed in several lines, replayed, copied to other roots and resumed sessions, rotated; lines without id, date or JSON | a call that can be told from others is counted once, in its final usage; none is lost in silence; a prompt starts one turn |
| **Readers of SQLite stores and totals** `readers/{sqlite_store,kilo,kiro,goose,zed,mux,droid,fx}.rs` | sessions seen; the last running total | `read_*` over rows, snapshots or sidecars | a total replaces, restarts or is copied; several stores have one session | the same |
| **Readers of two stores** `readers/{opencode,zcode,cline,vscode_ext,roo,kilocode,devin,copilot,deepseek,grok,reasonix,hermes,jcode}.rs` | ids seen, sessions covered by the first store, pending turn | `read_opencode`, `read_zcode`, `read_cline`, `read_devin`, `CopilotReader::read`, `read_deepseek`, `read_grok`, `read_reasonix`, `read_hermes`, `read_jcode` | the harness writes, migrates and renames while both stores are read one after the other; queries fail one by one; totals stand in for usage; records without usage yet | no call counted from both stores; nothing lost in silence; one turn a prompt |
| **Token conventions** (in the readers of Codex, ZCode, Grok, Reasonix, Cline, jcode, Gemini, goose, Kimi, OpenClaw) | none | `map_usage` and the like | cached tokens and reasoning are inside or beside other counts; some conventions are told only by a total | buckets are disjoint and sum to what was spent |
| **Read pipeline** `crates/skopli-wire/src/read.rs`, `src/read.ts` | none between reads | resolve date bounds in a zone, filter events | midnights that do not exist or occur twice; two implementations | day filters agree with day rollups; twins agree; days follow one another |
| **Rollups** `crates/skopli-core/src/rollup.rs`, `src/rollup.ts` | the open block | keyed rollups, billing blocks | zone transitions, widths at the edges of `i64`, events without a timestamp | each event in one row, in its window; keys ascend; sums clamp and saturate |
| **Event pricing** `crates/skopli-core/src/pricing/mod.rs` | none | `lookup_model`, `price_rollups`, `price_events` | grouping and rows keyed by two functions; modes, recorded costs and tiers combine | a row is priced by its events; the two ways to price agree or say they do not; priorities hold |
| **Catalog matching** `pricing/match_model.rs`, `src/pricing/match.ts` | none | candidate keys, match | order of confidence; placeholders of price zero | the most confident key wins |
| **Cost, parsers, time, paths** | none | arithmetic, decoding | floating point, formats | (unit tests) |
| **Detection, wire, C ABI, bindings, diagnostics** | none of their own | marshalling | foreign memory | (modelled from the callers in the SDK pricing object) |

How they interact: a facade (TypeScript, or an SDK over the C ABI) owns the
in-memory catalogs. Its loader asks each source in turn; a source answers from
its cache file or the network. The catalogs, in priority order, build a native
`Pricing`, whose `lookup_model` serves `price_rollups` and `price_events`. On
the other side the readers turn log files into events, the read pipeline
filters them by date, and the rollups group them; `price_events` runs the
rollup itself and joins its rows with groups it prices event by event. Shared
state is the cache file (between processes), the memo or the handle (between
callers), and nothing else.

## 2. The modules

| Module | Models | Extends / uses |
|---|---|---|
| `CatalogMemo` | the abstract promise of every in-memory catalog memo | |
| `PricingLoader`, `PricingLoaderProofs` | the TypeScript loader, one job of the event loop per step | implements `CatalogMemo` |
| `PricingHandle`, `PricingHandleProofs` | the SDK object over the C ABI | implements `CatalogMemo` |
| `CatalogCache`, `CatalogProofs` | one cache file and the loads of several processes | |
| `BlockRollup` (`MCBlockRollup`), `RollupProofs` | `block_rollup` | |
| `PriceEvents` (`MCPriceEvents`), `RollupProofs` | rollup, `price_events` and `price_rollups` | extends `BlockRollup` |
| `CatalogLookup` (`MCCatalogLookup`), `CatalogProofs` | `lookup_model` with `match_model` | |
| `CodexSession` (`MCCodexSession`), `CodexSessionProofs` | the Codex reader, and Codex writing its files | |
| `Scripts` | what a harness writes about: sessions of prompts and calls | |
| `TranscriptReaders` | what the readers of transcripts and totals make of one file, as operators | |
| `Transcripts` (`MCTranscripts`), `TranscriptsProofs` | a reading of all files while the harness goes on | extends `Scripts`, `TranscriptReaders` |
| `TranscriptsInvariants` | nothing further: the inductive invariants of `Transcripts`, and the operators they are stated with | extends `Transcripts`, used by `TranscriptsProofs` |
| `StoreLanes` | what the readers of two stores make of each store, as operators | extends `Scripts` |
| `MirroredStores` (`MCMirroredStores`), `MirroredStoresProofs` | a reading of both stores while the harness changes them | extends `StoreLanes` |
| `TokenBuckets`, `ReadProofs` | how logged counts become disjoint buckets | |
| `DayBounds` (`MCDayBounds`), `ReadProofs` | date bounds and the filter loop, Rust and TypeScript | |

An operator introduced by `Mutation:` in a comment is a wrong variant of the
operator it precedes. It is in no specification: substituting it shows that
the property named in `PROJECT.json` really depends on that piece of code.

### CatalogMemo

`phase` says whether there are catalogs, `readyAt` since when, `owed` which
sources still owe the refresh that was asked for. `Begin` starts a load from
nothing or from expiry, `Refetched` pays one source, `Complete` requires all to
be paid, `Fail` forgets. Both implementations are shown to refine it, by
`INSTANCE CatalogMemo WITH` a mapping of their own variables.

### PricingLoader

JavaScript runs to completion, so a step is one job: the synchronous part of a
call (`Call`, which is `loadCatalogs` and `buildEngine` up to their first
`await`), the continuation after a source (`SourceLoaded`, `SourceRejected`),
after the engine's await (`EngineBuilt`, `EngineRejected`), the two `.catch`
handlers (`LoadCaught`, `EngineCaught`), and the callers' own continuations. A
promise is the index of its attempt. An attempt that is rejected is seen by
its awaiters only once its `.catch` handler ran, because that was registered
first.

Fairness: jobs of the event loop that are ready run, and a source settles
(`LoadStep`, `EngineStep`, `QueryStep` weakly fair). The second is what the
code arranges: the default fetch aborts after `FETCH_TIMEOUT_MS` (10 s), cache
reads and writes are local. Nothing forces callers to call or time to pass.

### CatalogCache

A load's steps are the points where another process, the network or a crash
can come between: `Start` (reading the file), the response, the write of the
temporary file, the rename, the answer. `LifecycleContract` says what each load
answers, given its mode, the cache it read, what its fetch brought and whether
it could be stored. Rust stamps a payload with the clock
read once before all its sources (`StampsAtStart`), and answers although the
write failed (`ToleratesStore`); TypeScript and the SDKs read it per source and
reject. A payload is reduced to when the server produced it and whether it
parses to a price.

### PricingHandle

One lock is held from the freshness check to the end of the native call. `heap`
records every native handle ever built as live, freed or freed twice, so memory
errors are states. `KeepsStamp` chooses between the two ways the SDKs write a
failed reload: Go and C# clear the stamp when the reload begins, Java and Swift
keep it, being expired already. `ClockSteps` lets the wall clock go back.

### BlockRollup and PriceEvents

One step is one iteration of the loop over the events in the order of their
instants; ties are taken in any order. A zone is the offset at each instant, so
transitions of any size are instances. `PriceEvents` runs the same rollup (or a
keyed one in one step), prices events one at a time into groups (`PriceEvent`),
joins groups and rows (`Decide`), and prices the rows a second time from their
sums (`PriceRollups`). Tokens are cache writes, of which some live an hour and
cost double; a tiered price doubles past a threshold (the whole-request tiers
of `cost_usd`; the marginal ones differ in the amount only).

### CatalogLookup

One step is one iteration over the catalogs. A catalog gives each key a kind of
price: zero, flat or tiered. The candidates of the model are a constant
sequence: deriving them from the model's name is not modelled yet.

### CodexSession

The `Session...` actions are Codex, outside the repository: contexts, user
messages, calls, repeated totals, forks that copy any prefix of an earlier
file. The reader then opens the files in any order, each of which may be
unreadable, and takes one line a step: context, user input, usage, a line that
does not parse, end of file. `ReadMalformed` may take any line: `read_jsonl_lines`
reports it and goes on, and what it said is missing from then on. `history`
variables say which call each usage line reports, which is what the properties
compare the events with. A malformed usage line falsifies the plain promises:
totals alone then add up two calls in one event (`codex.rs:250-253`), and an input whose call is
missing waits for the next (`codex.rs:214-216, 274`). The properties say exactly
how far: `NeverOvercounted` bounds an event by what the session `spent` since any
usage line that was read before, `TurnsAreReal` allows the input of the calls
whose lines, directly before, are missing (`Since`), `CallsCountedOnce` a repeat of
totals whose own line is missing (`OfRepeat`), and `NoSilentLoss` excepts a call
whose line or whose predecessor is malformed (`Garbled`), which is reported.
TLC finds each of these exceptions necessary.

### StoreLanes and MirroredStores

A session is a sequence of prompts and calls; a store gives each a cell: absent,
usage still zero, good, unusable, (Copilot's OTel) without a session, (Devin's
database) without a model, or (Grok's updates) a running total without usage,
which may have fallen.
`StoreLanes` has an operator for the code that reads one store of one harness,
from the cells to events, reports and covered sessions. `MirroredStores` picks
one harness and composes its two operators as `read_*` does, with a step for
every query and store: `ReadAhead` (the first of two queries of one database),
`ReadDb`, `ReadMirror`, and for each a step in which it fails: `MissAhead`,
`MissDb`, `MissMirror`. ZCode, Devin and DeepSeek report a database that cannot
be read. OpenCode reports it only if both its queries fail, and Hermes never
reports a query, only a database that does not open (which is the same as no
database here); what went so is `dropped`. Between them the harness, which is external, may write
either store, finish a call, copy a record to the other store, migrate a session
from files to database, move rows between OpenCode's tables or rename a Devin
session. `db` is the store read first and trusted: a database, a ledger, the
extension's store, but DeepSeek's logs before its database, and jcode's journal
before its snapshot. Grok's session updates are the one mirror that does not just hold usage. A line
may tell the usage of the turn so far, or only the running total of the session,
which is lower than before where the context was compacted (`Fallen`). A turn that
closes without usage is taken for what the total rose by (`FallbackEvents`); a fall
closes it (`SameTurn`); and what `signals.json` counts beyond all that is one more event
(`SignalsEvents`), an amount, which is of the calls that no other event has only if
the amounts agree (`full`). A call is a unit of tokens here. What is assumed of
the harness: entries of a session are written in order; a
version that writes the database has migrated the session; a migration keeps
the mirror's records and, in OpenCode, the database has a call's usage before
the mirror does.

### Scripts, TranscriptReaders and Transcripts

A file (a table, a thread) is a sequence of lines. A line is a record: what
`kind` it is, the `calls` whose usage it holds (one, or all that a running
total includes), its `cell` (good, zero, none, bad, torn), whether the usage is
the call's final one (`full`), and whether the line bears an id (`named`) and a
date (`dated`). A record of Junie's, with a row for each model, is several lines
that know their place in it (`row`). `TranscriptReaders` has one operator per harness for the code
that reads one file, from the events so far to those after it and the calls
that are reported: what is a row, what key identifies it, whether the first,
the last or the largest of equal keys counts, what starts a turn. `Transcripts`
picks a harness in `Init`; `Begin` lists the files, `Read` reads the next of
them, `Unreadable` reports it instead or, in seven readers (`PassesOver`), passes it
over without a word (`passed`), `Select` is Copilot's choice among all
the records it collected. The harness (external) logs an entry (`Log`), logs
the final usage after a streamed one (`Finish`), replays a line (`Replay`),
keeps a second ledger (`Ledger`) or more telemetry (`Telemetry`), and copies or
rotates a file (`Copy`), each only for the harnesses whose reader, or a comment
in it, provides for that: `Streams`, `Copies`, `Rotates`, `Replays`,
`MayLackId`, `MayLackDate`, `OddCells`. Some order is the harness's own: a
session's entries come in their order; a running total goes on from the last one
or begins anew; a message of Codebuff's without all of its usage is given that of
earlier entries of its run state (`codebuff.rs:175-245`), so that its line may hold the usage
of any of the calls before (`CodebuffUsages`, `Borrows`); a total of Mux is of one
model of a session, and a session of the model has one; DeepSeek copies its newest generation and Droid the file it wrote
last; OpenClaw's archives are listed after the file they were. What a reader identifies a call by is
`KnownBy`; where a line lacks it, the code cannot tell a copy from a new call,
and the properties do not ask it to.

### TokenBuckets

`Spent` is what a call really spent. An operator `...Log` (external) is a
harness's convention of logging it, and an operator named for the reader makes
buckets of the log again. There is no state, hence no run: the theorems of
section 4 say that the buckets are the ones due (`Due`) whatever was spent.

### DayBounds

A zone has one transition, of at most a day. `ZonedMidnightRust` is jiff's
`Compatible` rule (external), `ZonedMidnightTs` the sampling of three offsets.
The filter loop then takes the events one at a time. `DayKey` is the rollup's.

## 3. Properties and runs

| Run | Instance | Shows |
|---|---|---|
| `loader_queries` | 2 callers, 2 sources, 3 loads, 4 engines, clock to 3, TTL 1 | `SingleFlight`, `RefreshExactlyOnce`, `FreshAnswer`, `NoReplayedRejection`, `ImplementsMemo`; `QueriesSettle` under the fairness above |
| `cache_safety` | a Rust and a Node process, clock to 3 | `FreshIsRecent`, `LifecycleContract`, `UsableFileKept` |
| `handle_queries` | 2 threads, 2 sources, 4 handles, stamp kept, clock to 8, TTL 2 | `MemorySafe`, `NoLeak`, `RefreshExactlyOnce`, `FailureNotMemoized`, `FreshUse`, `ClosedForGood`, `ImplementsMemo`, `LockReleased` |
| `rollup_windows` | 3 events, 7 instants, 6 widths, 4 zones | `KeysAscend`, `EventInWindow`, `CountedOnce` |
| `price_rows` | 3 events, 3 models, 3 token records, all modes and dimensions | `RowPricedByItsEvents`, `TierExposureFlagged`, `RollupPricesAgreeUnlessPartlyRecorded` |
| `lookup_priorities` | all lists of up to 3 catalogs over 2 candidates | `HitIsBest`, `MissExplained` |
| `codex_sessions` | 2 files of 4 lines, the second a fork of any prefix, 2 counters, restarts, any reading order, up to 2 malformed lines anywhere | `CallsCountedOnce`, `NeverOvercounted`, `TurnsAreReal`, `NoSilentLoss` |
| `mirrored_stores` | 10 harnesses; a session of a prompt and two calls and one of a call, for Grok one of a prompt and a call, twice; one unusable record; any query may fail | `CountedOnce`, `NoSilentLoss`, `OneTurnAPrompt` |
| `transcripts` | 24 harnesses; 2 files; a session of two prompts, answered by two calls and by one; two odd lines, one for Claude, Kimi and Copilot | `CountedOnce`, `NoSilentLoss`, `FinalUsage`, `OneTurnAPrompt`, `FirstCallStarts` |
| `day_zones` | 12 zones, 3 days, 12 instants, all bounds | `DayFilterAgrees`, `TwinsAgree`, `DaysFollow` |

Types are proved (section 4) and checked as invariants only where nothing is
proved. The runs end with the program's own end (all lines read, all events
filtered, every bound reached), so they do not check for deadlock, except
`mirrored_stores` and `transcripts`, whose reader may always read again; that
nothing is stuck before its end is `QueriesSettle` and `LockReleased`.

Why the bounds are enough. *Loader*: three loads are the least that let an old
rejection arrive after a newer load replaced an expired one; a fourth engine
lets an engine of an expired load settle after a newer engine. *Cache*: two
loaders of different kinds suffice for every race on a file replaced in one
atomic step, since a third can only repeat what the second does to the file.
*Handle*: two threads, since the lock admits one and the other stands for all
who wait; the run takes the facades that keep the stamp and a clock that does
not step back, the proofs of section 4 cover the others, but for `FreshUse` and
the refinement, which need such a clock. *Rollups*: a third event can fall in, between and past two blocks.
*Lookup*: three catalogs are an override, a flat and a tiered one in any order;
and the proofs have no bound. *Codex*: a fork of a fork is a fork of the first
file with more lines; four lines hold a context and three usage lines, the
least in which totals step back and advance again, or a user message and two
calls around a fork; two malformed lines are a call's and its repeat's, or a
call's and the one before. *Stores*: two calls of a session are what lets one cover
the other and a turn be spent; OpenCode, whose rows are matched by id and not by
session, has one session, Devin one call in each of two, since titles relate
sessions, and prompts are left out where they are not read; Grok has one session of two turns, of a call each, whose totals go on from one
to the other, with a compaction or not; where its updates lack the second prompt
the two are one turn of two calls, the least in which usage is told after a total. *Transcripts*: two
files are a file and its copy, its rotation, the session resumed from it, the
same session in another root or generation; two calls of one prompt and one of
the next are the least in which a turn is spent, owed over a gap, and started
again. Amp, whose ledger doubles its lines, has the first three entries, Copilot
the two calls of one prompt (a trace), and readers that ignore prompts the calls
only. *Days*: units of
two hours keep the order of instants around a transition, which is all the
code compares; the proofs are for any day length and zone.

Bounds that only TLC has: `MaxLoads`, `MaxEngines`, `MaxTime`, `MaxHandles`,
`ClockLag` (age of the one clock reading of `load_with`), `MaxLines`,
`MaxWritten`, `MaxMalformed`, `MaxCatalogs`, `Given`, `Titles`, `MaxBad`, `MaxOdd`. `MaxInt` and `MaxCount` are the program's own,
`i64::MAX` and `u64::MAX`, scaled down.

### Where the code and its documentation disagree

Two runs end in a violation; each property is a sentence of the repository.

| Run | What the run shows |
|---|---|
| `price_recorded` | "For flat-rate models the result equals the sum of per-event prices": not in auto mode, when only some events of the row carry a recorded cost. |
| `transcripts_skipped` | "`skipped` maps each harness to the files or `file:line` positions that were unreadable or malformed" (`reading.mdx:214`): Cherry Studio's reader takes any error of its look for the table for there being none (`cherrystudio.rs:141`, `sqlite_store.rs:146-155`), which Kiro's guards against (`kiro.rs:409`), and Zed's takes a failing step for the end of the rows (`zed.rs:222`). |

More exceptions are conditions of a property or branches of a definition.
"Every bucket comes from an event" (`pricing/mod.rs:103-105`), but where
`by` is "block" the price groups are keyed by day and the rows by start instant,
so that every dated row is empty of pricing: `RowPricedByItsEvents` excepts
blocks. "A block never starts mid-hour" (`rollup.rs:10-12`) is no
property here: it holds where clocks move by whole hours, but in Lord Howe a
block opened after the half-hour transition can start at half past. "Date
filtering and day rollups agree on where a calendar day begins"
(`read.rs:12-14`) holds unless a transition carries the clock across midnight,
as St. John's did until 2011: `Straddled` in `DayFilterAgrees`. And `parse_bound`
"mirrors `toTime`" (`read.rs:60`) but for the empty string, which it takes for
no bound and `toTime` rejects: `Bound`, for the blank. `load_one`, a "Faithful
port of `cachedSource.load`" (`sources.rs:284-285`), answers although the cache
write failed, where the original rejects: `ToleratesStore`. In Java and Swift a
failed reload's stamp "is already expired" (`Pricing.java:253-256`) unless the
wall clock is set back, after which the old handle is served without a retry:
the run `handle_queries` keeps `ClockSteps` FALSE for these facades.

Of the readers of two stores: a query that fails is not in `skipped`, as
`reading.mdx:214` has it, but loses its rows with a warning where it is of
Hermes' models (`hermes.rs:252-259`), and without a word where it is of Hermes'
totals (`hermes.rs:299`) or one of OpenCode's two (`opencode.rs:561-570`):
`dropped`. A Devin file without a title, or read before its
rename reached the database, is taken for a session of its own, or, if another
session bears the title, for that one (`NamedRight`); when two sessions bear one
title neither is resolved (`devin.rs:283-293`), and their Desktop files count
again what the database counts, where `reading.mdx:218` promises that "the mirror
is not double-counted". ZCode calls of a turn that
start in the same millisecond all start the turn, where "only the
earliest-started row per `turn_id` starts a turn" (`zcode.rs:262`):
`OneTurnAPrompt` excepts them. Cline's readers pass over an unusable entry
without the warning that `reading.mdx:217` promises, so `Usable` leaves these
out of `recorded`; and OpenCode's emit a call whose usage is zero, which
`reading.mdx:216` says is dropped: `full` in an event tells them apart. A
session that the first store covers hides the calls that only its mirror has, by
design: `Superseded`; so does any file of Reasonix's ledger all of its sidecars,
a journal of jcode all of its session's snapshot, and a Hermes session with a
row per model its totals. jcode finds sessions by their snapshots alone:
`Unlisted`. A row of Devin's database with usage but no model is passed over
(`devin.rs:228-233`): `Unnamed`; what Grok's log and updates cannot use, too, and its running
totals promise nothing: `Usable`. And where Grok compacts its context in the
middle of a turn, the calls before are flushed as what the total rose by, and
usage told later in the turn has them again: `Compacted`.

Of the readers of transcripts: Claude's counts the line of a message that it
meets first, so usage that was streamed before it was final stays
(`FinalUsage` excepts it). fx's event after a total that it could not use adds
what turns before had used, and may start its turn with it; Qwen's reader puts a
session's files one after another in the order they are listed in
(`qwen.rs:83-99`), so that a prompt which ends one starts a turn with whatever
the next begins with, were that written before it: `OneTurnAPrompt` and
`FirstCallStarts` except such logs. Kiro's comments promise that a copied database
"never double-counts" (`kiro.rs:304-305`), which holds for turns with an id or a date:
`KnownBy`. Seven readers may pass over a whole file without a report (`PassesOver`): besides
Cherry Studio's and Zed's, those of Gemini (`gemini.rs:140-164`), Codebuff
(`codebuff.rs:312-315`), Augment (`augment.rs:130, 147`), Mux (`mux.rs:68-75`)
and Kiro (`kiro.rs:315-318`), for JSON of another shape than they know;
`NoSilentLoss` says that nothing else is lost so. A Codebuff message that takes
usage from its run state may count a call that its own message counts as well:
`Borrowed`. Some pass over lines they cannot use without a report (OpenClaw's,
Junie's, Kimi's, Codebuff's, Augment's, Mux's), although `skipped` is for what is
"unreadable or malformed" (`reading.mdx:214`); they are given no such cell, as
`OddCells` shows. And usage of zeros, "dropped" in `reading.mdx:216`, becomes an
event of zeros in Claude, Gemini, Pi, Command Code, Amp, Kilo and Droid. The
branches of `NoSilentLoss` name what else is lost: a session that an earlier
store had (`Hidden`), a total that restarted above its former value
(`Restarted`), a file rotated to a new name after the listing (`Moved`), a
message of Amp that takes the ledger entry of another that looks like it
(`Mistaken`), what breaks off of a compressed DeepSeek log, which is warned of
and not in `skipped` (`CutOff`), and a call of Copilot whose only record is of
a lesser kind than another of its trace (`Outranked`).

## 4. Proofs

TLAPS proves these for every value of the constants that satisfies the named
assumptions.

* **PricingHandleProofs** (from `HandleAssumption`), for any threads, sources
  and TTL: `TypeOK`, `MemorySafe`, `NoLeak`, `RefreshExactlyOnce` and
  `ClosedForGood`, with clocks that step back too; `FailureNotMemoized` for the
  facades that clear the stamp, and for all of them while the clock is not set
  back (`FailuresNotServedByClock`), since it fails otherwise; under the same
  condition `FreshUse` and the refinement of `CatalogMemo`. None of them is
  inductive. The invariant adds that a thread in the middle of an operation owns
  the lock (`LockInv`, `NextInv`), that the object's handle is the one live
  entry of the heap (`OwnerInv`), that a stamp is there only with a handle whose
  load succeeded (`StampInv`), and what a reload in progress may assume
  (`ProgressInv`). `RefreshInv` adds which sources a reload has asked already,
  `FreshInv` that a stamp is the time of the last load unless it has expired.
* **PricingLoaderProofs** (from `LoaderAssumption`): `TypeOK`, `SingleFlight`,
  `RefreshExactlyOnce`, `FreshAnswer`, `NoReplayedRejection`, and the refinement
  of `CatalogMemo`, for any callers, sources, loads and engines. The invariant
  says which attempts the two memos may hold while handlers are still to run
  (`MemoInv`), which sources an attempt has refreshed or owes (`RefreshInv`),
  which load an engine was built from (`EngineInv`), and what a query that waits
  may be told (`QueryInv`).
* **CatalogProofs**, of `CatalogCache` (from `CacheAssumption`): `TypeOK`, `FreshIsRecent`,
  `LifecycleContract`, `UsableFileKept`, for any number of processes of either
  kind. The invariant says that an entry's stamp is later than its prices by at
  most a fetch (`Honest`), that a load's clock is as old as the lag and its fetch
  as the timeout allow (`ClockInv`, `TimeInv`), what a load has got at each step
  (`GotInv`), and how it came there (`PathInv`): where the fetch worked it says
  what became of the store, so that a rejected load is one whose loader does not
  tolerate that.
* **CodexSessionProofs** (from `CodexAssumption`): `CallsCountedOnce`,
  `NeverOvercounted`, `TurnsAreReal`, `NoSilentLoss`, for any number of files of any length, any
  counters, any order of reading and any malformed lines, whatever Codex reports.
  First the files: a usage line is the first of its call or repeats the totals
  before it (`LineInv`), and of any two, not only neighbours, as lines between them
  may not be read: how far their totals can be apart, what was spent between
  them, and whose input the later answers (`FileInv`); no file knows a later one (`Dated`), and lines with one
  timestamp are copies, with one snapshot (`Copied`). Then the reader: its
  `previous` is what the last usage line that parsed said (`Recalls`), and an input
  waits only if no usage line that parsed came since (`Heard`, in `PlaceInv`), so an event is of the first line of its
  call or of a repeat after that was missing (`Reported`), and the key of that line is remembered (`PendingInv`,
  `EventsInv`): an event of the same call from another file would have it. What holds of an event
  does so when more lines turn out malformed (`GoodStays`).
  `NoSilentLoss` takes that further (`LossInv`): a call is accounted for if it
  has its exact event, or no reader could notice, or a warning was given; a call
  whose key is remembered, or of a file that was read, is accounted for
  (`Settled`); one of the open file that was passed will be at its end
  (`FileKept`). Its kernel is that a first line of a visible call reports
  exactly what the call used, whether the reader subtracts totals or not.
* **RollupProofs**, first `BlockRollup` (from `BlockAssumption`,
  `ZoneAssumption`): `TypeOK`,
  `KeysAscend`, `EventInWindow`, `CountedOnce`, `Write1hWithinWrites`, for any
  events, zones and widths. The invariant adds that what was read is not after
  what is pending (`SortedInv`), that the row without a date is last
  (`TrailingInv`), and that `end` is the end of the last block (`EndInv`). The
  arithmetic is in one lemma: a block starts at or before the event that opens
  it, by less than the width.
* **RollupProofs**, then `PriceEvents` (from the same and `PriceAssumption`), for
  any events, groups, prices and `MaxCount`: `RowPricedByItsEvents`,
  `TierExposureFlagged`, and `RollupPricesAgreeUnlessPartlyRecorded` as long as
  no row's cache writes exceed `MaxCount` (`WritesFit`). The condition is
  needed: the counts saturate, so a row at the limit has fewer writes than its
  events and its price is lower than theirs; TLC finds this with a `MaxCount`
  of 4. What a fold and a sum over a set are is not provable by induction here,
  so the lemmas take the least subset that does not satisfy them
  (`LeastSubset`): a fold has one value (`FoldUnique`), a sum adds over a split
  (`SumSplits`, `SumAdds`). Then the rows: a row holds the events of its key
  (`RowHolds`). The invariant `PInv` says that rows are priced in their order
  and each group as it is met (`RowsInv`, `GroupsInv`), that a price once
  decided is that of the events (`DecidedInv`), and what the rollup's own
  pricing makes of a row (`RollupPricedInv`).
* **ReadProofs**, of `DayBounds` (from `DayAssumption`, `ZoneAssumption`): `TwinsAgree`,
  `DaysFollow` and `DayFilterAgrees`, for every day length and every zone whose
  clock moves once, by at most a day. The argument: both implementations find
  the instant at which the day begins (`RustBegins`, `TsBegins`), the days'
  beginnings ascend (`BeginsAscend`), and the events from one on are those whose
  day is not earlier, unless it is straddled (`FromMidnightOn`). The invariant
  says that what was read is kept exactly if it is in the range (`Decided`).
* **MirroredStoresProofs** (from `StoresAssumption`): `CountedOnce`,
  `NoSilentLoss`, `OneTurnAPrompt`, for any sessions, any entries given to a
  harness and any number of records, unusable ones included, and for any queries
  that fail. What the readers
  of ten harnesses make of a store is brought into one form: an event for each
  of some rows, calls or sessions (`FirstForm`, `SecondForm`). Then each
  property has an invariant. `CountInv`: the calls of the first store's events
  are shielded from the second by whatever the reader carries over (ids,
  sessions, a ledger). Grok's totals are by themselves: between two lines of
  usage, two that stand in, or one of each, no call is in both unless a compaction
  lies between (`Compacted`), and signals have none of either. `LossInv`: what the harness does keeps a record once it
  is good or unusable (`Keeps`), so a call recorded at the beginning is still
  where the next query looks (`InStores`, `Ahead`, `Left`), or is reported or
  `dropped` with a query that failed; OpenCode's rows may
  move between two tables meanwhile, and here it matters that its first table is
  read first. `TurnInv`: of Grok's legacy
  events, one starts a turn only if it ends with the call it was told by
  (`LegacyTurn`); OpenCode's stores fill in order (`OrderInv`), so the
  ids seen in the database are all up to some call (`SeenInOrder`), and a call
  of the mirror that starts a turn comes after a prompt of its own.
* **TranscriptsProofs** (from `TranscriptsAssumption`): `CountedOnce`,
  `NoSilentLoss`, `FinalUsage`, `OneTurnAPrompt`, `FirstCallStarts`, for any sessions, any number
  of files and of odd lines, and all the harnesses. The invariants named here are
  defined in `TranscriptsInvariants`. What a harness does is put into two forms, a line added and a file moved (`Adds`,
  `Moves`), and `WorldInv` says what lines fit their file and when two lines of
  an entry are one line, in one place or one file. What a reader makes of a file
  is put into one form, an event for each of some rows in place of some others
  (`Forms`; one lemma per reader). `KeyedInv`: every event comes from a line
  (`FromLine`), and no two have a key in common; a call that is known has one
  key (`SameKey`). fx's events have no such key: its log is the session's only
  one, of two totals the later goes on from the earlier or is of later calls
  alone (`LogInv`, `Totals`), so the deltas have no call in common
  (`DeltasApart`, `FxInv`). Of Copilot's records those kept of one call are of
  one source, trace and span (`SameRecord`, `OtelInv`).
  `NoSilentLoss` follows from `BookedInv`: a call that a file had when it was
  listed is `Settled` once that file is read, and what the harness does or the
  reader reads later leaves it so. A reader books each line of the file, under
  the line's key or as skipped (`Booked`; one lemma per reader), or passes over all
  of it, which only an unreadable file allows, and what holds
  an event of that key counts the line's call (`KeyTells`), also where the event
  came from another file. That a file read has what it had when it was listed
  is `HeldInv`; OpenClaw's rotations move it only to where it is met later or
  leave the marks of a move (`MoveInv`). Where a reader passes over a file
  because of another, an invariant says what the other had: copies of Kiro and
  DeepSeek agree as far as both go (`AgreeInv`), and what an older log of
  DeepSeek has the newest has or breaks off before (`DeepInv`); a store of
  Goose, Zed or Mux that an event came from is before those still to be read
  (`BelowInv`); of Droid's files the one written last has all the calls of the
  others (`DroidInv`), then and in the event (`DroidEvents`); the deltas of
  fx's log add up to its totals (`DeltaHas`, by induction over the lines). Of
  Copilot's records the best of a call is kept or outranked (`RecordsInv`).
  `FinalUsage` follows from `UsageInv`, which adds to that what becomes of a call
  that was over when the files were listed. Its final line stays (`FinalLines`).
  Most readers take no other line of the call for usage, or, as Command Code's, the last
  line with its id is the final one (`RewriteInv`), and so every event of it is
  final (`FullEvents`; one lemma per kind of reader). Kimi's reader may read an
  update of the call in progress first, from a copy: a final event replaces it
  and is never replaced by less, or a file with the final line is still to be
  read (`KimiFinal`). Of Droid's files the reader keeps the one written last;
  as no total goes back to zeros, a file of zeros has not the last call of one
  that is not (`DroidCells`), so it never replaces an event of the call's total,
  which is kept, or is in a file still to be read with nothing in its way
  (`DroidFinal`). A log of
  Copilot's that was written while its call was in progress has, if the call is
  over, the finished span beside it (`TwinInv`), which is read with it
  (`CarriedInv`) and outranks it or is merged with it (`SelectFull`).
  `OneTurnAPrompt` and `FirstCallStarts` follow from what each turn was started
  by. In the readers of whole sessions a prompt comes before its call's line and
  no row of another call between them (`Told`; one lemma per reader); as a
  file's lines are in the order of their entries and a file that goes on from
  a copy has all that the copy had (`OrderInv`), no call comes between them in
  any file, then or later (`Started`, `TurnInv`). Qwen's prompt may be in a file
  before: what it owes is a prompt after all the calls counted (`Owed`,
  `QwenInv`). A commit of fx's log has the calls of the session before it before
  it in the log (`Parted`, `CommitInv`), so two turns have a prompt between them
  (`Between`, `FxTurnInv`). Two calls that one prompt answers have no prompt
  between them (`PromptShared`), so both are the first, and counted once.
* **CatalogProofs**, of `CatalogLookup` (from `LookupAssumption`): `LookupTypeOK`, `HitIsBest`,
  `MissExplained`, for any catalogs, any number of them and any candidates. The
  loop invariant says that what is in hand is the best of the catalogs passed:
  nothing that ends the search was passed (`NothingMissed`), the flat hit is
  the first (`FlatInHand`), the placeholder is the first (`ZeroInHand`), and
  keys were recorded if a catalog was tried in vain (`TriedInVain`). One lemma
  per action.

* **ReadProofs**, of `TokenBuckets` (no assumption): for the readers whose vendors count
  tokens inside one another, the buckets are what was spent
  (`InclusiveTakenApart`, `PromptTakenApart`, `GeminiEitherWay`,
  `GrokEitherWay`, `GooseTakenApart`), any record's output is kept whole
  (`OutputReconstructed`), and no token of a total is dropped (`TotalKept`).
  This is "Token buckets are disjoint after normalization, so summing them
  gives total tokens" (`coverage.mdx:30`), for all amounts.

Every invariant and action property of the runs is proved. Only model-checked:
liveness (`QueriesSettle`, `LockReleased`), since `ENABLED` and fairness are out
of TLAPS's reach, and that no run deadlocks.

## 5. Not modelled

Floating-point cost arithmetic beyond one kind of token; decoding of payloads,
timestamps and paths; the JSON wire and C ABI marshalling; language bindings;
detection; the derivation of `candidate_keys` from a model's name, a constant of
`CatalogLookup`. The model takes their results as data. Every reader is
modelled in its keys, turns and reports; how each decodes the fields of a
record is not. `PROJECT.json` gives the reason for each.

A stamp in the future, left by a clock that was set back, is served as fresh by
every cache implementation; the cache model's clock only advances, and nothing
in the repository promises otherwise. A crash may leave a temporary file behind
that no later load removes.

## 6. Plan

Done in this order, most important first: catalogs in memory and on disk, the
SDK object, rollups, pricing, the Codex reader, day bounds, lookup, the readers
of two stores, of transcripts and of totals, the token conventions.

Left, modules:

1. `CandidateKeys`: the chain of expansions of `candidate_keys` over names made
   of a path, a route, a family, separators and a date; order of confidence,
   no key twice, agreement of the two implementations.
2. `ReadPipeline`: selection of harnesses, skipped and diagnostics kept apart
   per harness, in the two envelopes of `read.rs` and `read.ts`.
3. A composition of `CatalogCache` under `PricingLoader`: a fresh answer of the
   memo from a fresh entry of the file is as recent as the two TTLs allow.

Left, theorems: none for a property that a run checks, but for liveness.
