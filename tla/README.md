# ftp.kaist.ac.kr in TLA+

ftp.kaist.ac.kr is a mirror host run by shell scripts: cron starts them, they
find each other through small files, and `lockfile(1)`, `ps`, `kill` and exit
traps are all the concurrency control there is. Nothing in the repository tests
what happens when these scripts overlap, are killed or die half way. Two pages
show the state of the mirror and rewrite themselves in the visitor's browser
while requests overlap; what they show are dates, ages and periods that one
program writes and another parses. That is what the modules here are about.

## 1. The system

| part | state it keeps | operations | correct when |
|---|---|---|---|
| **lockproc, synchronized** (`bin/lockproc`, `bin/synchronized`) | `Lock`, `Lock.owner` | grab, release, clean, alive, kill; run a command under the lock | one command at a time; its files stay while it runs; a stale lock is taken over |
| **package sync** (`lib/sync.sh`, `lib/pkg.sh`, `lib/sync-steps.sh`) | per package: `lock`, `lock.owner`, `log`, `timestamp`, `failed`, `failed.needsreport` | `sync now`, `regularly`, `stop`, `watch`; prepare-sync, finish-sync | one sync of a package at a time; `stop` stops; files of a live sync are not cleaned up; a dead one never wedges the package |
| **retry schedule** (`compute_times`, `penalty_for`) | age of `timestamp`, count in `failed` | is it time yet? | penalties add up as documented, a broken source is not hammered |
| **triggering** (`maintain-sync`, `foreachpkg`, `expand-paths`) | `nodes/*/pkgs.lst` | every third minute, `sync regularly` of every package, unless the load is high | each package tried once per run |
| **suspension** (`control-regular-tasks`) | `etc/noupdate` | suspend, stop, resume | after `stop` no regular sync runs |
| **news feeds** (`record-news.feed`, `contrib/allim`) | `news.feed` and its lock | new, add, add-reliably | what is reported as added is in the feed |
| **anomaly watch** (`check-anomalies`, `stop-dead-syncs`) | `lock.reported`, `log.monitor`, the report flag | report, stop inactive syncs | acts on the sync it looked at |
| **usage pipeline** (`measure-usage.d`) | log offsets and locks, working directories and their files, RRDs and locks | collect, convert, clean, summarize, update, remove | no record is counted twice or lost; a directory that is ready is analysed |
| **mount maps** (`contrib/semiautofs`) | active map, kernel mounts | start, stop, reload | mounts equal the map |
| **log store** (`expire-sync-logs`) | `log/sync/Y/m/d` | expire | a new log can be created |
| **status page** (`status.js`, `mozxpath.js`, in `geoul/`) | rows, the open one, the refresh timer, requests | load, toggle, refresh, update | one row open; rows show what was answered; the newest edition in the end |
| **contents page** (`www/self/legacy/js/js.js`) | items, the active one, graphs, flags, handlers, requests | update every minute, click, hover | one item open; graphs once; the newest edition in the end |
| **durations and dates** (`lib/geoul.sh`, `ostynscormtime.js`, `datetime.js`, `blogger.js`, `status.js`) | none | write and read durations and stamps, put ages in words | what one writes the others read back; wordings are true and do not jump |
| status documents, statistics, transfers, listings, host configuration, `geoul/trunk` | | | formatting, third-party tools or static: see PROJECT.json |

How they interact: `maintain-sync` starts `sync regularly` for all packages in
parallel; each sync takes the package's lock, runs `get` (rsync, lftp, wget),
and in its exit trap finishes the bookkeeping and calls `record-news.feed`,
where the syncs of different packages meet on the shared feeds.
`control-regular-tasks`, `stop-dead-syncs`, `restart-services` and people run
`sync stop`, which signals the owner recorded in `lock.owner`. Jobs of the
leader's crontab run under `synchronized`. `measure-usage` collects from the
logs under `lockfile` and leaves the analyses to processes under `synchronized`.
`publish-status` writes the documents the pages poll. All of it is cut off at any point by
signals and reboots.

What is hard: check-then-act on files by unrelated processes; a lock made of
two files; liveness of an owner judged by a pid; traps that run in the middle
of anything; cleaning up after the dead without hurting the living; answers
that arrive after their successors, between the clicks of a visitor; roundings
and zones. PROJECT.json
lists the hazards one by one, with the line at which each bites.

## 2. The modules

**TryLock** is what a user of `synchronized` is promised: a holder, and for
each process an attempt that is won, lost or still open. `TurnAway` needs a
holder that was there at some moment of the attempt.

**LockProc** is `bin/lockproc` and `bin/synchronized`. Each step is one system
call others can see: `exists`, `owner`, `ps` are `lockproc alive`; `glob`,
`unlock`, `disown` are `rm -f Lock Lock.*` (the shell expands the pattern before
`rm` unlinks anything); `lockfile` and `record` are the rest of `grab`; `run` is
the command; `signal` is `lockproc kill`. `op` says which lockproc command the
process is in, `pgrp`, `victim` and `matched` are its shell variables. TERM runs
the EXIT trap once it is set; KILL and `Crash` run nothing. `KillShell` is the
SIGKILL of `synchronized` alone, whose command goes on as one of the `orphans`,
with a pid that `ps` no longer finds.

Nothing keeps two calls apart: the crontabs space the starts of jobs, but a
command ends when it ends, and its release meets whatever grab there is. So the
calls interleave in every order, and the module names the two meetings which the
two files do not survive. One: a process creates `Lock` while another, having
found nobody, is about to unlink it (`AboutToClean`: a grab or `kill` that has
read its answer, or a release between its two unlinks). Two: such a process reads
`Lock.owner` after `Lock` was created and before the owner is recorded. The history variable
`torn`, which no guard reads, remembers that one of them happened; what
`LockProc` promises, it promises until then, and everything short of it, a
release that meets the start of the next grab for one, is covered. `lockproc_race`
has what happens after.

**PkgSync** is one package: `sync.sh` with the locking half of `pkg.sh` and
`sync-steps.sh`. `sync_in_progress` is called from five places; the steps
`exists`, `owner`, `ps` are shared, and `op` names the caller: the `guard` at
the top of `sync`, `acquire` in `acquire_lock`, `term` and `wait` in
`kill_lock_owner`, `stop` in `sync stop`. `WhenInProgress` and
`WhenNotInProgress` say where each caller goes. `expire` is the release that
follows `kill_lock_owner` in `acquire_lock`. From `trap` to `report` a process
is `Syncing`; `orphan` is a transfer whose shell was killed, still found by
`ps -g`. `Signalled` gives the effect of a signal by where the traps stand.
Here too nothing keeps invocations apart, `maintain-sync` starts every package
twice, and `raced` remembers the same two meetings: a lock created while another
process is about to clean (a start that saw no sync, a `stop` at its ruins, a
finishing sync between the two unlinks of `release_lock`), and a lock looked at
before its owner is recorded. `Custom` is `SyncCustom`, as `pkgs/pypi/sync` sets it (the proofs cover both
values). Age is abstract here:
`young` is the outcome of the timestamp test, `expired` that of `find -mtime`.

**Backoff** gives that age its numbers, in seconds: `age` of the timestamp,
`wait` until the next run of `maintain-sync`, the failure count, when the last
sync started and how it ended. `disturbed` remembers, since the last success,
whether a run was skipped under load, a sync was started by hand or killed, or
one took until after the next was due.

**Feed** is `add-reliably` of `record-news.feed` with `allim` inside: a process
goes through one `add`, or `new` and `add`, or `add`, `new`, `add`. `Open`
truncates the feed and `Write` fills it; the EXIT trap unlocks whatever lock is
there. Sets of packages stand for the items; `held` is what the feed had in it
at the beginning.

**UsagePipeline** is `measure-usage` with `logs2clf` and `analyze`. A run goes
through the logs: `Lock`, `Logtail`, `Unlock` for each, then `Ready` and
`Launch`, which begins an analysis of every ready directory that has none. An
analysis writes `tsv.all`, `tsv` and `usage` in turn (`Process`; a file is
`partial` while it is written), then updates one RRD after the other. `FirstStep`
is the nest of tests by which an interrupted analysis finds where to resume.
An update of an RRD goes in or fails (`UpdateFails`: rrdtool refuses a second one
within one second, a disk is full); `foreachpkg` lets the loop go on either way, and
the directory is removed in the end. Records are numbered, `counted` says how often
each went into its RRD, and `dropped`, `refused`, `abandoned`, `died` and
`overlapped` are history for the properties.

**StatusPage** is `status.js`: `Load`, `Toggle`, `RefreshRegularly`, `Refresh`,
and `update`, which the browser calls at each change of a request (`Send`,
`Progress`, `Complete`, `Fail`). `Update` is its loop over the packages, a
recursive function, because the variable `frequency` and an exception reach from
one round into the next. **ContentsPage** is `js.js`: `UpdateStatus`, `Fill`, `Click`,
`MovePointer`, and the writer of `status.json`, which can be caught in the
middle (`torn`). jQuery binds a handler of `mouseleave` at every update and
removes none; `bound` counts them. **Pages** puts a visitor in front of one of
the two.

**Durations** and **Dates** have each function that writes or reads a duration or
a stamp, under the name it has in the code. A duration is a sequence of numbers
with a letter and of T's, not of characters; a stamp is the reading of a clock
with the text of a zone; an instant is a number. The units are constants, which
lets TLC use a calendar of small numbers and the proofs any. **TimeTexts** takes
them through lengths, instants, ages and typed texts, and has the meaning of a
duration of the XML Schema to compare with.

The theorems are in modules of their own: **LockProcProofs**, **PkgSyncProofs**,
**BackoffProofs**, **FeedProofs**, **UsagePipelineProofs**, **PagesProofs** and
**TimeTextsProofs**, each about the module of its name. **Induction** has what
three of them share: that a set of naturals with 0 and all successors is Nat, and
that a nonempty one has a least element.

Every modelled definition has its source lines in PROJECT.json under "map".
Definitions introduced by a comment `Mutant:` are seeded bugs: each property of
a passing run is shown to fail when one of them takes the place of the real
definition.

## 3. What TLC checks

| run | instance | question and answer |
|---|---|---|
| lockproc | 3 processes, 2 kills, every interleaving | until the lock is torn `MutualExclusion` and `RunnerKeepsLock` hold and the two files are a TryLock (`ImplementsTryLock`); a stale lock, torn or not, is taken over (`StaleLockRecovered`) |
| lockproc_race | 2 processes, every interleaving, nobody killed | **two commands run at once** (finding) |
| sync | 2 processes, reused without end, every interleaving up to a race, 2 crashes, 2 failures counted | `OneSyncUnlessRaced`, `SyncKeepsLock`, `RunKeepsLog`, `ReportHasFailures`, `FailuresCounted`, `StopStops` hold; `LockRecovered`: a dead process does not wedge the package, even if the recovery dies too |
| sync_twice | 2 invocations, every interleaving | **both synchronize** (finding; `maintain-sync` does start every package twice) |
| sync_overlap | 2 invocations interleaved at every step and beyond every race, 1 failure counted, no crash but the kills of `stop` | `LockRecovered` holds whatever lock a race leaves, though `OneSyncAtATime` does not; `lockfile` may find the lock taken and give up |
| backoff_retries | frequency PT30M, cron period 3 min, up to 3 failures, age up to 250 min, minute grain | `PenaltyKept`, `FailuresTakeTime`, `PenaltyIsSum` hold |
| feed_three | 3 writers, 2 crashes | `TwoKeepItems`, `AddReliably`, `NoLockLeft` hold |
| feed_lost | 2 writers, no feed yet | **an added item is lost** (finding) |
| usage | 2 services, 2 runs, 2 directories, 1 record each, 1 crash | `CountedOnce`, `NothingForgotten`, `UndisturbedKeepsAll`, `EventuallyAnalysed` hold: what is lost or counted twice is so in the ways they name |
| pages | 2 rows and a hidden package, 5 histories of 3 editions, 2 items, 2 requests | `OpenRow`, `RowsShowAnswer`, `UpdatingEnds`, `ItemOpen`, `ImagesOnce`, `StatusCurrent`, `ContentsCurrent` hold |
| times | lengths up to a year and a half of a small calendar, instants around every rounding, ages around every bound of a wording, six zones, typed texts of up to 5 parts | `FieldsCanonical`, `DurationReadsBack`, `FrequencyAgreed`, `StampsReadRight`, `StampReadsBack`, `WordingHonest`, `AgesGrow` hold |
| times_viewer | the server in Seoul, visitors there and in UTC | **the contents page reads the stamp as another instant** (finding) |

What the models show besides, without a run of its own:

- `acquire_lock` means to "remove expired, stale lock" (`lib/pkg.sh:130`), but
  `sync.sh:85` refuses every start while a sync is in progress, before the age of
  the lock is looked at. Only the lock of a dead sync is ever found too old: that
  of a sync that hangs stays until somebody runs `sync stop`.
- `geoul-pep381` takes the status of starting a background job for that of the
  transfer, so with `Custom = TRUE` a failed transfer touches the timestamp
  (`TimestampMeansSuccess` of PkgSync); and `mtime` of a missing timestamp is 0,
  so a package that never succeeded is retried at every run whatever its
  failures. Both are listed as hazards.
- A start can lose its lock to a sync that is ending: `release_lock`
  (`lib/pkg.sh:142`) removes `lock.owner` before `lock`; a start in between finds no
  sync and cleans, and if it creates its lock before the second unlink of the
  release, that removes it. This is one of the races `raced` names;
  `LockRecovered` is what is left after it.
- A start can also lose to another without a race: `lock_expired` is true of a
  missing lock, so the slower of two starts that both found no sync, if it has just
  removed the old lock, goes on to `kill_lock_owner`, and when the faster has locked
  and recorded meanwhile, signals it. The slower one then synchronizes: one sync at
  a time still, but the first was killed for nothing.
- `RowsShowAnswer` has to describe a defect: `var frequency` of `update` in
  `status.js` outlives its round of the loop, so the age of a package without a
  sync element is coloured by the frequency of the nearest package before it that
  has one. The property says exactly that, for every package, and would fail if
  it were any other.
- `UpdatingEnds` excepts an update that threw: it leaves the page saying that it is
  updating until an update goes through (`status.js:141`).
- `UndisturbedKeepsAll` needs its condition. `error` in `logs2clf` ends the whole
  run when the lock of one log is busy after the retries, and the records already
  taken from the logs before it are in a directory nobody looks at again. A lock
  that leaked from a killed run does this to every run until the next reboot.
- `ItemOpen` is a subset, not an equality: an update takes the class `active` from
  the open item while `activeItem` goes on naming it, so the next click on it only
  clears `activeItem` and it takes a second one to open it.
- An analysis that dies after some of its updates is run again from the start,
  which is why `CountedOnce` excepts the records in `died`. An update that fails
  loses its records for good (`refused`), however quiet the host is.

Bounds, and why they suffice:

- *Processes.* Two are needed for every race; where there is a third it plays the
  latecomer who meets what two others left. Processes are reused: an ended one
  starts again under its pid when nothing refers to it, so behaviours are not
  limited to that many invocations. The sync runs have two, so that their liveness
  fits: a third latecomer to `LockRecovered` is not covered. Their safety is proved
  for any number.
- *Races.* The run `sync` goes no further than the state in which a race happens
  (`NotYetRaced`), because its safety properties promise nothing after it.
  `sync_overlap` goes on, without crashes: a race and a crash in one behaviour are
  beyond five minutes.
- *Crashes.* One crash leaves stale files, a second hits the recovery from the
  first.
- *Failures.* `MaxFailures` 2 in PkgSync tells no failure, one, and more apart.
  In Backoff 3 reaches a penalty (8400 s) many times the frequency; the
  theorems remove the bound.
- *Time.* Backoff's minute grain divides the cron period and all delays; the age
  bound lies beyond the third penalty. `Epoch` (the age of a missing timestamp)
  is made 180 minutes instead of fifty years: anything beyond the penalties
  counted does.
- *Usage.* One record per log, because two make nine million states; two services
  are needed to lose the one and be refused the other, two directories and two
  runs for every overlap. The safety properties are proved for any number.
- *Pages.* Two requests suffice for one to overtake another; the third edition is
  one that neither the page nor the first answer has seen. The histories have the
  changes that matter: a package comes to have a sync, a date, a frequency, or
  loses it, or is missing. `MaxBound` tells no, one and more handlers apart.
- *Times.* The small calendar keeps the inequalities between the units (two
  months and no rest in a year, hours that divide a day). Each bound of a wording
  and each rounding is hit from both sides. Five parts are a text with a part
  too many for every pair of letters around the T.
- Symmetry is used in safety runs only.

Fairness. `WF(Step(p))`: a script the kernel runs goes on. `SF` or `WF` of
starts: cron starts `maintain-sync` every third minute and the synchronized jobs
at their times, for ever; strong fairness is needed in PkgSync because a start
is blocked now and then by another process at the lock. `WF(Resume)`,
`WF(AgeTimestamp)`: a suspended system is resumed some day and time passes.
There is no fairness on the end of a command or a transfer, on crashes or on
anything people do: a transfer may hang for ever, which is why
`LockRecovered` asks for a running sync or no lock, not for no lock. In UsagePipeline cron starts a run every hour (`WF` of a start by one of
the runs) and what runs goes on. In Pages the browser fires its timers, and of
the requests not all fail for ever (`SF` of an answer); a visitor's clicks have
no fairness.

## 4. What is proved

TLAPS checks the theorems for every value of the constants.

*LockProc* (assuming `LockProcAssumption`). `MutualExclusion` is not inductive.
`Holds` is a process from the creation of `Lock` to the moment its release unlinks
it, unless its shell is gone. `IInv` adds to the types, whatever was torn:
`StepOfCommand`, which ties each step to the commands that contain it, and
`ReferencedPastGrab`, a pid that is written down is past its own grab; and until
torn (`Whole`): one process holds the lock (`OneHolder`) and its files are there
(`HolderKeepsLock`); nobody is about to unlink a lock just created
(`CreatorUndisturbed`), and nobody but the holder unlinks one that is held
(`OnlyHolderCleans`); `alive` is about to ask `ps` for the holder, if there is one
and a clean hangs on the answer (`SeesHolder`), so that it answers yes and no clean
starts. A release is in `Whole` like everything else: it may meet any step of any
grab but the creation of the next lock between its unlinks. **LockProcProofs** proves that `Init` implies
`IInv`, that each action keeps it, and the theorems. It also shows that each step
maps to a step of TryLock or a stutter: an attempt is `busy` when it has come to
`lockfile` and the lock is there.

*PkgSync* (assuming `PkgSyncAssumption`). `Holds` extends `Syncing` from the
creation of the lock to the first unlink of the release. `IInv` has the same shape:
`StepOfCaller`, `ReferencedPastStart` and `VictimKnown` whatever raced, and unless
raced `OneHolder`, `HolderKeepsLock`, `CreatorUndisturbed`, `OnlyHolderCleans`,
`SeesHolder` (for a look that a clean-up hangs on, or whose victim the holder is),
`LogInv` and `Bookkeeping`, how `failed` and `failed.needsreport` relate while
finish-sync is between two writes. The guard at the top of `sync` needs no part of
it: whatever it read, `acquire_lock` looks again. **PkgSyncProofs** proves that each
action keeps `IInv`, the four invariants of the sync run, and its two action
properties: a failed sync makes the count one more than it is at the moment of
writing (`FailuresCounted`), because the one holder is the one writer; and the loop
of `kill_lock_owner`, which ends in `LockExists`, `AskPs` or at once in
`ReadVictim`, does not return to `stop` while the sync it was after runs
(`StopStops`), which needs `SeesHolder` for the victim: a start may come at any
moment of it.

*Backoff* (assuming `BackoffAssumption`). `PenaltyStep` is the arithmetic: the closed
form of the penalty grows by 600 n^2 from one count to the next. `IInv` says that a regular sync
started when it was due, hence `FailuresTakeTime` always; and that, undisturbed,
it started less than one period after it was due (`PromptStart`), hence
`PenaltyKept` for packages that have a timestamp. **BackoffProofs** has one step
per action under `NextKeepsIInv`. `PenaltyIsSum` holds because `SumOfDelays` is
the function that the closed form satisfies the recursion of, for every count.

*Feed* (assuming `FeedAssumption`). `FeedInv` is type correctness with three
parts, one for each property. `LockOwned`: as long as nobody has died, the lock
belongs to a process that has its unlocking before it, hence `NoLockLeft`.
`AloneInv`: a writer that nobody overlaps finds the feed as its own last call
left it (`CallFits`), writes a feed with its item in it (`Writes`), and fails at
most in its first `add`, for which `new` and the second `add` make up
(`FailsOnce`); hence `AddReliably`. `TwoInv`: when nothing disturbs two writers of
a feed that was there, they only `add`, they are inside one after the other
although the first one's trap unlocks a second time (`InsideAlone`), and what one
added, like what the feed `held`, is in the feed or in the copy that replaces it
(`ItemsSafe`); hence `TwoKeepItems`.

*UsagePipeline* (assuming `UsageAssumption`). Neither `CountedOnce` nor
`NothingForgotten` is inductive. `Inv` in **UsagePipelineProofs** adds: a run that
collects has a directory of its own (`Holds`, `Alone`) which is empty for the logs
ahead of it (`EmptyAhead`), so `Logtail` overwrites nothing; what is in a directory
was passed by logtail and is in no other (`Passed`, `Disjoint`), so it has not been
counted before; each file of a directory was made from a whole one
(`FilesInOrder`), so an update finds all records of its directory (`Found`); behind
an analysis every record is counted, dropped or refused (`Settled`), so `Remove` forgets
nothing; a record that is counted and still in a directory is behind the analysis,
or behind one that died (`CountedBehind`), so that a second count is after a death
(`TwiceDied`). A second part of the
module shows `UndisturbedKeepsAll`: as long as
nothing overlaps or dies, one run or one analysis is at work (`OneAtWork`), locks
are only held by it (`LogsHeld`, `RrdsHeld`), and so no lock is found taken.

*Pages* (assuming `ContentsAssumption` and `StatusPageAssumption`, which says what
the pages are given: the rows are packages of the document, and an edition has
truth values where the page asks yes or no). **PagesProofs**: type correctness,
`ItemOpen`, `ImagesOnce`, `UpdatingEnds`, `OpenRow` and `RowsShowAnswer`, for any
packages, editions, requests and handlers. A handler draws graphs only if the flag
is unset and sets it, so the pile of handlers draws once. `RowsShowAnswer` needs an
invariant of the loop inside `update` (`LoopInv`): after its i-th round, unless an
exception has left it, the rows of the first i packages show the edition that came,
whatever the rows were before; and of what `frequency` holds by then and which ages
are shown against it (`LoopAges`). `UpdateRight` is both by induction over
the rounds; `StatusInv` carries it through the requests that overtake each other.

*TimeTexts* (assuming `DurationsAssumption`, `TimeTextsAssumption`; of the units the
first asks that they are positive, that a day is whole hours and the others whole
seconds, as 24 hours, the library's 30.4375 days and 365.25 days are).
**TimeTextsProofs**: `FieldsCanonical` for units of any length, from a lemma that
dividing takes the largest multiple; `StampsReadRight` and `StampReadsBack` for all
instants and zones; `AgesGrow` for every two looks at an age and `WordingHonest` for
every one, a case for each wording.

`DurationReadsBack`, for every length of time: every writer ends in `Written`, which
puts numbers of units in order, so it is enough to follow each reader over such a
text. `ReadsWritten` does so for `ISODurationToCentisec`: before the letter of a unit
comes up, what is left of the text is what `Written` put from that unit on; a letter
that is not there is not found behind it (`SkipsLetter`), and the M of the minutes is
not taken for that of the months because the T is in front of it (`ReadsBehindMark`).
`SumsWritten` does so for the words of `secondsof`, whose sum is a function by
`SumExists`. What is left is that `Fields` adds up.

`FrequencyAgreed`, for typed texts of any length: `WrittenAgain` shows that a
well-formed text is what `Written` makes of its own numbers, cutting the text at each
unit (`CutAt`, `CutPut`, `CutMark`). Then `LibraryReads` and `ScriptsRead` are
`ReadsWritten` and `SumsWritten` again, and `PageReads` follows the pattern of
`prettyPeriod` over the text (`WordsWritten`): the next number is of the unit the
pattern asks for, or of a later one.

Only model-checked: the liveness properties `StaleLockRecovered`, `LockRecovered`,
`EventuallyAnalysed`, `StatusCurrent` and `ContentsCurrent`, which need fairness. Every
other property of a passing run is a theorem; of the theorems only
`BackoffPenaltyKept` has a hypothesis beyond the assumptions on the constants, that
the package has a timestamp (`~NeverSynced`). What ends with a race or a torn lock
says so in the property itself.

## 5. What is left out

- Owners on other hosts, reached over ssh: the node list names one host.
- Reuse of a pid that a file still names, after a reboot or a wrap-around.
- In PkgSync, reentrant packages (debian, chicken), `watch`, and the parsing of
  a package's files; in Feed, allim's commands that nothing calls and the
  expiry of items; in LockProc, `release` run by hand.
- In UsagePipeline, the rotation of logs, webalizer and what the converters and
  rrdtool compute. A `$log.lock` that leaked from a killed run stays until the next
  reboot, and stops the analyses for as long: `EventuallyAnalysed` excepts it.
- In the pages, texts, links and the wording of a box; that a browser answers a
  request from its cache (`status.js:132` asks for the same address every time),
  against which `StatusCurrent` is no promise; and a callback of `js.js` that
  throws half way. The script that publishes
  `pkgstat.xml` is not in the repository: an edition is put up whole.
- In the times, negative and week durations, leading zeros (which bash's `let`
  takes for octal), stamps without a time, and the calendar inside the Date
  object.
- The parts with status `not_modelled` in PROJECT.json, with the reason there.

## 6. Plan

1. **SyncWatch**: `stop-dead-syncs`, `check-anomalies` and the loop of
   `control-regular-tasks stop` over an abstraction of PkgSync that its proofs
   justify (who holds the lock, which log); properties: a stop hits the sync that
   was inactive, one report per failure and per long sync, no regular sync after
   `stop`.
2. **SemiAutofs**: map, mounts and reload; property: after a reload that ends,
   mounts equal the map; abstract specification: an atomic switch of maps.
3. **LogStore**: prepare-sync's `mkdir -p` against `rmdir -p`.
4. Rotation in UsagePipeline: the rotated log is measured by a run of its own
   while the hourly one may hold the lock.
5. Proofs: a refinement for PkgSync's locking, with a TryLock in which a refusal
   needs no open attempt, since the guard of `sync` refuses without one.
