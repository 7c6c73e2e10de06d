# TLA+ model of embedded-test-runner

This directory specifies the part of embedded-test-runner that decides whether a
test run can be trusted: the READY/RUN/DONE protocol between the host
(`src/etst/`) and the board (`include/etst/`), what the board runs for a given
command, and how the host turns what it saw into a verdict, with sleeps,
restarts, crashes, hangs, lost ports and damaged lines in between. TLC checks the
modules on small instances; TLAPS proves some of the results for all parameters.

Paths below are relative to the repository root. `PROJECT.json` maps every
definition to its lines.

## 1. Inventory

| Component | State it keeps | Operations | Talks to |
|---|---|---|---|
| Protocol state machine, `src/etst/ready_run_protocol.py` | state, current suite and test, sleeping test, tests seen, expected total (latched), busy deadline, accumulated args | `feed` (one branch per tag), `command_sent`, `reset_for_wake`, `reset`, `reset_all`, `is_busy` | fed by the runner, one line at a time |
| Session orchestration, `src/etst/runner.py` 580-1203 | serial handle, line buffer, retry counter per sleeping test, failures, suite cases, crash flag | `stage_testing`, `_run_test_cycle`, `_handle_sleep_resume`, `_on_serial_data`, `_report_test_failures`, `_ensure_test_results`, `_check_for_under_run` | serial port, protocol, PlatformIO's suite |
| Line-callback mode, `runner.py` 328-378 and `teardown` | time of the last line, crash and finish flags, failures | `setup`, `on_testing_line_output`, `teardown` | PlatformIO owns the port |
| Command building, `runner.py` 384-578 | none | `_build_args_and_run`, `_collect_env_vars` | environment, program args |
| Plugins and partition hooks, `runner.py` 193-302 | list of receivers | load, notify | entry points |
| Disconnect windows, `disconnect.py` | active flag, count, duration | `feed`, `reset` | runner suppresses output while active |
| Timing tracker, `timing_tracker.py` | current test, durations | `feed`, `finalize`, `reset` | summary |
| Result receiver, `result_receiver.py` | framework, results, the test and failure under way | `feed`, `drain_results` | any owner of a port |
| Robust doctest parser | none | `parse_source` | PlatformIO's parser |
| Wire format, `protocol.py`, `protocol.h` | none | `emit`, `parse_line`, `validate_crc`, `format_crc` | both sides |
| Serial link, `serial_port.py` | port present, handle, bytes in flight | `open_serial`, close, read, write | USB CDC |
| Command loop on the board, `doctest/runner.h` 705-943, `test_runner.h` | `tests_complete`, READY timer, accumulated args, wake flag | `wait_for_command`, `run_cycle`, `run_tests`, `idle_loop`, `signal_sleep`, `signal_restart` | serial, doctest, hardware |
| Test selection on the board, `doctest/runner.h` 205-686, `resume.h`, `command_args.h`, `env.h` | `m_skip` of each test, env store, captured filters | `combine_command_args`, `apply_runner_command`, `extract_etst_flags`, `select_resume_after`, `apply_env_requirements`, `count_passing_filters` | doctest's registry |

How they interact: the board sends READY every second while it waits. The host
answers with its `ETST:ARGS` lines and one command. The board announces COUNTS,
then CASE:START per test, then DONE. A test that sleeps announces SLEEP (or
RESTART), the port disappears, and the host runs it again in a cycle of its own
(`RUN: --wake --tc "<name>"`, *phase two*), then sends `RESUME_AFTER: <name>` for
the rest. All memory of the board but the host's commands is lost at each sleep.

What is hard here: two processes over a link that loses, damages and buffers
lines; a device that reboots at any moment and looks the same afterwards; a host
that infers from silence; flags that outlive the cycle they were meant for; a
verdict that must not be green by omission. The full list, with lines, is under
`hazards` in `PROJECT.json`.

What makes each component correct:

* protocol: whatever it will resume it has counted; session totals survive
  `reset()`; a lost command is asked for again.
* selection: a resume cycle runs exactly the rest; COUNTS is what runs; phase two
  runs the sleeper and nothing else.
* board: the wake flag and the env store belong to the cycle that runs.
* line-callback mode: one verdict per partition, every failure heard reported, a
  hang noticed.
* receivers: each reads the same lines by rules of its own, and they must agree.
* result receiver: no failure lost, none reported twice, no test both passed and
  failed.
* wire format: a damaged line is refused, a whole one is accepted, however the reads
  cut it.
* command building: what the user typed is what the board applies.
* session: every wanted test is taken up in order, ends at most once, green means
  that all ended and none failed, and the session ends.

## 2. Modules

| Module | Models | Correspondence |
|---|---|---|
| `Link` | the USB serial link | `wire` and `toDev` are the lines in flight, `port` the device node, `handle` pyserial's handle (`stale` after the device left the bus: its next use raises). `Emit`, `Opens`, `Closes`, `PortDrops`, and the faults. |
| `ReadyRunProtocol` | `ready_run_protocol.py` | One action per branch of `feed()`, one per other method. `ProtocolSpec` is the class on its own under any input; `Runner` and `LineMode` use the same actions. |
| `Registry` | test selection | Pure operators over sets of test numbers: `CommandFlags` is `combine_command_args`, `SkipForCycle`, `RunBy` and `CountBy` are `run_cycle` up to `context.run()`. A glob pattern is the set of tests it matches. A filter keeps the name it was given by, short or long: doctest takes the last of each name and puts both into one list. |
| `CommandLine` | texts between the user and the board | `CollectEnv`, `ArgsTexts`, `RunCommand` build them (`_collect_env_vars`, `_build_args_and_run`), `InitialCommandText` is the older builder, `PhaseTwoText` and `ResumeText` are the commands of later cycles; `Combine`, `Tokens`, `Extract`, `ForDoctest` take them apart on the board. A text is a sequence of words, plain or quoted; `Joined` gives the words of the form `--flag=value` their flag and value, and one with a word behind it is what `build_doctest_argv` makes of it, `--flag=value=word`. |
| `Firmware` | the board | `dpc` is where the program is; `Boot` resets all RAM; `BoardInit`, `EmitReady`, `Receive*`, `Prologue`, `StartTest`, `SignalBusy`, `SignalSleep`, `FinishCycle`; then the faults. `begun`, `ended`, `failed`, `naps`, `flags` are history, used by properties (and `failed` by the failing test itself). |
| `Board` | the board against any host | `Firmware` and a host that sends, reads, opens and closes at will. |
| `Runner` | orchestrated mode of the host | `hpc` is where the single thread is; one action per way through the read loop, the drain, the post-test command and `stage_testing`'s loop. |
| `Session` | host and board together | `Next` is a step of either, a fault, or the next invocation of the host on the board as it was left; clocks appear as guards (below). States the properties of the whole system. |
| `TestPlan` | the abstract promise | No link, no cycles: take a test, end it, give a verdict, start over. `Session!PlanSpec` is its refinement mapping. |
| `Receivers` | `disconnect.py`, `timing_tracker.py`, plugins | `FeedWindow`, `FeedTiming`: what one line does to each; `NotifyNext` is one round of `_notify_plugins`'s loop. An entry point is what it turns out to be: does not import, does not construct, has no `feed`, has no hooks, raises in one, works. |
| `LineMode` | a partition in line-callback mode | `Notify` and `SetupEnds` (setup), `IgnoreLine`, `HangSeen`, `TakeLine` (on_testing_line_output), `Elsewhere` (the port's owner calls the protocol, or a BUSY runs out), `TeardownStarts`, `TeardownEnds`. |
| `ResultReceiver` | `result_receiver.py` | A line is the pattern it matches and the name in it; one operator per branch for doctest and Unity. Results go by the name, as in the code, and several headers may have one name. `heard` numbers the lines and `header` is the last header's: history, by which results can be told apart. |
| `WireFormat` | the CRC of `protocol.py`/`protocol.h` | `Crc8` bit by bit, `Format`, and three ways for a line to be damaged. `BoardAccepts` is `validate_crc`, on the bytes; `CrcOf` is `parse_line`, on what `_on_serial_data` made of them: `HostContent` decodes each of two reads with `errors="replace"` and encodes the text again. A byte is the set of its one bits, so that exclusive or is symmetric difference and a shift moves each bit up by one. |
| `Rounds`, `Progress`, `Verdict` | nothing of their own | The inductive invariants of `Session`, in named parts: `Rounds` says where READY, the command and the tests' history stand in the sleep and resume rounds, `Progress` what a command finds on the board, skips and counts, `Verdict` what has been run and why a verdict is red, also after a crash. TLC checks the first two in `SessionDrops`, the parts of the third (`PlanInv`, `ReasonInv`) in `SessionPlan`. |
| `MC*` | instances for TLC | Constants; in `MCRegistry` the enumeration of command lines and the properties about them; in `MCReadyRunProtocol` the choice of one of four parts that share nothing (protocol, partition, results, wire). |
| `*Proofs` | theorems | See section 5. |

`Link` is extended by `Runner` and `Firmware`, which share its variables;
`Session` extends both. `LineMode` extends `Receivers`, which extends
`ReadyRunProtocol`. Operators named `Mutant...` are single deliberate
mistakes; nothing uses them, and `PROJECT.json` pairs each with the property that
notices it.

Abstractions:

* A name, suite or flag payload is a model value. CRC is its outcome: `ok`, `bad`
  or `absent` (a host line without CRC, such as the post-test command).
* Chunks of bytes are whole lines; how many lines one read returns is free.
* Time is in guards. A timeout of the host fires only when the board is really
  silent that long (`TimesOut`: a hung test, one that announced its silence, a board whose
  `board_init` failed), a BUSY window does not end before the silence it announced
  (`BusyIsOver`), the wait for a wake-up outlasts the
  sleep unless the board oversleeps (`WakeWaitOver`), opening fails only on a
  board that a fault keeps away (`OpenGivesUp`). READY's timer fires on an idle
  link when the host is prompt (`PromptHost`), at any time otherwise.
* Before deep sleep a test flushes and delays as README.md:173-180 shows, so a
  host that listens has read the announcement when the port goes (`GoDown`).
* In line-callback mode a line may come late: whether the hang timeout has passed
  since the last one is free, unless a BUSY covers it.
* PlatformIO's own parser adds cases too, depending on its version; the model has
  only the cases the runner adds.
* The crash detector is external: it triggers on a crash dump and, as the runner
  never resets it, stays triggered.

## 3. Runs

| Run | Question | Instance |
|---|---|---|
| `ReadyRunProtocol` | Does the host make the right thing of any lines: session data, verdict of a partition, plugins, windows, durations, results, CRC? | 2 names, 1 suite (and none), counts {1, 2}, one ARGS line; partitions of up to 5 lines and 7 entry points of every kind; 7 lines of test output with one name; 5 contents of up to 5 bytes, among them characters of one to four, every burst of up to 8 bits, every cut into two reads |
| `RegistryCommands` | For every command line: is the resumed rest exact, COUNTS honest, phase two precise, the flag order right, the text what was meant? | 4 tests in 2 suites, one statically skipped, one with an env requirement, names and suites with spaces; up to 3 of 14 options, with short, long and joined filters, 3 settings of the environment variables |
| `FirmwareCycles` | Do the wake flag and env store stay within their cycle? | 3 tests, the first fails, the second announces a silence and restarts; standalone start; any host with 8 messages; one fault of any kind |
| `SessionPlan` | Does a session implement `TestPlan`, keep the invariants of its proofs (`PlanInv`, `ReasonInv`), end, and end green without a fault, and the next one after it too? | 5 tests, three of which sleep or restart, one is excluded, one needs an env value, two announce a silence, one is in no suite; two sessions, the first without a reset; at most one sleep too long or failed `board_init` |
| `SessionFaults` | Same, and no green too early, with hangs, crashes, oversleeping, damaged host lines, a failing `board_init` | 3 tests, none fails, so that the run can be green; one may sleep again in every cycle, one announces a silence; 2 faults |
| `SessionFailing` | Is a failed assertion red whatever comes after it? | as `SessionFaults`, and the first test fails |
| `SessionDrops` | Port lost at any moment: do the invariants of the proofs hold (`RoundsInv`, `ProgressInv`), is no test run twice, does the session end? | 3 tests, two sleep; 3 faults |
| `SessionNoise` | Is what the host counts real under every kind of noise? | 3 tests, one may sleep again; garbled lines both ways, resets, drops; 2 faults |
| `RegistryUnskip` *(violated)* | resume composes with all flags (`runner.h:268`) | as `RegistryCommands` |
| `SessionLostPort` *(violated)* | green is earned (`runner.py:1171`) | one lost port |
| `SessionLostArgs` *(violated)* | args reach every cycle (`command_args.h:8`) | one damaged host line |
| `SessionReset` *(violated)* | the session ends when the device resets (`docs/design.md:3`, 112) | one silent reset |

The violated ones check one property each that a comment or document states, and TLC
finds a behaviour of the code that breaks it; `findings` in `PROJECT.json`
quotes the text and describes the behaviour.

Bounds. `WireCap` limits lines in flight: 2 or 3 is enough for a line to be read
together with, before or after its neighbours, and for a reader to fall behind.
`MaxFaults` limits faults per behaviour: two suffice for a fault during the
recovery from another. `MaxNaps` only caps a history counter, above
`MAX_SLEEP_RETRIES` + 1 so that `NapsBounded` can fail. `RxCap`, `MaxArgs` and
`MaxFlags` bound inputs. Three tests give one before, one at and one after a
resume point; five add a second sleep, a restart and a test that only some
commands run. A verdict of a partition needs a hang, a crash, a failure and DONE
in any order, with a line before and after: five lines. A failure of the result
receiver needs a header, a failure, a second failure or a success, a detail, a
header and a summary, with drains anywhere: seven. An eight-bit CRC catches every
burst of its own length, and a burst touches two bytes at most: contents of two
bytes and more show every offset, and a character has four bytes at most. `FirmwareCycles`
uses a VIEW that drops history no guard reads. Session runs disable the deadlock
check because the host ends; `RegistryCommands` and `ReadyRunProtocol` because the
enumeration, a partition and the output of a test run do.

Fairness (`FairSpec`), used for `Termination` (every session that opens the port
reaches its verdict: `hpc = "open" ~> hpc = "over"`): weak fairness of the host's thread and of the board's loop, both of which run without waiting
for anything but their own timers; weak fairness of READY's timer (`millis()`
advances); strong fairness of the end of the drain, whose deadline passes even
when lines keep arriving. Faults are never fair, and a hung test need not come
back.

## 4. What the properties say

* `PlanSpec` (refinement): tests are taken up in order with none left out, none
  ends twice or after the next was taken up, the verdict is green only when all
  have ended and none is broken, and nothing changes after a green verdict.
* `GreenIsEarned`, `FailureIsRed`: the two ways in which a verdict could lie, about a
  test that did not end and about one that failed.
* `NoRerun`: a test that ended is never started again.
* `RoundsInv`, `ProgressInv`, `PlanInv`, `ReasonInv`: the reason why those above and
  below hold, for TLC to check before they are proved and for a reader to see where
  everything stands.
* `WakeIsPhaseTwo`, `WakeIsOfThisCycle`, `EnvIsOfThisCycle`, `ArgsReachTheCycle`:
  what a test sees of its configuration.
* `ExpectedIsAsked`, `CountsMatch`: the number the under-run check relies on.
* `CountedHasBegun`, `SleepIsCounted`, `SessionScoped`: what the host remembers.
* `RedHasReason`: without a fault, a failed assertion or a test that sleeps too
  often, the verdict is green. With `GreenIsEarned` and `FailureIsRed` it pins the
  verdict from both sides.
* `NapsBounded`, `Termination`: nothing goes on for ever.
* `ResumePartition`, `PhaseTwoRunsSleeper`, `LaterFlagWins`: which tests a command
  selects. `AsTyped`: the texts the host builds from what was typed and from its
  environment, folded and tokenized by the board, select what was meant, in a
  first, a phase-two and a resume cycle; `BuildersAgree`: the older builder asks
  for the same.
* `OneVerdict`, `FailuresReported`: the report of a partition in line-callback mode.
  `EveryPluginHears`: a broken plugin costs no other one its
  hooks. `CountedIsTimed`, `WindowsPaired`: the receivers agree with the protocol.
* `OneOutcome`, `FailuresKept`: the result receiver loses and invents nothing: what
  follows one header is failures or one pass.
* `GarbledIsRejected`: a damaged line is refused, for damage within a content or in
  the digits; by the host only as long as the bytes are still text.
  `WholeIsAccepted`: an undamaged line is accepted, wherever the read ends between two
  characters.

Known limits of these results, each a constant or two, or a property, away from a passing run:

| Change | Fails | Because |
|---|---|---|
| `SessionDrops` with `Failing = {1}` and `FailureIsRed` added | `FailureIsRed` | failures are reported only on DONE (`runner.py:736-739`, 1069-1089) |
| `SessionFaults` with `Sleepers = {1, 2}` | `WakeIsPhaseTwo` | the crash detector stays triggered, so later cycles drop lines after the first of a chunk (`runner.py:840`) and an empty name is resumed |
| `SessionDrops` with `FaultKinds = {"garble"}` | `ExpectedIsAsked` | the first COUNTS that arrives is latched (`ready_run_protocol.py:136-141`) |
| `SessionPlan` with `PromptHost = FALSE` | `PlanSpec`, and `NoRerun` if added | a second READY in flight makes the host send the command twice (`ready_run_protocol.py:105-111`) |
| `SessionPlan` with no reset in the second session | `ExpectedIsAsked` | the last resume's `m_skip` is still set (`resume.h:89`): the second session runs only the rest |
| `SessionPlan` with `OnDone = "SLEEP"`, `MaxFaults = 0`, no test that sleeps, and `SleepsWhenDone` added | `SleepsWhenDone` | the post-test command is written without the CRC (`runner.py:801-803`) that the board asks for (`runner.h:739-764`); `README.md:241` says that the board sleeps |
| `ReadyRunProtocol` with `TestsAreWatched` added | `TestsAreWatched` | in line-callback mode nothing calls `command_sent()`, so no test is watched for silence (`runner.py:344`, 372-374); `runner.py:335-336` says that hangs are checked for |
| `ReadyRunProtocol` with `NeverBoth` added | `NeverBoth` | results are kept by name (`result_receiver.py:158-163`, 195-204), and doctest prints the header again for each subcase (`runner.py:1094-1098`): one failing and one passing subcase make the test failed and passed; `result_receiver.py:218` says "don't also record pass" |
| `ReadyRunProtocol` with `HostRejectsGarbled` added, `Contents <- MCBusy` and `Bursts <- MCFlips` | `HostRejectsGarbled` | the host decodes with `errors="replace"` and encodes again before the CRC (`runner.py:819`, `protocol.py:59`): a flipped top bit becomes three bytes, which can have the old CRC; `protocol.h:10-11` says that the CRC lets the host reject garbled lines |
| `ReadyRunProtocol` with `SplitIsAccepted` added | `SplitIsAccepted` | each read is decoded on its own (`runner.py:819`): a read that ends inside a character makes the line fail its CRC; `runner.py:816-817` says that split markers are handled |
| `RegistryCommands` with `PhaseTwoRunsAlone` added | `PhaseTwoRunsAlone` | doctest puts `--test-case` and `--tc` in one list, so a user's `--test-case` adds its tests to phase two, each with the wake flag; `docs/design.md:198` says "runs Phase 2 only" |
| `RegistryCommands` with `Alphabet <- JoinedWithSpace` | `AsTyped` | a joined value with a space is sent unquoted (`runner.py:539`), split, and rejoined as `--tc=b=b` (`runner.h:494-502`) |
| `RegistryCommands` with `HookExclude = {2}` | `CountsMatch` | `count_passing_filters` does not see the configure hook or compile-time filters |

What the properties leave aside, because code and documents agree or say nothing:

* A filter given twice by one name: doctest takes the last, `count_passing_filters`
  both (`OneOfEach`).
* Options in a form the instances have no word for: one dash (`-tc=X`), the prefix
  `--dt-`, `--no-skip=1` or `--no-skip 1`, a joined flag with an empty value, lists with
  commas. A joined flag of the project's own (`--skip-tc=X`) is passed to doctest, which
  ignores it. `--flag=value=word` matches nothing because no test or suite of the
  instances has a name with `=`.
* The board's `ERROR` before READY (a failed `board_init`) is ignored by `feed()`:
  the session ends with `ready_timeout` 30 s later.
* An env value with a space is sent unquoted and cut there (`runner.py:520`); a
  one-word `"--env KEY=V"` overrides the two-word form; a bare pattern as program
  argument is dropped when anything else is given, and appended to the name with
  `ETST_RESUME_AFTER`. `AsTyped` enumerates none of these but the `--env` forms,
  whose order it takes as the code has it.
* Line-callback mode: even when the owner of the port calls `command_sent()`, a hang
  is noticed only when a line arrives; a failure printed after DONE is recorded and
  never reported.
* A lost RECONNECT leaves the disconnect window open for good. Phase two
  overwrites the duration of phase one. `reset()` of the tracker is never called.
* The result receiver: a Unity-like line before the first doctest mark turns the
  framework; after a drain the summary adds a result "all tests".
* A line whose CRC mark is lost is accepted as one without a CRC
  (`protocol.py:102-103`, deliberately).
* Of the wire: one damage per line and one cut of it into reads; no line end comes out
  of the damage (the line would be two); characters that Python's `strip` and `\s` take
  for blanks and C does not, at the ends of a line and before `*`; signs and blanks that
  `strtoul` takes before the digits.

## 5. Proofs

All theorems hold for every value of the constants under the modules' named
assumptions (`ProtocolAssumption`, `RegistryAssumption`, `LinkAssumption`,
`FirmwareAssumption`, `BoardAssumption`, `RunnerAssumption`, `SessionAssumption`,
`ReceiversAssumption`, `LineModeAssumption`, and so on), which only state types,
and under what a theorem's own ASSUME says.

Protocol (`LineProofs`, first part):

* `ProtocolIsSafe`: `ProtocolSpec => [](ProtocolTypeOK /\ SleepIsCounted)`. The
  conjunction is inductive as it stands: `SleepIsCounted` needs the types of the
  labels, and it speaks of the current test as well as the sleeping one because
  `FeedSleep` copies the one to the other. One step per branch of `feed()`.
* `SessionKept`: `ProtocolSpec => SessionScoped`, an action property, by cases
  over the actions without an invariant.

Board (`FirmwareProofs`), against any host:

* `FirmwareTypes`: `Spec => []FirmwareTypeOK`. `TypeInv` adds the types of what is
  in flight and accumulated (messages of the host, flags, wake flag), because
  `Prologue` computes `skip`, `env` and `todo` from them.
* `ConfigureIsOfThisCycle`: `Spec => [](WakeIsOfThisCycle /\ EnvIsOfThisCycle)`.
  Neither conjunct says that the env store is empty when a command arrives, so
  `ConfigureInv` adds it: while waiting with no READY due, the store is clear.
  `PrologueKeepsConfigure` is the heart: from a clear flag and store, a cycle
  starts with what its own command sets.

Test selection (`RegistryProofs`, and `CommandProofs` for the combined commands):

* `ResumeRunsTheRest`: a resume cycle runs exactly the tests the same flags would
  run, after the resume point, unless a flag un-skips. It rests on two lemmas:
  without an un-skip the flags only add to `m_skip` (`SkipFlagsAreMonotone`), and
  so do the env requirements (`EnvSkipsAreMonotone`).
* `CountIsExact`: `count_passing_filters` counts what doctest runs, if no filter is
  given twice by one name with different patterns and no hook excludes tests. Doctest
  takes the last of each name, short and long; that there is a last one (`LastExists`) is the one use of
  induction, by well-foundedness of `<` (`WFMin`).
* `LoopIsTheLastFlag`: `LaterFlagWins` for every list of flags. `SequentialSkip` is
  the loop of `extract_etst_flags`, one flag after the other; the property states its
  result without a loop. The loop invariant `Scanned` says the same of the first k
  flags; it holds for all k because a least k without it would have a predecessor
  with it (`WFMin` again, on the unfolded recursive function).
* `LastPatternRuns`: a `--tc` behind any flags lets run what matches it and what
  those flags let run, and nothing else if there is no `--test-case` among them: it
  replaces the user's `--tc`, and it skips nothing more for the cycles after it.
* `ResumeIsExact`, `CountsAreExact`, `PhaseTwoIsExact`: from these, the three
  properties as `RegistryCommands` states them, for every registry and every list
  of flags, through `CommandFlags` (`FlagsOfCommands`). Their assumptions on the
  state, `args \in Seq(AnyFlag)` and `after # ""`, hold in every state of the run.

Line-callback mode (`LineProofs`, second part), for any number of lines and plugins:

* `VerdictIsSingle`: `LineModeSpec => []OneVerdict`. `VerdictInv` adds that before
  a verdict there is neither a crash nor an error case, and that `finishes` counts
  the verdicts.
* `ReceiversAgree`: `WindowInv` adds the types of the counters, `TimedInv` that
  every counted label has a name; `CountedByFeed` says which label a line can add.
* `ReportIsComplete`: an action property; it needs that only `TakeLine` reaches
  FINISHED.
* `PluginsHear`: `LineModeSpec => []EveryPluginHears`, for any list of entry points.
  `HearInv` says for each plugin what it has been told so far, by its place before or
  after the one the round has reached; that a round covers everything that loads
  needs the type of the list (`AttachedType`, by induction over its length).

Result receiver (`LineProofs`, third part):

* `ResultsAreTrue`: `ResultSpec => [](OneOutcome /\ FailuresKept)`. `ResultInv` adds
  that results are of lines that were read (`OfTheOutput`); that under an open header
  there is no passed result, a failed one only while another failure is pending, and
  neither the header's line nor the pending failure's is a result yet (`Open`), so
  that what failed under a header cannot pass at its end; and that the failures
  printed are those reported and the pending one (`Reports`). Nothing is said of a
  name: under a header printed again the same name may have the other outcome
  (section 4).

Wire format (`LineProofs`, fourth part), for contents of any length:

* `GarbledIsCaught`: `WireSpec => []GarbledIsRejected`. The
  board's CRC is that of the bytes received, the host's that of the text it decoded,
  encoded again: the same bytes when they are UTF-8, and only then does
  `GarbledIsRejected` promise anything of the host. One step of the CRC is linear
  (`ShiftLinear`) and loses nothing (`ShiftInjective`: the polynomial has bit 0, so
  what fell off the end can be told), and so are the eight steps of a byte. A burst of
  up to eight bits therefore changes the CRC right behind it (`BurstIsCaught`: followed
  forward from the first byte until it reaches the top, and back from the second, what
  is left of it would have to be in two ranges of bits that do not meet), and equal
  bytes after it never make two different CRCs equal again (`PartedAll`, by induction over the
  position). `WireInv` says what a line with its mark can look like: a burst under the
  right digits, or the content under any.

Host and board together (`SessionProofs`), under any faults:

* `CountedIsReal`: `Spec => []CountedHasBegun`, if every test is in a suite
  (`TestsInSuites`) and every session after the first resets the board
  (`LaterSessionsReset`). `SessionInv` says what `CountedHasBegun` does not: the
  wire and the chunk hold no CASE:START but of tests that have begun. Between two
  sessions the wire may hold lines of the session before (`Between`), until the
  reset discards them. Without the first assumption a test is counted under the
  suite of the one before; without the second, a test of the session before may be
  counted.
* `RunnerTypes`: `Spec => []RunnerTypeOK`, from the same invariant: the name a retry
  is counted for comes from the wire, and the counter stays within
  `MAX_SLEEP_RETRIES`.

Sleep and resume rounds (`RoundProofs`):

* `RoundsInductive`: `Spec => []RoundsInv`. `NoRerun` alone says nothing of what is
  in flight, and a rerun takes several steps of both sides: a READY the host has not
  read yet, a command sent twice, a phase-two flag kept too long. The invariant says
  where each of these can be:
  * `OnceInv`, `AskedInv`, `EndedInv`, `TakenInv`: of a READY due, a READY on its way,
    a command on its way and a run under way there is exactly one (`Connected` is the
    host that takes the board to be running its command). This is what keeps a command
    from being sent again to a board that has it, although `feed()` answers READY in
    RUNNING by asking again.
  * `PlaceInv`: which of port, handle, `hpc` and protocol state occur together.
  * `HeardInv`: what is in flight comes in the order a cycle says it, and the name the
    host will resume is that of a test that sleeps (`NamedBy`: after the lines still
    to be read).
  * `HistoryInv`: while the command of a cycle has not been taken (`Untaken`), the
    history of the tests is one it was meant for (`Fresh`): nothing begun before the
    first, the sleeper asleep before phase two, nothing after the target begun before
    a resume. `RunInv`: what is still to run may run (`MayRun`).
  One lemma per kind of step and part: what the board's lines do to the lists
  (`Says`, `InOrder`, `NamedBy`), what each command selects (`ResumeRunsTheRest`,
  `LastPatternRuns`), and then the steps of the board, the host and the faults.
  A step needs only to be `Steady`: no crash, no reset, no line of the board damaged,
  and the host does not give up a test that hangs (which counts as running, for it may
  come back). Under `MildFaults` every step is; the proofs below use the step lemmas
  beyond that.
* `WakeIsPhaseTwoAlways`, `NapsAreBounded`, `NoTestTwice`: `WakeIsPhaseTwo`,
  `NapsBounded` and `NoRerun` from it. `NapsBounded` needs `RunnerTypes` as well.

What the host meant and what the board does (`ProgressProofs`):

* `ArgsReachEveryCycle`: `Spec => []ArgsReachTheCycle`. `ReadyInv` says that the
  arguments accumulated are those of the lines that have arrived and that the env
  store is clear before the first of them.
* `ProgressInductive`: `Spec => []ProgressInv`. `SkipInv` says which tests an earlier
  cycle of the same boot may have left skipped: none, or those any cycle with these
  arguments skips (`SkipOnce`), except by a resume, which is the last command of a
  session. `CountsInv` says that the counts in flight are the right ones while none
  is latched, and that one comes before any test can sleep.
* `ExpectedIsTheWhole`: `Spec => []ExpectedIsAsked`.

The verdict (`PlanProofs`):

* `PlanInductive`: `Spec => []PlanInv`. `GreenIsEarned` speaks of the last step of a
  session; why it holds was settled cycles before, by what the board had run when the
  host left the cycle, and why it left. The parts, each relying on the others at one
  place:
  * `OrderInv`: all that was asked for before a test that has begun has ended, and all
    that has not ended is still to run in this cycle, running, or behind the sleeper of
    a phase two. This is preserved when a resume selects anew (`ResumeRunsTheRest`) only
    because the cycles before it ended as they should, which is `CycleInv`.
  * `SleepInv`: the board sleeps, and the handle goes stale, only under a host that has
    read of it or has the line in its hands. Otherwise the read loop takes the lost port
    for the end of the cycle, which is the finding of `SessionLostPort`.
  * `CycleInv`: a cycle is left when what it was to run (`CycleRun`) has ended, because
    a test sleeps, or with an error case over a dead board. DONE in flight means the
    same as DONE read.
  * `EndInv`: a session ends when all has ended, or red. `NothingLeftToRun` is the
    case of a loop without a next cycle; `GiveUp` and `OpenFails` leave an error case.
  * `FailedInv`: between the board's assertion and the verdict a failure is in flight
    (`FAIL`), recorded, or an error case; `_report_test_failures` has no other way out.
* `GreenIsEarnedAlways`, `FailuresAreRed`: `GreenIsEarned` and `FailureIsRed` from it,
  and also where tests hang or crash (`BreakAssumed`). `PlanInv` does not survive that,
  but there the session takes one way only (`Story`): it is well; or the dump of a crash
  is on its way to a host that is still listening, with nothing before it but what the
  tests said, whatever the board, rebooted meanwhile, adds behind it (`CrashComing`); or
  it is red. A crash leads from the first to the second (`CrashIsSaid`), reading on to
  the third (`CrashByHost`), giving up a silent board from the first to the third
  (`TimeoutIsRed`), and no step back from there (`RedKeeps`): `_check_crash` and the
  hang report always name their case, so `_ensure_test_results` keeps it.
* `SessionImplementsPlan`: `Spec => PlanSpec`, the refinement. Initial states map to
  initial states; `PlanStep` maps each step of `Session` to `Take`, `End`, `Pass`,
  `Fail`, `Again` or a stutter. `Take` needs `OrderInv` (none left out), `End` that only
  the last test taken up ends, `Pass` all of `EndInv`, and that nothing changes after a
  green verdict that the board, having run everything, stays where it is.
* `ReasonInductive`: `Spec => []ReasonInv`, under mild faults. Every error case of the host is a claim
  about something it did not see happen, so the invariant ties what the host counts to
  the history of the board:
  * `SeenInv`: a test that has begun is counted, or its CASE:START is still to be read
    by a host that is running; and nothing is expected before counts are latched. In the
    end, with `EndInv` and `CountsInv`, as many labels are counted as were expected
    (`AllAreCounted`: labels of different names differ), so there is no under-run.
  * `RetriedInv`: a test's retries are at most its sleeps, and fewer while a sleep is
    announced and not yet answered. `GiveUp` is then one sleep more than allowed.
  * `BlamedInv`: a dead board met a fault, a failure heard is one of the board's, and
    without fault, failure or too many sleeps all cases are PASSED. A hang, a crash and
    missing tests need the steps of the board to be ruled out: those lemmas are shared
    with `PlanInductive`.
* `RedsHaveReason`: `Spec => []RedHasReason`, with no assumption on the faults:
  `RedHasReason` speaks of sessions without one, and until the first fault every step
  is steady (`Blameless`, which needs that faults are counted and never forgotten).

Their assumptions are named, and each is there because the code needs it:

| Assumption | Without it |
|---|---|
| `MildFaults`: a lost port, an oversleeping board, a damaged host line, a failed `board_init` | a board that crashes or resets in mid-cycle, or comes back from a hang the host gave up, sends READY to a host that is still in the old cycle: after an exception phase two is answered twice (`runner.py:922`), and section 4 lists the runs that fail |
| `MildFaults`, `BreakAssumed`: host lines are damaged only where no ETST:ARGS are sent | the finding of `SessionLostArgs` |
| `RoundsAssumed`: the arguments are `PlainFlag`s: no `--unskip`, `--no-skip` or `--wake`, no malformed `--env` and no `--test-case` among the arguments | the finding of `RegistryUnskip`; a user's `--test-case` adds tests to phase two (section 4); a user's `--wake` would wake every test |
| `PromptHost`, and the board does not start by itself (`~Standalone`) | `SessionPlan` with `PromptHost = FALSE` in section 4 |
| names are unique, tests are in suites | phase two and resume go by the name alone (`resume.h:82`); a test outside a suite is counted under another label |
| every session after the first resets the board | the last resume's `m_skip` is still set |
| `ProgressAssumed`: the session asks with RUN, RUN_ALL or RESUME_AFTER without flags of its own | the flags of a `RUN:` command are those of the first cycle only, by design |
| `PlanAssumed` (the verdict): mild faults without a lost port | the finding of `SessionLostPort`; a failure heard before the loss is not reported (`SessionDrops` in section 4) |
| `BreakAssumed` (the verdict, in place of `PlanAssumed`): tests may also hang and crash, in a session that has no next one | what a board that was given up still runs would count for the next session: the history starts over with the host, not with the board |
| `CountsAssumed`: no filter is given twice by one name with different patterns, no configure hook excludes tests | `count_passing_filters` counts something else (section 4) |
| `ReasonAssumed`: `CountsAssumed`, and `MaxNaps > MaxSleepRetries` | a bound of the model, not of the code: a history capped at fewer sleeps than the host allows would call no test a sleeper too many |

Model-checked only: `AsTyped` and `BuildersAgree`, which compare texts of any length
built and taken apart by recursive operators of the community modules (`FlattenSeq`,
`SelectSeq`, folds), so that every fact about them is an induction over data;
`WholeIsAccepted`, which rests on the decoding of text, a recursion over the bytes; and
the liveness properties, which are outside what the prover handles. The runs also go
beyond the theorems' assumptions: `SessionFaults` keeps `PlanSpec` and `NapsBounded`
with tests that hang and crash (not provable as it stands: with two sleepers the latched
crash detector breaks the rounds, section 4), and `SessionPlan` has a test in no suite.

## 6. Not modelled

* Robust doctest parser: one static method without state around PlatformIO's own
  parser, which is not in the repository. The suppression of lines to that parser
  during a disconnect window goes with it.
* Default main, PlatformIO glue, `pio_test_init.py`, release scripts: start-up and
  tooling, no state of the protocol.
* `_restart_device`, which nothing calls.
* Characters: globs (a pattern is the set of tests it matches), commas and quotes
  inside names, payload tokenizing, the MAX_LINE_LEN cut, numbers' formats. Only
  `WireFormat` has bytes and what UTF-8 makes of them.
* Durations and clocks as numbers: totals of disconnect windows, slow tests, the
  wrap of `millis()`. Time is in guards.
* Duplicate test names: `select_resume_after` and doctest's `--tc` compare names
  only, and no test or example of the repository has them.
* MEM and WARN lines, totals and error texts, which change no state.

## 7. Plan

Done: all of the components above. The protocol, the link, the board, the
selection, the runner and their composition with its refinement of `TestPlan` came
first, because the rest depends on them; then line-callback mode, receivers, the
result receiver, the texts of commands and the CRC. Open, in order of worth:

1. `PlanSpec` for sessions with tests that hang or crash, under the condition on
   sleepers that makes it true, and `BreakAssumed` for several sessions, which needs a
   history that starts over with the board.
2. Two suites with a test of one name in `MCSession`, with a retry counter and a
   resume point they share.
3. `disconnect.py` in orchestrated mode, if PlatformIO's parser is given a model.
