# XtremFlow: formal models of the server

XtremFlow is a self-hosted IPTV application: a Rust server (`server/src`, tokio and axum) that
records programmes, transcodes channels on demand with FFmpeg and relays an Xtream panel, and
clients in Flutter and plain JavaScript. Nearly all the state that can go wrong is in the server:
captures that run for hours on one thread while requests, timers and restarts touch the same rows
and files, and FFmpeg processes shared by viewers who come and go. This directory holds TLA+ models
of that core, the TLC configurations that check them on small instances, and proofs that TLAPS
checks for every instance.

Source paths below are relative to `server/src`.

## 1. Inventory

| Component | State it keeps | Operations | What is hard about it |
|---|---|---|---|
| Recording scheduler (`services/recording_scheduler.rs`) | `active`, `finalizing`, stop reasons, rows of `tv_recordings`, `.ts`, `.mkv` and `.remux.mkv` files | 10 s tick, orphan recovery, start, capture, closing and conversion, stop, discard, shutdown | one tick awaits between rows it read once; capture and closing tasks; crash between any two steps; slots |
| Recording decisions (`services/recording_decision.rs`) | none | what to do with a planned or an orphaned row, miss cause, retry delay | instants at the edge of a window |
| Capture of a source (`services/stream_capture.rs`) | none | open, pump with a 30 s stall limit | retries against a stop request |
| Recordings API (`api/recordings.rs`) | none of its own | create, stop, delete, season pass CRUD | read, then act on what was read |
| Season passes (`recording_scheduler.rs` 479-636) | `season_passes` rows | scan every 4 h, create and move rows | rows that start meanwhile, doubles |
| Disk rotation (`recording_scheduler.rs` 1088-1136) | none | delete the oldest finished recordings above a quota | running totals, recordings in use; off by default |
| Automatic NBA rules (`services/nba_autorec.rs`, `api/auto_rules.rs`) | rules, matches, one mutex per process | reconcile, suspend, decision, retention | awaits between reading a match and writing it back; rows deleted under a capture |
| FFmpeg sessions (`services/ffmpeg_sessions.rs`, `util/process.rs`) | registry id -> session, directories, processes | get or start, wait, kill by id, idle siblings, reap, kill all | kill by id of a session that was replaced; directory removed outside the lock; asynchronous SIGTERM |
| Provider slots (`services/upstream_slots.rs`) | slots with tokens, quota cache | register, unregister, make room, quota in the background | the end of an old process against a new registration; which streams may be cut |
| Streaming routes (`api/streaming.rs`) | turbo counter | live, film and recording playlists, segments, turbo, raw proxy | GPU and copy fallbacks; requests that share one session; clients that leave |
| GPU health (`services/gpu_fallback.rs`) | unavailable until | mark failed, available | shared by all routes |
| Guide (`api/epg.rs`, `services/xmltv.rs`), logos (`services/logo_catalog.rs`) | caches with an age, downloads in flight | serve, refresh, fall back | one download for many requests, back-off, stale rather than nothing |
| Xtream proxy (`api/proxy.rs`, `util/ssrf.rs`) | dead hosts, cached playlist | forward with retries | failures counted by concurrent requests |
| Accounts (`api/account.rs`), HTTP server (`server.rs`), database (`db.rs`) | sessions, rate limiter, SQLite behind one mutex | login, CRUD, middleware | expiry, windows, cascades |
| The rest | | artwork, calendars, clean-up by age, static files, playlists' text, probing, log masking; web player, Flutter client, Windows runner | pure input and output, or out of the server |

How they interact. The scheduler's tick, its capture tasks, the season passes, the NBA rules and the
HTTP handlers meet at the rows of `tv_recordings`; each database call holds one mutex, and nothing
holds it over two calls. A capture that plays through the server's own raw proxy also claims a
provider slot. The streaming routes share the session registry, the slots and the GPU's health; the
reaper, the release callbacks of the slots and the shutdown kill sessions by id. On SIGTERM,
`main.rs` shuts the scheduler down, kills the sessions and exits.

What makes each part correct:

- *Scheduler*: captures never exceed their limit; one task per recording's files; what was captured
  stays and can be found; an existing MKV is not overwritten; what is completed can be played; every
  recording is closed in the end and every slot freed, whatever crashes.
- *Sessions and slots*: no running FFmpeg that nobody can reach; each slot given back, and not while
  its connection is watched; room is made by cutting no more than needed, orphans only, oldest
  first; every viewer gets an answer; what nobody watches is released.
- *Rules and passes*: one reconciliation at a time; the user's answer survives it; no two recordings
  of the rule at once; two matches never share a broadcast; nothing that has started is deleted or
  moved; an episode gone through is planned or recorded. In the end a refusal is obeyed, a suspended
  rule leaves nothing waiting and a wanted match is planned.
- *Caches*: one download for the requests of the moment, whose place is freed whatever becomes of it;
  stale rather than nothing; a guide that is over never hides one that is not; a channel keeps its
  own guide and its own logo.
- *Proxy and gate*: an API call reaches the panel of its user and nothing else; no account has the
  server work more than the limits allow, an account being that of the client himself wherever a
  proxy vouches for him and his header can be read.
- *Accounts and rows*: no session outlives its user; one rule per user and playlist; a server that is
  stopped starts again.
- *Capture and rotation*: a source is reopened a bounded number of times in a span, one loop inside
  the other; the rotation spares what is captured.

## 2. Modules

| Module | What it models |
|---|---|
| `RecordingDecision` | `decide_recording_action` and `decide_orphan_action` as operators over instants |
| `RecordingScheduler` | tick, orphan recovery, start, capture, closing, conversion; `create`, `stop` and `delete`; shutdown, crash, restart, clock |
| `RecordingLifecycle` | what is promised of a recording left to the server: an abstract specification |
| `UpstreamSlots` | slots with tokens, `make_room`, quota cache and its single reading |
| `FfmpegSessions` | registry, directories and processes; what FFmpeg may do |
| `Streaming` | the requests, `kill_session` in its two steps, reaper, `register_upstream`'s tasks, GPU health, shutdown; extends the two modules above |
| `NbaPlanning` | the pure decisions of `nba_autorec.rs`: the live broadcast of a match, its window, `plan_action`, what occupies a slot |
| `NbaRules` | the automatic rule: reconciliation, suspension, retention, the handlers of `api/auto_rules.rs`, amidst users, tick and crashes |
| `SeasonPasses` | `check_season_passes`, programme by programme, amidst tick, captures and users |
| `DiskRotation` | `check_disk_space_and_rotate` inside a start, amidst captures and users |
| `CaptureLoop` | the reconnections of `run_capture` and, inside it, of `direct_proxy` |
| `SingleFlight` | what is promised of a download that many requests want: an abstract specification |
| `ChannelNames` | the keys made of a channel's name, for a guide and for the logos |
| `LogoCatalog` | `GET /api/logo`: the panel's image, the listing of a country, the match by name |
| `XmltvIndex` | parsing, merging, refreshing and reading of the XMLTV index |
| `EpgGuide` | `GET /api/epg`: cached answers, order of the sources, the shared table of channels |
| `PanelProxy` | `api/proxy.rs`: allowed host and its memory, redirections, dead hosts of images |
| `Accounts` | login with its lazy migration, logout, expiry, administration of users |
| `PlaylistRows` | playlists, the creation of a rule, the attachment of rows to playlists at a start |
| `RequestGate` | the address of a client, the two rate limits, their order, housekeeping |
| `MCRecordingScheduler`, `MCStreaming`, `MCNbaRules`, `MCServerParts` | values of the checked instances |
| `RecordingSchedulerProofs`, `RecordingFilesProofs` | scheduler: types, capacity, one writer, verdicts; files, and the refinement of `RecordingLifecycle` |
| `StreamingProofs` | sessions, slots and processes, the room a claim makes |
| `NbaRulesProofs` | the automatic rule |
| `GuideProofs`, `LogoCatalogProofs` | caches, their refinement of `SingleFlight`, names and aliases |
| `AccessProofs` | accounts, rules' rows, the panel's host, the limits |
| `RecordingRowsProofs` | rotation, season passes, reopenings of a source |

### RecordingScheduler

*State.* `status` and `path` are the columns of a row (`absent` before it is created, `deleted`
after); `ts`, `mkv` and `tmp` are the files; `active`, `finalizing` and `reason` are the scheduler's
tables. `tick` says where `run_tick` is, `planned` and `running` are the rows it read and has not
visited, `cur`, `curPath` and `resume` its local variables. `worker` says where the capture task and
the closing task of a recording are. `stopReq`, `delReq` and `delPath` are the local variables of
the handlers between two database calls. `mode` is the process. A crash, and the end of a shutdown,
reset everything but rows, files and clock (`MemoryLost`). A conversion that fails leaves its
`.remux.mkv` or removes it, according to where it fails (`RemuxFails`).

*Steps.* The grain is the code's: a step ends where the code awaits, releases a mutex, changes a
file or makes a database call that another activity could come before. `IsCapturing` looks at two
tables under two locks and is one test here: only the tick adds to `active`, and a task enters
`finalizing` before it leaves `active`, so no interleaving gives another answer. `LeaveActive` joins
the removal and the reading of the stop reason, which nobody can set any more. `DeleteBegin` joins
the reading of the row and the discarding of the capture.

*Abstraction.* `RecordingLifecycle` has three variables: the row, whether something of the recording
is on the disk, and whether its row leads to it. A recording is planned, begun, worked on and closed
once, completed only with something to play; bytes come while it is worked on and none is lost.
`Lifecycle(r)` is that specification with `status[r]`, `HasData(r)` and `FileHasData(path[r], r)`;
`LifecycleIsKept` says that the scheduler implements it for each recording in `LeftAlone`, those no
user stops or deletes. For the others it does not, and what is promised of them is stated apart
(`SchedulerVerdictIsFinal`, `CapturedDataIsKept`, `DataIsReachable`): a stop completes a row with
nothing to play, a row cancelled meanwhile is started (Findings), and a crash in the middle of a
deletion leaves a row without its files.

*Left out.* The wording of errors, logs, sidecar images, the picture embedded in an MKV, and the
bytes of a stream: a `.ts` is absent, empty or has data. What is written to a deleted file is not
seen. Windows are fixed and nothing rotates: moves are the subject of `SeasonPasses` and `NbaRules`,
rotation of `DiskRotation`, reconnections of `CaptureLoop`. An FFmpeg conversion is assumed to
return: the code puts no limit on it.

### Streaming

*State.* A session (the `Arc` of the code) is named by the process started for it, numbered in the
order of starting; `sessions[id]` is the registry, `dir[id]` says which process's directory is at
the session's path, `state` is a process's life, with `term` for a SIGTERM on its way, `out` its
playlist, `seen` the time since the last access: less than 15 s (`watched`), more (`away`), more
than the reaper's timeout (`gone`). `pc` is where each request is, `got` the session it holds,
`codec` and `error` its attempt. `toKill` and `rmdir` are what each task has to kill and the
directory it is about to remove; `snapshot` is the reaper's list; `watchers` are the tasks that wait
for a process to free its slot.

*Steps.* `kill_session` is `KillFirst` (entry and signal) and `KillSecond` (the directory, after the
mutex). The registry entry and the signal, which follow each other at once, are one step. A request
that awaits (the second after a cut, the wait for a playlist, its reading) may be dropped there
(`Abort`). Segments are asked for by anybody at any time. A process fails, hangs or runs out of GPU
whenever the constant `Faults` allows it, and always when its directory is gone. Starting a process
may fail at any time (`OpenFails`, `TurboFails`), which also is what happens when the bound
`MaxProcs` is reached. Only the requests' own kills delay them; the reaper's and the shutdown's run
beside them.

*Left out.* FFmpeg's arguments, playlist rewriting, the number of segments waited for, the raw proxy
after it has claimed its place, and what happens to child processes after the server's exit. `seen`
is not timed but a request waits at most 30 s, less than any timeout, so a session somebody waits
for does not become `gone` (`TimePasses`).

### NbaRules, over NbaPlanning

*State.* `rule` is the row of `auto_rules`, `games` the matches of `nba_games` that have a row,
`rows` the recordings; `guide` is what the sources publish and `now` the clock, in minutes. The
variables whose names start with `r` are the locals of the one reconciliation that holds the lock:
the matches it read (`rgames`), the programmes it collected, the match in hand, the recording it
read for it, what `plan_action` decided and the state it will write. `asked` are the callers that
wait for the lock, `accepting` a handler between its two calls, `seen` the tick's snapshot.

*Steps.* `ReconcileBegin` reads rule and matches under the lock; `Collect` ends the download of the
guides; `NextGame` reads the recording of a match and plans; `Realign`, `DropRow`, `CheckSlot`,
`CreateRow`, `SetSource` and `Save` are the database calls that follow, one step each, and
`SuspendGame`, `SuspendDelete` and `SuspendSave` those of `suspend_rule`. `ReconcileEnd` includes
the retention, which only the timer's round applies. Handlers take one step per call; an
acceptance checks the slot, then writes; `Answer` refuses, or takes an answer back. `AsksRefresh` is
the refresh route, whose matches come one by one by `Calendar` before it waits for a reconciliation.
`RequestDropped` is the 20 s of a decision, or a client that leaves: it can only cut where the code
awaits. `CreateFails` is a row the database does not take. `Within` is how far ahead the matches are
read: 21 days to plan, 60 for the slot of an answer, 63 to suspend. `lost` and a row's `loose` are history: a crash took a change not yet
applied; a row was moved, or started from a row read before it was cancelled.

*Left out.* Creation of the rule (in `PlaylistRows`), artwork and its repair, channel names (a
programme is on a stream or on none), the display of matches. The tick and the captures are
reduced to what they do to a row; `RecordingScheduler` has their detail.

### SeasonPasses, DiskRotation, CaptureLoop

`SeasonPasses`: `episode` are the rows, `scan` the locals of the running scan (passes left, list of
programmes, the row it found, the number created), `airs` the guide of each channel. A row is looked
up in one step (`ItemFound`, `ItemUnknown`) and moved or created in another; `ItemCreated` joins the
insertion and the column set right after it. The guide's answer is read in one step. The tick acts
on rows it has read: it starts a row (`TickStarts`) or declares it missed (`TickMisses`) by the hours
the row had then, also when it has been cancelled or moved since. A programme may be over before the
scan has come to it.

`DiskRotation`: `disk` has each row's status, path and size, `held` what `is_capturing` says,
`due` the rows the tick has read as scheduled, `rotation` the locals of the start that rotates.
Sizes are counted once, rows read after, each victim tested, its files taken, then its row. A start
is that of a row in `due`, whatever it has become, or of an orphan that is resumed with the files it
has (`OrphanResumes`); orphans are left by `ServerRestarts`, and may be closed or failed too.

`CaptureLoop`: `cap` is the loop of the capture with its failures, pause and durations, `relay` the
server's own proxy when the recording goes through it. `openings` is what the panel sees; a source
that FFmpeg reads (HLS, or not HTTP) counts as one opening per launch, since the playlists and
segments FFmpeg then fetches are its own affair. Durations
are small numbers in the same order as those of the code (stall < proxy's healthy < capture's
healthy). What is written to the file is left out.

### The guide and the logos

The three modules share `SingleFlight`: a download is started only when none runs, joined while it
does, and serves, once over, those that waited for it. The code does this three times: a task and a
shared future whose guard frees the place on drop (`LogoCatalog`, one place per country, and
`XmltvIndex`), a detached task behind two separate locks (`EpgGuide`). Each module states the
refinement with `INSTANCE SingleFlight` over its own tasks and requests, panics and clients that
leave included. In the first two the guard frees the place of a task that panics. In `EpgGuide`
nothing does (`LoadPanics`): the place stays taken and whoever asks gets an empty table, which the
refinement sees as a download that never ends and whose requests leave it.

`ChannelNames` makes a name a sequence of words and marks in small letters; the code's normal forms
glue the words, which the model does not need. It follows the code further than the properties look
(prefixes of a country in all their forms, quality, decorations), since a name is read as the code
reads it or not at all. `LogoCatalog` adds the rules of `match_logo_key`,
`XmltvIndex` those of `parse` (own keys first, then the aliases in order, never over a key that is
there), of the merge and of `lookup` with "+1" channels. `EpgGuide` takes what its sources offer as a
choice. XML, dates, base64, the encoding of images and the wording of answers are left out.

### PanelProxy, Accounts, PlaylistRows, RequestGate

`PanelProxy`: `resolves` is the host of a user's playlist, `allowCache` the memory of five minutes,
`failures` and `downUntil` the two tables of dead hosts, each under its own lock and changed in its
own step. A host is forbidden or not, as `ssrf.rs` decides by tables. `AskApi` is one step: the code
reads its memory, the playlist and writes the memory without an await.

`Accounts`: each call of the database is a step; computing or verifying a hash lies between two. A
restart loses the requests under way and makes a first administrator when there is no user.

`PlaylistRows`: the creation of a rule reads, awaits the channels and inserts; the start of a server
attaches rows without a playlist to their owner's latest one, under the unique index a former start
left, and may fail. A user chooses among his own playlists, an administrator among all.

`RequestGate`: a request is who sends it, the line it wrote in `X-Forwarded-For` and the proxies it
went through. A proxy appends the address of who spoke to it to the line it got, or (`OwnLine`) sends
a second line. The code reads the first line only, and none when a byte of it is no ASCII
(`Forwarded`, `Readable`); `ClientIp` is what it makes of that. `history` keeps the ages of what each
limiter admitted by that address, `worked` what the server did on each account. `ChargedTo` says
whose account, by who sent the request and not by how the line is read: the machine's, when it speaks
directly or a proxy joined its address to a line that can be read; the facing proxy's, when the line
cannot be read; when no proxy vouches for the line, the address it names, true or not.

## 3. Runs

| Run | Instance | Shows |
|---|---|---|
| `two_recordings` | two overlapping windows, one slot, one row a former server may have left, one crash or shutdown anywhere | capacity, one writer, each recording refines `RecordingLifecycle`, everything closes, slots are freed |
| `one_recording` | one recording, stop and delete requests, two crashes or shutdowns | types; captured data kept, reachable and not overwritten; verdicts final |
| `cancelled_then_captured` | one recording, a stop request | a counterexample, see Findings |
| `orphan_failed` | one recording, one crash | a counterexample |
| `deleted_leaves_files` | one recording, a delete request | a counterexample |
| `one_channel` | one viewer of a channel, every fault, GPU, shutdown, two processes | types; each request is answered, sessions and slots are released |
| `same_channel_twice` | two viewers of one channel, two processes, reaper | a watched connection keeps its slot through a restart under the same id |
| `two_offsets` | two viewers of one recording at two offsets | no running process is lost |
| `slots_of_an_account` | a film, a turbo stream and a direct request, quota unknown and then 2 | each slot has its watcher; room is made as promised |
| `gpu_fallback_seen` | two viewers of one channel on a full GPU | a counterexample |
| `nba_rule` | two matches, five row ids, two events anywhere, three guides, two instants | the rule: types and windows, planned apart, one match per broadcast, the user decides, only what waits is touched; a refusal and a suspension are obeyed, a wanted match is planned |
| `server_parts` | ten parts, one at a time, each with two requests or two rows | shared downloads, stale listings, logos and guides of the right channel, panel's host, sessions, rules' rows, reopenings, episodes, limits, rotation |

Bounds, and why they are enough. Two recordings are enough for a slot to be refused, for a tick to
visit one row on data that the other's start has made old, and for a start to fill the slot a
recovery counted on. The clock goes past the last window; a window of three units has instants where
an orphan is resumed and where it is closed. Two exits let a crash hit the recovery from a crash.
One viewer starts two processes at most (GPU, then CPU), so `MaxProcs` = 2 bounds nothing in
`one_channel`; with two viewers, two processes are a session and the one that replaces it, and
further starts fail as on an exhausted server. Requests are one-shot: a player that asks again is
`Segment` for a live session and another request otherwise. `Crash` is bounded by `MaxExits`, user
requests by `StopRecs` and `DeleteRecs` and faults by `Faults`. Deadlock is checked except in
`one_channel`, where the server may exit for good, and in the two runs below, whose bounds run out.

`nba_rule`: the guides are both matches, a first broadcast that grows into the slot of the second,
and a programme of the NBA that names no team; the calendar may bring the second match within the
hour of the first; a user may plan a recording across both windows. An event is an answer or its withdrawal, a refresh, a
change or the deletion of the rule, a recording planned, stopped or deleted, a new guide or kick-off,
a failed download or insertion, a request dropped, a crash: two of them, at any two points, contain each race of two
actors with the reconciliation. Five ids let the two matches be recorded, replanned and meet a
user's recording without an id being used again while something refers to it.

`server_parts`: the parts share no state, so one run explores them one after the other (`part` is
chosen at the start, the others stand still) and never as a product. Two requests are what a shared
download, a lock released between two calls or a race with a deletion needs; a third playlist is
what the latest one needs to differ from the former two. A request reaches the gate directly, by a
proxy that sends its own line, or by one that appends before it, under no line, one that names
somebody else, one that is no address or one that cannot be read. Delays are one or two units, in the
order of the code's, and the clock goes past each. The run states safety only, so it has no fairness
and uses the symmetry of its two requests.

Fairness. tokio keeps every task going: weak fairness of the tick, of each capture, closing and
handler task, of each streaming request, of the reaper, of the tasks that wait for a process and of
pending kills. The clock advances, a stopped server is restarted (the container's restart policy),
FFmpeg dies of SIGTERM and writes unless a fault prevents it, and a turbo body ends with its
process. In `nba_rule`, the reconciliation goes on once begun, the timer's round and the one a
change of the rule has spawned begin in the end (the lock is first come, first served, and the timer
repeats), and an acceptance whose slot was found free is written. Users, faults, crashes, bytes from
a source and the panel's answers have no fairness.

`SessionsAreReleased` allows for sessions watched again and again, and for the server's exit;
`EveryRecordingCloses` is checked without stops and deletions (`two_recordings` has none): what it
shows is that the server closes what it began, whatever crashes and whatever slots are taken.
`SlotsAreFreed` and `LifecycleIsKept` are checked in the same run; for `LifecycleIsKept` the theorem
adds stops and deletions of the other recordings.

## 4. Proofs

TLAPS proves, for any values of the constants that satisfy the assumptions stated with them:

| Theorem | Module | States |
|---|---|---|
| `TypeCorrect` | `RecordingSchedulerProofs` | `Spec => []TypeOK` |
| `CapacityHolds` | | never more than `MaxConcurrent` active captures |
| `OneWriterHolds` | | capture and closing tasks never share a recording |
| `VerdictHolds` | | what the scheduler has closed is not reopened |
| `DataIsReachableHolds` | `RecordingFilesProofs` | a row whose recording has data names a file |
| `MkvHolds` | | a conversion never has an existing MKV as its output |
| `CapturedDataHolds` | | captured data stays while its row does and nobody deletes it |
| `PlayableHolds`, `CompletedHolds` | | what nobody stops or deletes is completed only with its file there |
| `LifecycleHolds` | | what nobody stops or deletes implements `RecordingLifecycle` |
| `StreamingTypes` | `StreamingProofs` | types; who registers, waits or reads holds a process |
| `SlotsAreWatched` | | each slot taken has a task that waits for its process |
| `WatchedSlotIsKept` | | the slot of a connection that is watched is kept |
| `ClaimsMakeRoom` | | a claim leaves room for one, cuts none too many, and the oldest first |
| `ProcessesAreReached` | | no running FFmpeg that nobody can reach |
| `NbaTypesHold` | `NbaRulesProofs` | types; every window ends after it starts |
| `BroadcastsAreNotShared` | | two matches never claim one broadcast |
| `AnswersAreKept` | | a reconciliation never undoes an answer |
| `RecordingsArePlannedApart` | | the rule never plans two recordings at once |
| `OnlyTheWaitingIsTouched` | | nothing that had started is deleted or moved |
| `CurrentGuide` | `GuideProofs` | a guide that is over never hides one that is not |
| `TableFlight`, `RefreshFlight` | | the table of channels and the XMLTV refresh implement `SingleFlight` |
| `OwnGuide` | | an alias never hides the guide a channel has of its own |
| `ListingFlight` | `LogoCatalogProofs` | the listings of each country implement `SingleFlight` |
| `KnownServes` | | who came when a listing was known is not told that there is none |
| `LogosNameTheirChannel` | | the logo shown has the name of the channel, a longer one, or its brand |
| `SessionsOwned` | `AccessProofs` | no session outlives its user |
| `OneRule`, `FailedStart` | | one rule per user and playlist; a start fails in one case only |
| `PanelOnly` | | an API call only reaches the panel of its user |
| `WithinTheLimits`, `QueuesInOrder` | | no account gets more than the limit in any window; queues are oldest first |
| `CapturesSpared` | `RecordingRowsProofs` | the rotation spares what is captured |
| `EpisodesCovered` | | what a scan has gone through is planned or recorded |
| `SourceSpared` | | no more than `MostOpenings` openings of a source in any `Span` |

Assumptions: those stated with the constants, and nothing else. Most say that a "none" value is none
of the real ones (`ProcsAssumption`, `RequestsAssumption`, `RowsAssumption`, `DiskAssumption`...), or
that numbers are numbers and names are sequences of words (`XmlAssumption`, `LogoAssumption`; every
name has a country, and `live` is no number). These say more:

- `Start < End`, which the API enforces;
- a match has two teams of its own (`GamesAssumption`);
- a title comes back on one channel later than the tolerance (`GuideAssumption`; two showings of one
  title less than four minutes apart would be taken for one, by design);
- `GateAssumption`: the operator's proxies and the server itself are no clients (`Machines` has
  nothing in common with `Trusted` and `Loopback`), and what an address did is remembered for a window
  at least, as both limiters do. Which proxies append and which send a line of their own is free;
- `CaptureAssumption`: the proxy's pause is positive, no longer than the first delay of the capture,
  which is at most one more than what the proxy takes for healthy, and
  `Span <= RetryUnit + ProxyRetries * ProxyPause`. The delays of the code (3 s and 1 s, four
  retries) give five openings in any seven seconds; a longer span would not hold.

The argument. Hardly any of the invariants is inductive alone.

- *Capacity* needs that a slot is free all through a start (`CapacityInv`): the tick counts
  captures, awaits, then adds one; meanwhile captures only leave.
- *One writer* (`WriterInv`) says which table a task's place implies. The heart is the order in
  `end_capture`: `finalizing` is entered before `active` is left, so a row whose task is anywhere
  between the start and the final status is in one of them, and the tick, which tests both when it
  visits a row and again in `recover_orphan`, cannot take it. That a row read `scheduled` may be
  started without reading it again is safe in this respect only because a planned row of the
  snapshot has no task (a conjunct of `WriterInv`): only the tick starts tasks, and it visits each
  row once.
- *Verdicts* (`VerdictInv`): a closed recording is in no `planned` list, and `recover_orphan` reads
  the row again.
- *Files* (`ReachInv`, `KeepInv`, over `WriterInv`): the path is stored before the task that creates
  the file runs; a fresh start, which removes a left-over `.ts`, finds none; a `.ts` is removed only
  once its MKV is in place, or under a deletion.
- *Completed* (`PlayableInv`, over `WriterInv`): of a recording left alone, a task that is past
  `close` has its `.ts`, past the rename its `.mkv`; a row is `recording` as long as a task, a start
  or a decision of the tick is about it, and none is left when it is closed. The path the tick judges
  by is then still the row's. With `KeepInv` every step is one of the lifecycle's or unseen
  (`LifeTick`, `LifeWorker`, `LifeRest`), which is `LifecycleHolds`. The stops matter: a stop request
  that has read `recording` writes `completed` whatever the capture has become.
- *Streaming* (`StreamingInv`, in three parts). `SessionsInv`: an id leads to a process started for
  it, and so does what the reaper has listed. `SlotsInv`: tokens of waiting tasks are unique, so the
  task that holds one is the only one that can give that slot back; this is what makes the late end
  of a replaced process harmless. `ReqsInv`: where a request is tells what it holds.
  `NoProcessIsLost` is inductive over it, because the registry loses an id only in a step that also
  signals its process, or when the process has exited, and a turbo process is held by the body of its
  response.
- *Room* (`ClaimsMakeRoom`). Slots have tokens that differ, so their ranks make the set to cut exactly
  the lowest ones (`Ranks`, `LowestFirst`), and its size is what exceeds the quota less one
  (`AtMost`, `AtLeast`); a claim changes no other slot (`OnlyItsClaim`).
- *Rules* (`NbaInv`): types, with what the reconciliation has in hand: the recording read for the
  match, and an action `plan_action` may decide for it. `AnswersAreKept` follows since the only
  writes of the reconciliation leave the decision out. `ApartInv` adds that a slot found free stays
  free of the rule's recordings until the new row is signed: every other step is `Calm`, it adds
  users' rows only and moves none. `GoneInv`: a suspended match whose row is gone leaves nothing to
  delete, as no id is used again while it is referred to. `BroadcastsAreNotShared` is arithmetic: a
  programme that names no team is taken within 20 minutes of a kick-off with no other within an
  hour.
- *Downloads*: the place in flight is that of the one task under way (`Placed`, `FlightInv`), so the
  refinement maps each step to one of `SingleFlight` or to a stutter.
- *Guide* (`AnswerInv`): until an answer is stored all that was offered is over; then what is not is
  in it, and time only takes away.
- *Own guide* (`OwnInv`): the index a refresh merges holds, under each identifier of the first dump
  read, the programmes that dump gave it. `parse` keeps own keys first and an alias only where there
  is nothing (`Aliases`, `AliasedKeeps`, `ParseKeeps`); a merge only adds keys.
- *Names of logos* (`NamedInv`). What `match_logo_key` accepts is the name, an extension of two words
  at least, or the brand left when a number is dropped (`MatchIsNamed`).
- *Known listings* (`LogoInv`): nothing comes from a task only when nothing is known as it ends.
- *Access*: `create_session` finds its user or is refused, and a deletion takes the sessions in the
  same call (`AccInv`); the unique index refuses a double (`RowInv`); what the memory of a host holds
  was the playlist's host less than its lifetime before (`CacheInv`, `CallsInv` over the history).
- *Limits* (`GateInv`): a line that can be read is read from its end, through the operator's proxies
  only, so if a proxy joined the address of the machine to it, the queue consulted is that of the
  machine; if the line cannot be read it is the facing proxy's. In all cases the queue consulted is
  that of the account (`ClientIp(q) = ChargedTo(q)`), and what the server did on an account is that
  queue, so at most `limit` of it is younger than a window. This is all the code guarantees: a machine
  behind a proxy may use, beside its own limit, the one that unreadable lines share.
- *Sources* (`CapInv`): the openings of the last `Span` are counted by where the proxy is in its
  retries, and two openings are a pause apart.
- *Rows*: the rotation's victim was not captured when taken, and a capture begins only when there is
  no victim, as one start does both (`DiskInv`). Each programme a scan has gone through has a row
  that covers it, the row about to be moved covers the programme in hand, and two showings of a
  title are too far apart for one row to cover both, so no move uncovers another (`PassInv`).

The proofs have one step per action and, below it, one per conjunct the action touches.

Recursive functions. The prover has no induction scheme it can instantiate here, so what a recursive
function computes is proved by the least counterexample: `WFMin` (or the least element of a set of
naturals) gives the first length at which the claim fails, and the step refutes it (`Least`,
`Reached`, `Recursion` in `GuideProofs`; the lemmas on filters in `LogoCatalogProofs`). That such a
function exists has to be proved in the same way. `SelectSeq`, `@@` and `:>` are closed to the
provers: the models filter with `Without`, a recursive function of `ChannelNames`, and write the
index of `XmltvIndex` as a function over its keys.

What the proofs taught of the models. The property of the logos had been stated too strongly: it was
false of a catalogue in which a key longer than the name holds the word `live`, of which no checked
instance had one. It now says what the code does (a key may extend the name with or without that
word, and only a final number is dropped), and the checked catalogues have that case. Reopenings had been
checked for one choice of delays; `CaptureAssumption` is what the proof needs of them. The limiter's
headers and routes are constants now (`Written`, `Paths`), whatever their length. And completion was
checked only where nobody stops anything: the proof shows that it is enough that nobody stops or
deletes the recording itself.

Model-checked only: liveness, which TLAPS cannot prove (no fairness, no ENABLED):
`EveryRecordingCloses`, `SlotsAreFreed`, `EveryRequestIsAnswered`, `SessionsAreReleased`,
`RefusalIsObeyed`, `SuspensionIsObeyed`, `WantedIsPlanned`. Every other property of a passing run is a
theorem.

No module uses RECURSIVE operators.

## 5. Findings

The counterexample runs show where the code does not keep what a comment or the change log says.

1. *A cancelled recording is captured* (`cancelled_then_captured`). The tick starts a row it read as
   `scheduled` without reading it again. A stop request in between cancels the row; the start sets
   it back to `recording`. `CHANGELOG.md:67` promises that stopping a planned recording cancels it.
   (`recover_orphan` does read its row again.)
2. *A complete recording is marked failed* (`orphan_failed`). After the conversion the MKV is
   renamed, the `.ts` deleted, then the row updated. A crash before the update leaves a path to the
   deleted `.ts`; the next start finds no data there and fails the recording although the MKV lies
   beside it. `OrphanAction::Fail` is documented as "nothing usable was captured".
3. *Deleting leaves files* (`deleted_leaves_files`). A deletion during the start of the capture, or
   before the output of a conversion exists, does not see them; the files stay with no row.
4. *The GPU fallback is noticed* (`gpu_fallback_seen`). It kills by id; if another viewer has
   already restarted the session, that one is killed and the other viewer is answered 502.

Seen while reading, or established by a property that says exactly when it happens:

- *Start-up.* A rule made without a playlist and another for what is now the latest playlist of the
  same user: attaching the first breaks the unique index and the server no longer starts
  (`db.rs:393`). `StartFailsOnlyOn` shows that it is the only case.
- *Channel table.* A load that panics leaves its place taken (`api/epg.rs:475-491` has no guard), and
  the shared future gives an empty table from then on, until the server starts again.
- *Guide.* A dump that is read and holds no programme counts as a success: alone, it replaces the
  index by an empty one until the next refresh (`services/xmltv.rs:681`).
- *Accounts.* The lazy migration of a password writes the one just verified: an administrator's
  change made meanwhile is overwritten (`db.rs:489`). Two administrators may delete each other.
- *Dead hosts.* A failure and a success lock their two tables one after the other: a success that
  falls in between leaves a host held dead that has just answered (`api/proxy.rs:84-101`).
- *Rows.* `find_recording_for_episode` regards neither user nor channel. A cancelled or failed
  episode is planned again by the next scan. A programme that moves by more than two minutes is
  planned twice. `update_recording_window` (`db.rs:842`) moves a row whatever it has become.
- *Rotation.* The total is counted once (`services/recording_scheduler.rs:1112`): files that users
  delete meanwhile are not deducted, and more is deleted than needed.
- *Conversion.* It has no time limit (`services/recording_scheduler.rs:1257`).
- *Addresses.* Behind a proxy that is not in `TRUSTED_PROXIES` all clients share one address, thus
  one limit. A line of `X-Forwarded-For` with a byte that is no ASCII is as if absent
  (`http.rs:34-36`): the request is judged by the proxy's address, thus by a second limit, which all
  who write such lines share. And only the first line is read: behind proxies that all send a line of
  their own instead of appending, the client's own line comes first and is believed, although
  `http.rs:206-208` says that what the client wrote on the left is ignored.
- *Shutdown.* `main.rs:215-217` says a graceful stop closes recordings in the database, while the
  code leaves them `recording`, to be resumed at the next start. Between `kill_all` and the exit,
  200 ms later, requests are still served.
- *Sessions.* `kill_session` removes its directory after it has released the registry, so a session
  restarted in between loses its own; a session restarted by a request that had not expected to
  start one has no slot.

## 6. Not modelled, and what is left

Not modelled, because there is no state or protocol in it a model would say more of than the code:
the syntax of XMLTV, guides, playlists and dates; artwork and calendars; the beIN guide's matching
of names; clean-up of temporary files by age; static files; rewriting of playlists' text;
administration reports, masking of logs, probing; the arguments of FFmpeg; the address tables of
`ssrf.rs`. The web player, the Flutter client and the Windows runner are programs of their own, that
the models see as requests that come, leave and come again at any moment.

Left for later work:

1. `SeasonPasses`, `NbaRules` and `DiskRotation` seen as implementations of `RecordingLifecycle` too,
   which would state that their four views of a row agree.
2. The connections of an account counted against its quota across requests that make room at the
   same time: the code makes no promise there yet.
3. The text of a miss cause, and the stop reason that a crash forgets.
