# Verification of the xteink-x4-os reader firmware

TLA+ models of the parts of this repository in which order, interruption and
failure decide whether the device works: the records it keeps on the SD card,
the cache of a book and the section of it in memory, the firmware update, the
three cooperating tasks that make up the reader, the refreshes of the e-ink
panel, the wireless session and the stream of books from a browser to the card.
TLC checks the models on small instances; TLAPS proves for all instances what
matters most about the card records, the firmware update, the reader's tasks, the
book cache, the panel, the wireless session and the upload stream.

    tlc -workers 2 -config ReaderShell.cfg ReaderShellMC.tla     # any run below
    tlapm DurableRecordProofs.tla                                # the proofs
    tlapm OtaUpdateProofs.tla
    tlapm ReaderShellProofs.tla                                  # some minutes
    tlapm BookPagesProofs.tla
    tlapm BookCacheProofs.tla
    tlapm PanelRefreshProofs.tla                                 # some minutes
    tlapm UploadSessionProofs.tla
    tlapm SyncSessionProofs.tla

`PROJECT.json` lists the runs, the lines each definition models, one faulty
variant per property that the property must reject, the known disagreements
between code and documentation, and the hazards the properties aim at.

## 1. The system

The firmware (`fw/`) runs on one ESP32-C3 core. Five embassy tasks share one
cooperative executor (a second executor at higher priority runs only the input
task, `fw/src/main.rs`), and talk through bounded channels:

    input --INPUT_EVENTS(8)--> app --DISPLAY_COMMANDS(4)--> display (panel + SD)
                               app --STORAGE_COMMANDS(4)--> display
             app <--DISPLAY_EVENTS(16), LIBRARY_EVENTS(8)-- display
    app, display --POWER_EVENTS(4)--> power --DISPLAY_COMMANDS--> display
    wifi <--chunk channels, loans--> display

| Component | State | Operations | What makes it correct |
|---|---|---|---|
| Durable records (`reader_cache_files.rs`) | two generation files and a legacy file per record | write, read, delete | an acknowledged record survives a power cut; the newest copy is the one read |
| Firmware update (`ota_update.rs`, `proto/src/ota.rs`) | otadata, two app slots, FWPEND.BIN, FWUPDATE.BIN | recovery combo, mark valid, validate, copy, consume, switch, stage | only complete images are booted; the running slot is not touched; one attempt per request |
| App task and reducer (`app.rs`, `app-core`) | `ReaderState`, flags of the paint, the opening and the held storage command | key, display event, library event | one paint in flight, the latest state is shown, input is not locked out |
| Display task (`display.rs`) | panel, `RefreshPlanner`, `ReaderStore`, held progress | render, sleep, open, extend, chapters, jump, catalog, progress | stale requests are skipped, places are not lost, every command is answered |
| Power task (`power.rs`) | idle deadline | idle timeout, power key, sleep handshake | the power goes only when panel and card are safe |
| Input task (`input.rs`) | debounce counters | sample, emit | one event per press |
| Wi-Fi task, sync session (`wifi.rs`, `sync_mem.rs`, Wireless view of `app-core`) | who has the scratch memory, the session, the saved network on card and screen | ask for the loan, join, portal, save, forget, retry, exit by reset | the lent memory has one owner; a session left is reset; saved means stored; no screen lasts for good |
| Upload session (`sd_session.rs`, `upload.rs`) | two chunk buffers, open file | begin, chunk, finish, abort, delete, stop | no buffer lost, no deadlock, no half file kept |
| Book cache and sections (`reader_cache.rs`, `reader_cache_files.rs`, `reader_store.rs`, `reader_layout.rs`) | files of a book on the card; section, page counts, chapter list and map in memory | build, load, lay out anew, turn, list, jump, resume, sweep | the page drawn is the page asked for; the chapter map is the book's; a jump lands |
| Library catalog (`library_sd.rs`, `catalog.rs`) | snapshot, window, active entry | scan, page, sort | an index names the same book on both sides |
| Refresh planner (`app-core`) and panel drivers (`display_flush`, `display/src/epd`) | fast-refresh count, last request, screen on; previous frame, staged plane; the controller's RAM and power | plan, record; init, flush, prestage, sleep | a fast refresh diffs against what the panel shows; ghosting bounded; the controller's protocol is kept |
| Parsers, fonts, drawing, host tools | - | - | outside this project, section 8 |

Tasks interact by the channels above, by the id of the newest request
(`LATEST_READER_REQUEST_ID`, written by the app, read by the display), by the
card and by the reset that ends deep sleep, Wi-Fi and updates.

Hard behaviours: a key can arrive before, during and after any refresh; some
sends drop when full, some evict the oldest event, some wait; display commands
overtake storage commands; opening a book, resuming its place and storing the
place are three commands of one key press; one text buffer holds a section or the
chapter list; the files of a cache are written in place one by one; the radio
takes memory the reader may still want; the power can go at any moment; the
card, the panel and the radio can fail at each call.

## 2. Modules

| Module | Models | Lines of the source |
|---|---|---|
| `RecordRegister` | what a durable record promises: an atomic register that keeps its last acknowledged value | abstract |
| `DurableRecord` | the two-generation files behind that promise, one card operation per step | `reader_cache_files.rs` 35-166, 307-391, 473-501 |
| `DurableRecordProofs` | theorems about `DurableRecord` | |
| `OtaUpdate` | a boot from the bootloader to the reader, and what user and power do to it | `ota_update.rs`, `proto/src/ota.rs`, `main.rs` 201-217 |
| `BookCache` | the files of the book caches, the store and the commands that read, build and jump | `reader_cache.rs` 180-327, 601-735, 881-1160, 1614-1712, `reader_cache_files.rs` 601-735, 945-1490, 1674-1716, `reader_store.rs` 416-424, 605-708, 869-907, 1092-1107, `reader_layout.rs` 18-85, `display.rs` 577-794 |
| `PanelRefresh` | planner, display task and driver down to the commands of the controller | `app-core/src/lib.rs` 144-275, `display.rs` 60-378, `display_flush/`, `display/src/epd/` |
| `ReaderShell` | app, display and power task and their channels | `app.rs`, `app-core/src/lib.rs`, `display.rs`, `power.rs`, `input.rs` `emit`, `reader_cache.rs` 329-358 |
| `SyncSession` | the Wireless screen, the Wi-Fi task up to the book server, the loan and the credentials | `wifi.rs` 60-186, 540-594, 687-713, 865-943, `app-core/src/lib.rs` 298-420, 547-598, 696-733, 875-920, 1143-1178, 1308-1352, `app.rs` 18-300, 472-620, `display.rs` 481-703, 799-823, `reader_cache.rs` 131-175, 427-457 |
| `UploadSession` | uploads and removals: the Wi-Fi task's server and exit, the display task's session | `wifi.rs` 175-186, 268-499, `sd_session.rs` 421-797, `upload.rs`, `display.rs` 339-345 |
| `OtaUpdateProofs`, `PanelRefreshProofs`, `ReaderShellProofs`, `SyncSessionProofs`, `UploadSessionProofs` | theorems about the module each is named for | |
| `BookPagesProofs` | theorems about the pagination of `BookCache`: its texts, sections and pages | |
| `BookCacheProofs` | theorems about `BookCache`, on top of `BookPagesProofs` | |
| `DurableRecordMC`, `OtaUpdateMC`, `BookCacheMC`, `PanelRefreshMC`, `ReaderShellMC`, `SyncSessionMC`, `UploadSessionMC` | constants for TLC | |

### DurableRecord

`slot[i]` is a generation file: a record, or `Unreadable` for everything
`read_generation_file` rejects (absent, truncated, torn, bad checksum).
`StartWrite`, `Truncate`, `WriteRecord` and `Verify` are the four phases of
`write_two_generation`; `StartDelete` ... `EndDelete` is `delete_wifi_file`,
which only the Wi-Fi record has (`CanDelete`). Each card operation may fail
before or after its effect. `PowerCut` abandons the call. Generations count
modulo `2 * HalfGen`, so the wrap of the 32-bit counter is inside the model.
`allowed` is history: the values a read may return after a power cut now.

`BadReads` names the sets of files a writer's first look may fail to read
although they hold a good copy. A writer that misses the newest file overwrites
it, or starts again from generation 1; the record may then go back to any copy
on the card until a later write sees them all. `plan.misled` marks such a write
and `allowed` then takes in every copy: the promise of the abstract register is
as weak as the code makes it there, and as strong as "the last acknowledged
value" everywhere else. With that the module implements `RecordRegister` for
any `BadReads`.

### OtaUpdate

`pc` walks through `main` and `apply_pending_update`: `recovery`, `mark`,
`update`, `validate`, `eraseSlot`, `copyHead`, `copyRest`, `consume`, `switch`,
with `cleanup` for every failed attempt and `eraseEntry`/`writeEntry` for the
two flash operations of `write_select_entry`, whose three callers differ in
what they do next. An image is complete, `Partial` (its first block is
written) or `Empty`. The bootloader is external: `plain` starts the entry with
the highest sequence number, `rollback` also puts a new entry on trial and
gives up one that is still pending. The reader itself is the step `app`, from
which the user may stage a file, edit the card or cut the power. Card errors,
flash faults and the combo are always possible; `mishaps` is history and
records that the combo was used (`"recovery"`) or that marking the running slot
valid failed between its erase and its write (`"mark"`), after which the code
itself can no longer promise some of the properties.

### BookCache

A book is a number of lines per chapter and type size, a layout a size and a
spacing; `Rows` says how many lines a page takes. `Texts` cuts the chapters of
a book into sections as `flush_section` does (a full buffer ends on a whole
page, the last page is carried over, no more than `MaxSections`), `Sections`
gives them pages, and `SectionFor`, `ChapterStart` and `PageOf` are the store's
lookups. `Leftover` names a section in memory that another spacing of the same
type size would have in that place, `Mixed` a file of that kind on the card. `card` holds per book an index (`BOOK.BIN`: the layout it was written
under, `Absent` or `Torn`), section files (with the lines they hold) and the
chapter list (`TOC.BIN`). `store` is the part of `ReaderStore` that a page on
the screen depends on, including `holdsToc` and the chapter map.

The chapter map is read in place, batch by batch: `map` is its token, `rows` the
editions (book and layout) its entries are from, and a list that ends early or
cannot be read leaves some of each under the old token (`ReadPart`, with `unread`
as history).

`ServePage`, `ServeChapters` and `ServeJump` are the display task's commands:
answered from memory (`Covers`), from the card (`Load`, `LoadSection`,
`Accepts`, and `Ready`: `WriteBack` and `Track` or `TrackFails`), or by a build, which is a `job` that writes
one file per step: `BuildToc`, `BuildSection`, `BuildIndex`, `PublishBook`, or
`BuildFails`. The display task does nothing else meanwhile, so a build meets
only failing operations and `PowerCut`. `Read`, `Open` (a choice in the library
resumes), `NextPage`, `PreviousPage`, `OpenChapters`, `BackToReading`,
`PickChapter`, `GoHome` and `SetLayout` are the keys; how they travel and get
lost is in `ReaderShell`, here the newest command is served. `Answer` is the
`Loaded` event and the `Restored` that follows a resume or a jump.

Abstractions: a write that fails or is cut leaves the file as it was, absent or
`Torn`; a build takes everything from the book, so an EPUB that cannot be read
on is `BuildFails`; a section is never partial on its own (`section_partial`
marks what the end of a stopped build left); the list window covers the whole
list; one list entry per chapter.

### PanelRefresh

`planner` is `RefreshPlanner`, `prev`, `staged` and `powered` what the driver
believes (`prev_fb`, `prev_prestaged`, `SCREEN_POWERED`), `chip` the controller
of the emulator's panel models: two RAM planes, what the panel shows, set-up,
pump, sleep. `StartRender`, `StartPlate` and `StartSleep` begin a job and
`FlushSteps`, `PrestageSteps`, `SleepSteps` give the commands it sends, which
differ between the two controllers (`SsdFlush`, `UcFlush`). `Send` executes one
command; `Fail` is one that fails, before or after its effect; `EndInit`,
`EndRender`, `EndPrestage`, `EndPlate`, `EndSleepFrame` and `EndSleepPanel` are
what the display task does when the driver returns, `FailJob` when it returns
an error; `ColdBoot` is the loss of power. A picture is the view and page drawn,
a plate, white, the sleep image or `Ghost`, anything else. `since`, `upset` and
`streak` are history.

### ReaderShell

One action is one turn of a task's loop, from one wait to the next, because
the executor is cooperative: `cpu` holds the task that still has ready input.
Keys arrive between any two actions (`Press`), as the input task preempts.

* App: `PowerKey`, `AppKey`, `AppDisplayEvent`, `AppLibraryEvent`, and `Resume`
  when a send that had to wait goes on. The order of the branches is the order
  of the arms of the `select`. `app` holds the task's flags under short names:
  `rendering`, `again` (`render_pending`), `pending` (`pending_storage`),
  `opening`, `suppress`, `block` (`block_confirm_until`), `boot`, `listed`.
  `KindFor` and `CommandFor` are `storage_command_for_transition`.
* Display: `StartRender`/`FinishRender`, `StartSleep`/`FinishSleep`, and
  `TakeStorage` with `FinishPlate` in between when a loading plate is drawn.
  `HandleStorage` has a disjunct per command. `store` keeps which book's section
  is loaded and which catalog entries are resident, since a place is written to
  the book only when its entry is.
* Power: `PowerAwake`, `IdleExpires`, `Ask`, `Handshake`; deep sleep is the state
  `"off"`, which only `Wake` (a reset) leaves.

Abstractions: a book's chapters coincide with its pages; a library command that
needs the entry of a book always finds it; a page in the loaded section and a
page outside it differ in whether a plate may be drawn; time appears only as
"may or may not have passed" (the 15 s of the progress writer, the 700 ms of
`block_confirm_until`, the idle timer). `turned`, `dropped` and `app.orphaned` are
history.

`Users` are patterns of use, one of which is chosen in the initial state: which
keys come and when (`typing`: at any time, after the first paint, or
`"patient"`, when every task is at rest), how many prompts, which operations
fail, what is on the card, and the lengths of three queues. `ReaderShellMC`
names them: `Hasty` and `Bookworm` (run `ReaderShell`), `Typist` and `Sleeper`
(`ReaderLive`), and one for each run that expects a violation.

### SyncSession

Three tasks and a browser. App: `Key` on the Home, Wireless and Reading views,
`Settled`, `SendHeld`, `TakeLoaded`, `TakeSyncEvent`; `SyncCommandFor` and
`StorageCommandFor` are what a change of the screen sends. A book is opened and
its pages are turned: OpenBook, ExtendSection and StoreProgress share
`STORAGE_COMMANDS` and the held place `pending_storage` with the forget, and
`Offer` is who gets a place in a queue that is full - a reader command takes the
held place from whatever has it, a progress record or a forget only when it is
free. `app.lost` is history: a forget found no place, or lost it. Display:
`Refuse` (`SyncSession::admits`), `ProbeNetwork` (which may ask for a scan of the
card), `LoanSyncMemory`, `StoreWifiCredentials`, `ForgetWifiCredentials`,
`ServePage`, which serves the newest request and claims the scratch, and
`OtherWork`, commands that only take their turn. Wi-Fi: `Begin`, `AskAgain`, `TakeLoan`, `RaisePortal`,
`AttemptEnds`, `SubmitCredentials` and `TakeResult` of the portal, `StartAgain`,
`Exit`, `UploadStopped`. `Reset` is `reset_now`: RAM starts over, the card
stays, also by `PowerCut`. `scratch` is the set of those who hold the lent
memory, so that two owners are a reachable state and not a type error.

`UploadSession` is what `serving` stands for, `DurableRecord` what a write of
the credentials is, `ReaderShell` the other screens. The chapter list, the
settings' own render and a display that reports a failure (`DisplayEvent::Failed`)
are left to `ReaderShell`: LoadChapters, JumpChapter and the ExtendSection of a
new layout take the way of the ExtendSection modelled here.

### UploadSession

Two tasks and a user. The Wi-Fi task has two loops side by side:
`upload_server` (`Accept`, `AskForSession`, and `stream_book`'s `SendBegin`,
`TakeBuffer`, `ReadBody`, `SendChunk`, `SendEmpty`, `TakeResult`) and
`exit_after_uploads` (`ServeExit`, `Reset`). The display task runs
`upload_session`: `EnterSession` with one of three outcomes of its set-up -
`open`; `refusing` when card, volume or root cannot be opened; `missing` when
there is no BOOKS directory and none can be made - and then `RefuseRequest`,
`RemoveBook`, `OpenBook`, `TakeChunk`, `Recycle`, `SendResult`, ended by
`StopSession` or `SleepSession`. Each action is what a task does between two
awaits; the guard of a receive or a send is the state of its channel, and the
fixed order in which `select` polls is in `Listening`, `~stop` and `SleepHeard`.

`pool`, `hand`, `chunks`, `held` and `returns` are the places a lent buffer can
be. `data` is what a buffer holds, so that a book on the card shows which bytes
were written and when. `shelf` is the card: a book is absent, `old` (there
before), `new`, `unflushed` (its close failed, which the code ignores) or
`leftover` (a removal that failed). Every card operation and every read of the
connection may fail. Names are reduced to "taken or not"
(`resolve_upload_target`), the location flag of a removal is left out, and
renders, which the session receives and drops, change nothing here.

## 3. Runs

| Run | Checks | Instance | States |
|---|---|---|---|
| `DurableRecord` | `TypeOK`, `SurvivesPowerCut`, `ImplementsRegister` | 3 values, 4 generations, deletes, any bad read | 44 k |
| `OtaUpdate` | `TypeOK`, `BootsCompleteImage`, `AttemptIsRequested`, `RunningSlotUntouched`, `EntrySelectsIntended` | 2 images, 1 file, both bootloaders, sequence numbers to 4, all faults, combo | 2.8 M |
| `BookCache` | `TypeOK`, `PageIsTrue`, `MapIsTheBooks`, `JumpLands` | 2 books, 3 layouts, buffers of 4 lines, 3 sections, resume at page 0 or 3, 1 fault or power cut | 1.7 M |
| `PanelRefresh` | `TypeOK`, `FastBase`, `BeliefIsTrue`, `ProtocolKept`, `GhostingBounded` | both controllers, 2 views, 2 pages, interval 2, 1 failing command, any number of power cuts | 1.1 M |
| `ReaderShell` | `TypeOK`, `AnswersOwed`, `TurnedKept`, `ReadingLoaded` | 2 books; `Hasty`: 3 prompts, all faults, queues of 1, 2 and 1; `Bookworm`: 6 prompts, card faults, real queues | 0.81 M |
| `ReaderLive` | `OneRenderInFlight`, `OpeningIsOver`, `LatestShown`, `HandshakeAnswered` | 1 book; `Typist`: 3 prompts, any place on the card, no sleep; `Sleeper`: 2 prompts, panel faults, real queues | 0.18 M |
| `SyncSession` | `TypeOK`, `ScratchHasOneOwner`, `SessionIsWatched`, `SavedIsStored`, `ScreenKnowsNetwork`, `ExitResets`, `KeysReturn` | 2 networks, 6 keys, 2 forms, 1 fault, 1 power cut | 0.39 M |
| `UploadSession` | `TypeOK`, `BuffersConserved`, `StreamIsDrained`, `HalfBooksAreOpen`, `ResetIsSafe`, `AnswerIsTrue`, `RequestAnswered`, `SessionIsLeft` | 1 book, 2 buffers, 2 requests of up to 3 chunks, real queues, all set-ups and faults | 0.31 M |

Four more runs expect a violation: section 5. Each run ends within three
minutes on two cores.

What they show:

* **The record files are an atomic register.** At every instant, after a power
  cut, a read returns the last acknowledged record or one attempted since - and
  after a write that could not read the newest copy, one of those on the card,
  until the next write that reads both files.
* **No interrupted update is booted**, under either bootloader; no update writes
  the slot it runs from; a request that was answered is not attempted again;
  and the arithmetic of `plan_switch` and `plan_mark_app_valid` selects what its
  caller meant, even after failed erases.
* **The app waits only for what somebody owes it** (`AnswersOwed`): a paint
  counts as in flight only while the display has it or its answer is on the
  way, and the input lock of an opening has its command or its `Loaded` event on
  the way - through stale request ids, evicted events, full queues, failed
  flushes and aborted sleeps. Two losses that need a sleep are excepted for the
  opening, section 5.
* **The handshake of the power task ends**, in deep sleep or awake, whatever the
  panel does, as long as the card can be written.
* **The upload stream keeps its buffers and its word.** No buffer is lost or in
  two places and none is left in the stream between requests; a book reported
  stored was handed to the card chunk for chunk, one reported deleted is gone;
  a half book stays only on a card that refuses to remove it; a request is answered
  from whatever step it has reached, so that server and session never wait for
  each other over a buffer, a chunk or a result (`RequestAnswered`). The done press
  and Sleep get through at any point of an upload, and the reset comes only when
  the card is at rest. Where this is not so - `Unanswerable`, the session
  without BOOKS - the properties name the case, and section 5 lists it.
* **The page on the screen is the page asked for** (`PageIsTrue`), wherever a
  build of the cache was cut short, whichever file could not be written, and
  however the layout was changed and changed back; what it excepts is in
  section 5. The chapter map is that of the book and layout shown, unless a list
  failed to be read since it was last read whole, and a jump
  lands where the chosen chapter begins although its list and that chapter's
  text share a buffer.
* **The panel shows what the firmware believes.** A fast refresh runs only over
  a plane that holds what the panel shows (`FastBase`), also after failed
  commands once an absolute refresh has gone well; the planner and the previous
  frame are true when the display task is idle; the controller gets no command
  its emulator would reject; and no more than the interval of fast refreshes
  follow each other.
* **A wireless session has one owner of its memory and an end.** The scratch is
  the reader's, in the loan channel or the radio's, never two of these; a
  session that was left has an Exit on its way and the Exit resets the device;
  the network called saved is the one on the card, and before a session the screen
  names the network the card holds, unless a forget was lost; no screen of the session and
  no key lock of a book opened beside it lasts. `Stranded` and the parked task
  are the exceptions, section 5.
* **Reading**: at rest, on a device that stays awake, the section loaded is that
  of the book being read and the panel shows the page the reader is at; the last
  place is on the card or held, also after sleeps or when writes fail; books open, input unlocks, the panel catches up.

### Bounds

`user.prompts` bounds key presses, idle timeouts and wake-ups; `MaxSeq` the
otadata sequence numbers (nothing that would pass it starts). Three prompts are
enough for a key during a render, a second during the open it caused and a
third behind it; six patient ones for two books, a switch between them and a
turn in each. `PageCount = 2` tells first from last page. `Hasty` shortens
three queues so that every full-queue path happens within the bound; the other
patterns keep the lengths of `main.rs`, except that `Typist` has a storage queue
of 2. The two event queues hold 2 in the run `ReaderShell`, so that they fill and
evict, and 16 and 8, as in `main.rs`, in `ReaderLive`. Generations wrap after 4. An upload of three chunks is one more than
there are buffers, so every buffer comes back and is filled again; the second
request meets what the first left behind: a book of the same name, a stream
that should be empty, a session that was ended. `Bookworm` presses a key only
when every task is at rest: `TurnedKept` and `ReadingLoaded` speak about a
reader who waits, and section 5 says what quick keys do.

`BookCache`: the novel's first chapter fills the buffers at each spacing of the
smaller size, and is cut there at different lines; at the larger size it takes
every section the index has room for, so the second chapter is not indexed. The
note has one section, so that switching books changes every count. One mishap
(`MaxMishaps`), a failing file operation or a power cut, reaches every file of
a cache in every state of the others.

`PanelRefresh`: an interval of 2 is the least that separates "reached" from
"passed", `MaxFaults = 1` lets one command fail anywhere in an otherwise
unbounded history of renders, plates, sleeps and restarts; views and pages are
symmetric. `SyncSession`: six keys are enough to begin a session, leave it,
begin the next and meet what the first left, or to open a book, turn a page, leave
and have the forget of a network lost behind it; `StorageCap = 1` stands for a queue whose other places
are taken, `SyncCap` and `EventCap` are the firmware's.

`CHECK_DEADLOCK` is off for the reader runs, both update runs, `SyncSession` and
`UploadSession`: a device nobody touches, that was reset or went to sleep, or
whose bounded keys or sequence numbers are used up, does stop. It stays on for
`DurableRecord`, `BookCache` and `PanelRefresh`. Waiting for each other for good
is what `SessionIsLeft`, `RequestAnswered`, `KeysReturn`, `ExitResets` and the
reader's liveness properties exclude.

### Fairness

`SF` of each task's actions: an embassy task that is woken is polled in the next
round of the run queue, the panel's BUSY wait and the card's transfers end by a
timeout, and a send that waits is served in its turn. Strong rather than weak,
because another task's turn disables a waiting one (`cpu`) again and again.
Nothing is assumed of keys, idle timeouts and waking.

`UploadSession`: `WF` of the server, of the exit loop and of the session, since
tasks that are ready are polled, reads of the connection time out (30 s) and
card operations return; `SF` of entering the session, which a queued Sleep may
delay again and again but not for good. Browser, done press and power key owe
nothing.

`SyncSession`: `WF` of each task's turns and of each wait of the Wi-Fi task that
ends by itself (the join within 35 s, the lease within 15 s, and the scan, which
has no timeout in `wifi.rs` 717 and is trusted to end because the radio's driver
ends it with a list or an error).
Nothing is assumed of keys, the browser or the power, and the waits for
commands, for the loan and for a form may last.

`BookCache` and `PanelRefresh` check safety only.

## 4. What is proved

All proof obligations are discharged by SMT, Zenon and LS4.

| Theorem | States |
|---|---|
| `DurableRecordProofs!TypeCorrect` | `Spec => []TypeOK` |
| `DurableRecordProofs!GenerationsOrdered` | `Spec => []Ordered`, a part of the invariant |
| `DurableRecordProofs!Durability` | `Spec => []SurvivesPowerCut` |
| `DurableRecordProofs!Refinement` | `Spec => ImplementsRegister` |
| `OtaUpdateProofs!TypeCorrect` | `Spec => []TypeOK` |
| `OtaUpdateProofs!NoAttemptTwice` | `Spec => []AttemptIsRequested` |
| `OtaUpdateProofs!UpdateSparesRunning` | `Spec => RunningSlotUntouched` |
| `OtaUpdateProofs!SwitchIsExact` | `Spec => EntrySelectsIntended` |
| `OtaUpdateProofs!NeverBricked` | `Spec => []BootsCompleteImage` |
| `ReaderShellProofs!TypeCorrect` | `Spec => []TypeOK` |
| `ReaderShellProofs!RenderIsAnswered` | `Spec => []RenderAnswered`, the first half of `AnswersOwed` |
| `ReaderShellProofs!FlightIsAlone` | `Spec => []OneRenderInFlight` |
| `ReaderShellProofs!AnswersAreOwed` | `Spec => []AnswersOwed` |
| `ReaderShellProofs!LastTurnKept` | `Spec => []TurnedKept` |
| `ReaderShellProofs!PageIsLoaded` | `Spec => []ReadingLoaded` |
| `BookPagesProofs!PagesAreTiled` | every page of a book lies in exactly one section of its index |
| `BookCacheProofs!TypeCorrect` | `Spec => []TypeOK` |
| `BookCacheProofs!PageShownIsTrue` | `Spec => []PageIsTrue` |
| `BookCacheProofs!MapFollowsBook` | `Spec => []MapIsTheBooks` |
| `BookCacheProofs!JumpFindsChapter` | `Spec => JumpLands` |
| `PanelRefreshProofs!TypeCorrect` | `Spec => []TypeOK` |
| `PanelRefreshProofs!FastBaseHolds` | `Spec => []FastBase` |
| `PanelRefreshProofs!BeliefCorrect` | `Spec => []BeliefIsTrue` |
| `PanelRefreshProofs!ProtocolCorrect` | `Spec => []ProtocolKept` |
| `PanelRefreshProofs!GhostingIsBounded` | `Spec => GhostingBounded` |
| `UploadSessionProofs!TypeCorrect` | `Spec => []TypeOK` |
| `UploadSessionProofs!NoBufferLost` | `Spec => []BuffersConserved` |
| `UploadSessionProofs!CardAtRest` | `Spec => []ResetIsSafe` |
| `UploadSessionProofs!NothingIsLeft` | `Spec => []StreamIsDrained` |
| `UploadSessionProofs!NoHalfBook` | `Spec => []HalfBooksAreOpen` |
| `UploadSessionProofs!SuccessIsTrue` | `Spec => AnswerIsTrue` |
| `SyncSessionProofs!TypeCorrect` | `Spec => []TypeOK` |
| `SyncSessionProofs!MemoryLentOnce` | `Spec => []ScratchHasOneOwner` |
| `SyncSessionProofs!NoSessionLeft` | `SyncCap >= 2` gives `Spec => []SessionIsWatched` |
| `SyncSessionProofs!SavedIsTrue` | `EventCap >= MaxSaves + 2` gives `Spec => []SavedIsStored` |
| `SyncSessionProofs!NetworkIsKnown` | `Spec => []ScreenKnowsNetwork` |

**DurableRecord.** The theorems hold for every set of payloads, every even width
of the generation counter above 2 (so for the 2^32 of the code), with or without
deletes and whichever reads fail. `SurvivesPowerCut` is not inductive: whether
truncating a file is harmless depends on which file was chosen. `IInv` adds
`Ordered` (two readable generations are successors of one another, so the
half-range comparison is never ambiguous, or both copies are allowed outcomes),
`WriteIntent` (the generation a write is about to leave is the successor of the
copy it keeps, unless it was misled, when everything on the card is allowed;
before truncation its target is the older of two copies; during the write the
target is unreadable) and `DeleteIntent` (while files are being deleted every
copy left is an allowed outcome; the files passed are gone unless an error was
recorded). Two lemmas carry the argument: `SuccIsNewer` (a generation and its
successor compare the right way round on both sides of the wrap) and
`NewestIsRead`. Each action preserves `IInv` in a lemma of its own. `Refinement`
reuses `IInv`: truncation and failed operations are `Settle` or stutter, a
verified write is `Acknowledge`.

**OtaUpdate.** The theorems hold for any images and files, either bootloader and
any bound `MaxSeq` of the sequence numbers above the factory's (`Nat \ {0}`); a
blank sector is no entry. `TypeOK` is inductive with `AttemptFits`: an attempt
that was validated has an image and a slot to write. `AttemptIsRequested` needs
`Requests`, which requests are still open at each step. `EntryAimed` says of the
erase and the write of a select entry that the entry to be written outranks the
one in the other sector and selects the slot meant, and that an update never
aims at the active sector; it gives `EntrySelectsIntended` and, with
`RunsSelected` (the slot that runs is the one selected, until marking it valid
failed half-way), `RunningSlotUntouched`. `BootsCompleteImage` rests on
`SlotsComplete`: as long as `mishaps` is empty, the selected slot is complete,
the fallback too while an image is on trial, and a switch is only to an image
that was copied whole. The arithmetic is in lemmas of its own: `NextSeq` and
`PlanIsEntry` (the number planned is above the other's and has the parity of its
slot), `Selection` and `WinnerIsActive` (which slot two sectors select),
`EraseOther`, `LoseActive` and `WriteWinner` (what an erase and a write do to
that), `BootKeeps` (what the bootloader does to it).

**ReaderShell.** The theorems hold for any books, patterns of use (any keys and
faults, any number of prompts) and queues of positive length, of two or more for
the two event queues, which hold 16 and 8; `None` is no command
(`NoneAssumption`). `RenderAnswered` needs the types of what waits in each channel
(`TypedChannels`) and in the hands of each task (`TypedApp`, `TypedDisplay`), and
that a step that sends found its task's processor free (`SendsAreFree`).
A turn of the app that begins with a render in flight either leaves it there or
ends after its answer (`Leaves`); what waits for room to be sent waits only when
no render is in flight. `OneRenderInFlight` is proved from `FliesAlone`: while
nobody puts the device to sleep no sleep is under way (`NobodySleeps`), and of a
queued render, a flush and an answer there is at most one, and none without the
app's flag (`LoneFlight`).

`OpeningAnswered`, the second half of `AnswersOwed`, follows the one command that
carries the newest request from the key to its `Loaded` event. `Openings` says
that no request is newer (`RequestsKnown`), that no two commands on their way
carry it (`OneLatest`), that a command is held back in one place only
(`HeldAlone`) and that an open held back is the newest request unless a sleep
came in between (`OpenHeld`). The display may put it behind a plate, serve it or
leave it, and serves a command that is not skipped by sending its event
(`LatestServed`, `Carries`). On a device that stays awake the proof needs that no
event is pushed out, which is a count (`Room`): the display owes at most one
`Loaded` event and one answer, so with what is queued there are never more than
two.

`TurnedKept` rests on `Records`: all progress records on their way name one
place, the last, because a patient reader's key finds none of them left
(`WaitingKey`), and `Landing`: once they are gone, that place has landed, is held,
or was given up for another book's. `ReadingLoaded` rests on `OnePage`: while a
page is read, every request and every event on its way is about its book
(`Asked`, `News`); the section is loaded or has been asked for; and a repaint is
due (`Due`), or the frame on its way to the panel, or on it, is the app's
(`Shown`). When all is quiet nothing is asked for and nothing is due, so that the
section is loaded and the panel shows the page.

**BookCache.** The theorems hold for books of any length, any layouts, buffer and
table sizes, saved places and any number of mishaps. What an index says is a
recursive function over its sections, so that its facts need induction; it is
done in `BookPagesProofs` with the least element of a set of counterexamples.
There `Texts` and `Sections` are shown to be well defined, sections to follow one
another without a gap (`Follows`), and with it `PagesAreTiled`: the section found
for a page is the one the page lies in, also when the table of sections is full,
and a chapter's first page is a section's. In `BookCacheProofs` the invariant has
eight parts. `TypeOK`. `AskedFits`: the command not yet served agrees with what
the app shows. `JobFits`: a build serves the command that began it, and at its
end the store is blank. `StoreFits`: away from Home, once the book is open, the
store has the app's layout, and its index is the app's book's or none.
`SlotsCut`: whatever was written, cut short, or laid out anew, a section file
holds what some spacing of its type size has in that place. `StoreTrue`: a store
that is ready holds a section of its index, the bytes of the list, or nothing it
would draw, unless the card is `Mixed`. `MapTrue`: its chapter map
is its own, token and entries, when its list is whole and none has failed to be
read since the map was last read whole (`unread`); a part read leaves `unread`, a
whole read clears it. `PageShown`: the section in memory is that of the
page the app is at. A load has three ends (`Loaded`,
`LoadFailed`, `BuildBegins`), each with a lemma for each part. `JumpLands` is an
action property from the same invariant.

**PanelRefresh.** The theorems hold for any views and pages, any interval, any
number of failing commands and either controller; `None` is no request
(`NoneAssumption`). A job is a plan, a fixed sequence of commands one of the
two drivers sends, and `Placed` says that what is still to be sent is the rest of
the plan of the job in hand (`IsRest`) and what the commands already sent have
done to the controller: `SsdTold`, `UcFullTold`, `UcFastTold` and `UcCleanTold`
are tables over the number of commands to come, with the exception of a
controller asleep, which hears none. `FlushPicture` adds the picture, as long as
no command has failed since the last absolute refresh (`upset`): until the
refresh that shows the frame the panel is as the display task believes it
(`Before`), from then on it shows the frame (`After`). `AtRest` is what is left
of that between jobs and gives `BeliefIsTrue`; the table and `Before` at the
place of the refresh give `FastBase` (`Drives`). `ProtocolKept` needs what is
true though commands fail: until a sleep fails the panel in use is awake and
powered (`PowerKept`), and until anything fails the controller is set up, its
planes are stopped and the driver knows of its pump (`Orderly`). `Counted`
compares the fast refreshes on the panel with the planner's count and the
failures; it gives `GhostingBounded`. One lemma per plan shows that a command
sent leads from one line of its table to the next, and `FlushNext` what the next
command may be.

**UploadSession.** The theorems hold for any number of lent buffers, books,
requests and chunks, any channel lengths and any set-up. `BuffersConserved` is a
partition of the buffers into five places; it is inductive once it is known that
a task has a buffer in its variable exactly at the steps where the code does
(`HandsFull`). Lemmas on queues (`AppendAdds`, `TailDrops`, `SendLends`,
`ReceiveTakes`) say what one send or receive does to the set of buffers in a
channel. `TypeOK` needs `BodyInOrder`: no chunk is read after the last, and a
chunk that is not aborted carries a part of a body, which needs in turn that no
buffer is refilled while it is in the stream, that is `BuffersConserved`.
`ResetIsSafe` needs `FlagGuards`, the discipline of `UPLOAD_SESSION_ACTIVE`: set
before the session is asked for, cleared only when no file is open. `IInv` is
the conjunction of all six.

`StreamIsDrained` is about four channels at once. `InOrder` says what may be in
them at each pair of places the two tasks can be: one request at a time
(`OneRequest`), no chunk behind one marked last or aborted (`MarksEnd`), no
buffer on its way in a removal (`RemovalLendsNothing`) and a size that matches
what is being sent (`SizeFits`). `OnCard` relates the stream to the file: the
chunks of the body are a sequence of which a prefix is written, the next few are
in the hand, the channel and the server (`BodyFollows`), a file the session has
open is new on the card (`FileIsNew`), and a result that waits to be told is true
of the card (`AnswerHolds`). The last gives `AnswerIsTrue`, `FileIsNew` with the
failed removals gives `HalfBooksAreOpen`.

**SyncSession.** The theorems hold for any set of networks, any channel lengths
(`STORAGE_COMMANDS` holds at least the probe of the boot) and any number of keys,
forms, faults and power cuts. `ScratchHasOneOwner` says nothing of the session,
so a step that opens a book could break it; `OwnerKnown` adds what the code
relies on: the display task's session is idle exactly while the reader has the
scratch, and `SYNC_LOANS` holds a loan exactly while the scratch is on its way.
A book is opened and a loan is granted only while the session is idle
(`SyncSession::admits`), so both start from the reader; the Wi-Fi task takes the
scratch only with the loan. `IInv` is `TypeOK` and `OwnerKnown`.

`SessionIsWatched` assumes that `SYNC_COMMANDS` holds two commands, as it does
(`main.rs` 107): a Start the Wi-Fi task has not read must not push out the Exit
behind it. Its invariant, `Heard` and `Commanded`, says which events each phase
of the Wi-Fi task may have sent (`EventsInOrder`, `StatusFollows`), which status
the screen may therefore have, and which commands may be queued: either the
screen still watches or an Exit is coming (`ExitComing`). `SavedIsStored` needs that no report
of a save is dropped, which is a count (`EventsCounted`: the events queued are no
more than two and the saves since); with two saves the four places of
`SYNC_EVENTS` are enough. `ScreenKnowsNetwork` follows the credentials from the
card to the screen: `Known` is what the screen, a probe's answer and a forget
say of the card before a session. What the reader's commands do to the queue and
the held place is in lemmas of their own: a key makes the storage queue longer
only by commands of the app (`Longer`, `AppKinds`), what is held or being sent is
one of these too (`HeldWork`), and a forget that was there before the key is there
after it, in the queue or held, or is recorded as lost. So `NetworkKnown` says
that the screen and the card agree unless a probe, its answer or a forget is on
its way or a forget was lost; nothing else the reader does in between can part
them.

Every safety property of a passing run is proved. Only model-checked are the
liveness properties (`OpeningIsOver`, `LatestShown`, `HandshakeAnswered`,
`ExitResets`, `KeysReturn`, `RequestAnswered`, `SessionIsLeft`): liveness under
fairness and `ENABLED` are beyond the prover.

## 5. Where code and documentation disagree

Four runs are expected to find a violation; `PROJECT.json` quotes the lines.

* `OtaRecoveryBricks`: the recovery combo checks one byte of slot 0. If an
  update of slot 0 was cut short after its first block, the combo selects it.
* `EarlyKeyLock`: a key handled before the first library event paints an
  ordinary page and leaves the boot flag set. When the catalog then arrives
  during that paint, loaded books are not repainted and the input lock of the
  next opening is never lifted.
* `SleepPromise`: the power may go with the last place still in the storage
  queue, or while a render queued behind Sleep drives the panel.
* `ResumePlace`: opening a book from the library resumes its place and then
  stores page 0 over it, because the store of page 0 is queued behind the open.

The models also show the following, which have no run of their own; the
property and the bound to change in order to see each are given.

* `OneRenderInFlight` fails when the device may sleep: `Asleep` clears the
  in-flight flag of a render sent meanwhile. So does `LatestShown`: the pending
  paint of a key that aborted the sleep is cleared too. (Both without
  `StaysAwake`.)
* `TurnedKept` fails with quick keys (without `Patient`): with three page turns
  during one refresh the storage queue and `pending_storage` are both taken, and
  the last place is dropped.
* A resumed book is announced with the page count of the last frame drawn - for
  the loading plate, one - after the `Loaded` event that had the right one
  (`display.rs` 997). The first page turn forward may then go to page 0.
* A power cut while the running slot is marked valid leaves its entry blank, and
  the next boot starts the other slot; a flash fault at the same point lets an
  update write the slot it runs from (`RunningSlotUntouched` without its
  condition on `mishaps`).
* With failing card writes `HandshakeAnswered` fails: a sleep given up because the
  place cannot be written sends no answer. With a power queue of 2 it fails
  because the answer is dropped by a full queue.
* A removal in a refused session hangs both tasks until the done press: the
  session drains chunks after every begin, a removal sends none
  (`sd_session.rs` 763; `RequestAnswered` without `Unanswerable`). The comment
  on `refuse_uploads_until_exit` says it will "answer every upload attempt".
* Without BOOKS the session hears Sleep only while draining, forgets it and
  the result with it (`sd_session.rs` 780-789).
* After a Sleep that was given up the session is closed while the server takes
  it for started: requests wait until the done press.
* The error of closing a book is lost (`drop(file)`, `sd_session.rs` 645), so
  "true when the card write succeeded end to end" (`wifi.rs` 416-417) may be
  said of a book whose directory entry was not written.

* The book cache (`PageIsTrue` without `Mixed` or without `Leftover`): a section is
  accepted when only the spacing differs, since "they survive a spacing change"
  (`reader_cache_files.rs` 1168). But the spacing moves the places at which a
  chapter is cut into sections. After a rebuild under another spacing that was
  cut short or could not write a file, and the spacing set back, the reader
  gets a section that begins at the wrong line. With two mishaps that section
  is still in memory after its file is gone, because its write-back was torn;
  `Leftover` therefore looks at the store and `Mixed` at the card.
* A chapter list cut in its body is read over the section's text before
  `text_holds_toc` is set (`PageIsTrue` without `Garbled`): the next page from
  memory paints the bytes of the list, which `views.rs` 269 sets out to prevent.
* A chapter list cut in its body, or a read of it that fails, leaves the batches
  read before it in `chapter_page` under the token and the count of the book
  before (`reader_cache_files.rs` 1465-1486, `reader_cache.rs` 693-698;
  `MapIsTheBooks` without `unread`). That book, opened again, finds its token and
  uses a map of which a part is the other book's, although the token is said to
  name what "the `chapter_page` map was built for" (`reader_store.rs` 208-209).
* A book whose list cannot be read has the chapter map of the book before
  (`MapIsTheBooks` without its condition on the list; `reader_cache.rs` 693).
* A jump looked up in a list that cannot be read, or to a chapter beyond
  `MAX_BOOK_SECTIONS`, goes to page 0 (`JumpLands` without its conditions).
* A section that could not be written leaves a page blank although the book is
  ready, and a load that failed answers with one page, so that the place falls
  back to page 0 (`Advertised`, `lib.rs` 1013).
* A forget lost (`ScreenKnowsNetwork` without `app.lost`; also with the real
  queue of four, no fault and eight keys): page turns fill the storage queue and
  the held place (ExtendSection and StoreProgress use both); a forget confirmed
  behind them is dropped (`app.rs` 166), and one that got the held place loses it
  to the next open or turn (`app.rs` 145). No session and no fault is needed. The
  screen says the network is gone, the card keeps it, and the next boot offers it
  again. The comment on the forget (`app.rs` 494-496) says that confirming it
  "deletes the saved credentials from the card", since "the storage path is still
  whole".
* A forget lost to a session: the comment at `lib.rs` 348 has it that a forget "never runs
  during a sync session". Leaving a session shows Idle and queues an Exit, which
  the Wi-Fi task does not read while it waits for the loan, the scan or the join;
  a forget sent meanwhile waits behind the loan and is refused without an answer
  (`display.rs` 498). The screen says the network is gone, the reset brings it
  back. (`ScreenKnowsNetwork` without `wifi.phase = "off"`.)
* An opening that is orphaned: `Asleep` clears the app's opening and its input
  lock (`app.rs` 226-231) but not `pending_storage`. If a stale OpenBook is held
  there, a later `Settled` sends it and locks the input again (`app.rs` 207-213);
  the display skips it by its request id and says nothing. The lock lasts until
  that book is loaded for another reason or the device sleeps. (`AnswersOwed`
  excepts it.)
* A `Loaded` event that is pushed out: while the app waits to hand over a power
  key (`app.rs` 88) it reads no events, and the answers of renders and of sleeps
  given up meanwhile pile up. `send_required_display_event` (`display.rs` 966) makes
  room by evicting the oldest; a library event among them moves to the library
  channel, where a later one may evict it in turn. If it was the event an opening
  waits for, the input stays locked. (`AnswersOwed` without `dropped`; found by
  TLC's simulation with 24 prompts, event queues of 2, the others of 1, and
  failing flushes and sleeps.)
* A sleep may keep the place of the wrong book: with a card that fails at times
  the place in a newly opened book is given up when the held one of the book
  before does not land (`display.rs` 908), and the flush before the sleep then
  stores the held one and holds nothing. After waking the reader is back in the
  older book. (`TurnedKept` without its first condition, six patient prompts, the
  last of them the power key.)
* A lost report: the portal's `CredentialsSaved` is a `try_send` (`wifi.rs`
  879-882). With a queue of 2 instead of 4 it may be dropped behind the events
  before it, and the screen keeps an older network's name: `SavedIsStored` with
  `EventCap = 2`. The proof therefore asks for two places more than there are
  saves without a look at the screen.
* A failed flush of the held place refuses the loan without an answer
  (`display.rs` 506): `Stranded`, the Wi-Fi task reads neither Start nor Exit
  until the power goes (`ExitResets` and `KeysReturn` except it).
* After a radio that did not start the Wi-Fi task is parked (`wifi.rs` 112): the
  retry the screen offers shows the join for ever (`SessionLands`).
* A Sleep served by a panel that already sleeps drives a sleeping controller
  (`display.rs` 260), and a sleep that fails after its frame leaves `screen_on`
  and `SCREEN_POWERED` true of a panel that is not (`ProtocolKept` and
  `BeliefIsTrue` except both). A BUSY timeout after a refresh was activated makes
  the previous frame wrong until the next clean.
* A plate that was staged and whose flush failed leaves `prev_prestaged`
  (`display.rs` 362) set until the clean that repairs it.

Read, not modelled:

* A spine entry that cannot be found in the archive is skipped
  (`reader_cache.rs` 1031), also when the card failed to read it: the chapter is
  missing from a cache that is not marked partial and is not built again.
* `docs/ARCHITECTURE.md` 364-369 says a change of spacing re-walks heights without a
  rebuild; the index must match the layout exactly, so it always rebuilds.
  Line 250 says ten fast refreshes between cleans; the interval is 8.
* `toc_total` is set by a list window and never cleared: the chapter count of a
  newly opened book may be that of the last list shown (`reader_store.rs` 1229),
  and a page turn then picks and stores a wrong chapter.
* A resumed chapter comes from the record and overrides the one computed from
  the page after a change of layout. LoadChapters clears
  `reader_relayout_pending` although it carries no layout (`app.rs` 127).
* "BAD INDEX" leaves no loaded book, so the loading plate stays instead of the
  error (`views.rs` 278).
* `empty_cache_dir` with an unreadable header removes no section files.
* A FastClean that fails before the temperature is reloaded leaves the override
  in the controller. `wait_two_phase` (`spi_dma.rs` 99-104) promises a timeout
  where a panel that never asserts BUSY returns another error.
* `UPLOAD_IN_FLIGHT` (`upload.rs` 17-19: "the session-ending
  reset waits for it") is set and never read; the reset waits for the session
  instead. The comment at `wifi.rs` 477 speaks of finishing an empty file, the
  chunk sent there aborts it. A failed removal of CATALOG.BIN at session entry is
  ignored, and the next boot would then not show the new books.

## 6. Faulty variants

Every property of a passing run has a faulty variant of a definition that it
must reject (`mutants` in `PROJECT.json`). The variants stand in the modules
directly above the definition they vary, under the heading "Mutant" or "Faulty
variant"; no specification uses them.

## 7. Plan

1. `InputDebounce`, a module of functions checked against a reference definition:
   one event per press.
2. `Catalog`: the snapshot, the list window and the active entry; a book of the
   list is the book that opens.
3. `ReaderShell`: Settings and FirmwareUpdate views, and with them the staging
   of an update, so that it composes with `OtaUpdate`.

## 8. What is not modelled, and why

Battery, RTC and NVM helpers (register access); EPUB and text
parsing, HTTP, DHCP and DNS codecs, fonts, layout and drawing (sequential code
over large data, tested on the host); the web flasher and the host tools; the
debounce of keys and the catalog (section 7). In the modelled parts: record
encodings, the partition table, the contents of an image beyond its validity,
the self-test firmware, the waveform tables, and the Settings and FirmwareUpdate
screens. More than four fifths of the repository's lines of Rust are generated
tables of glyphs (`display/src/*_generated.rs`, `tools/preview`), so that the
share of all lines that the modules stand for is small although most of the
control of the firmware is modelled.
