# WideMelon (melonDS for Android): a TLA+ verification project

## 1. The system and its components

WideMelon is an Android front end for the melonDS console core.  It has three layers.

* **Kotlin application** (`app/src/main/java/me/magnum/melonds`): screens, settings, database and,
  for the running game, `EmulatorActivity` -> `EmulatorViewModel` -> `AndroidEmulatorManager` ->
  `MelonEmulator` (the JNI facade).
* **Native runtime** (`app/src/main/cpp`): the JNI functions and the emulator thread
  (`MelonDSAndroidJNI.cpp`), the session facade (`MelonDS.cpp`), one machine (`MelonInstance.cpp`),
  the frame queue (`renderer/FrameQueue.cpp`), the save manager (`SaveManager.cpp`), the rewind window
  (`RewindManager.cpp`), the message pipe to Kotlin (`EmulatorMessageQueueJNI.cpp`), audio, camera,
  RetroAchievements.
* **Console core** (`melonDS-android-lib/src`): the emulated hardware.  It is sequential but for the
  software rasteriser, which draws the 3D picture on a thread of its own; what is hard in it are the
  protocols between its parts: the clock that the two CPUs share, the cache of compiled code.

These threads meet:

    main thread        lifecycle and menu calls: pause, resume, reset, rewind, stop; starts a launch
    IO workers         launch a game (setup, load, start the thread); save and load states
    emulator thread    emulate(): runFrame, frame pacing, parks while paused
    render thread      FrameRenderCoordinator: presentFrame on each vsync
    save thread        SaveManager::run: writes the save file when the game has been quiet
    rasteriser         SoftRenderer::RenderThreadFunc: draws the 3D lines of a frame
    reader coroutine   EmulatorMessageQueue: reads events from the pipe

| Component | State it keeps | Operations | Talks to | What makes it correct |
|---|---|---|---|---|
| Frame queue (`FrameQueue.cpp`) | two deques of frame buffers, the previous frame, a lock and a condition | get, push, discard a render frame; get a frame to present | emulator thread, render thread, GPU fences | no buffer is lost, doubled or drawn while shown; the newest picture wins; a frame is always there to draw |
| Emulator thread and control calls (`MelonDSAndroidJNI.cpp`) | `started`, `stop`, `paused`, `isThreadReallyPaused`, a mutex and a condition | setup, start, pause, resume, reset, rewind, save and load state, stop | machine, main thread, IO workers | one user of the machine at a time, and a live machine; calls return; a resumed game runs |
| Session (`EmulatorViewModel`, `AndroidEmulatorManager`) | `emulatorState`, coroutines | launch, quick save, menus, exit | the JNI calls | calls the native layer only in an order it supports |
| Machine instance (`MelonInstance.cpp`) | the console, the frame counter, settings, the managers below | runFrame, reset, save and load state, update settings | everything native | one frame, one picture, one rewind state |
| Save manager (`SaveManager.cpp`) | two buffers, two versions, the time of the last request, a thread | RequestFlush, CheckFlush, the flush, the destructor | the cartridge, the save file | the file holds, whole, what the game saved |
| Rewind and save states (`RewindManager.cpp`, `MelonDS.cpp`, `Savestate.cpp`) | a list of states, the settings | capture, trim, reset, go back; save, load | emulator thread, rewind screen | the window is ordered, bounded and owned; the game resumes from what was chosen |
| Message pipe (`EmulatorMessageQueueJNI.cpp`, `EmulatorMessageQueue.kt`) | a pipe, a reader | write an event, read events | emulator thread, Kotlin | messages stay framed and in order |
| RetroAchievements (native manager; Kotlin session, submission handler and worker) | the rcheevos runtime, pending submissions | evaluate, submit, retry | emulator thread, database, network | every unlock is submitted in the end, once |
| Audio, microphone, camera, performance hints | streams and callbacks | open, close, reset on error | the system | a stream closed is not used again |
| Scheduler of the core (`NDS.cpp`) | three clocks, a list of events, the bits of sleep and waking | RunFrame: turns of the CPUs, events, sleep | everything in the core | no event late, the CPUs in step, frames end |
| Software rasteriser (`GPU3D_Soft.cpp`) | three semaphores, two flags, the picture's lines | start, draw a line, take a line, set up, stop | emulator thread, the GPU's state | lines are taken when finished and of this frame; nobody waits for ever |
| Cache of compiled code (`ARMJIT.cpp`, `ARMJIT_Memory.cpp`) | blocks, by address, by place and by the ranges of memory they were made from; protected pages | look up, compile, restore, invalidate, map, reset | the CPUs, every write to memory | no block out of date runs; no pointer to a deleted block |
| Rest of the core (`melonDS-android-lib/src`) | the emulated hardware | registers, instructions, DoSavestate | machine instance | fidelity to the hardware |
| Application data, screens, input | files, preferences, Room | read, write, show | the session | none beyond what a unit test reaches |

What is hard in it: plain `bool`s that several threads read and write; a mutex that exists only
while a game does; buffers handed from the CPU of one thread to the GPU of another; native memory
shown to Kotlin while the thread that owns it goes on; a save file truncated before it is written;
callbacks and coroutines that outlive the session they belong to.  `PROJECT.json` lists each such
hazard at its line, with the properties that catch it or the reason none does.

## 2. Modules

| Module | Models | State and actions against the code |
|---|---|---|
| `LatestFrame` | what the frame queue promises | the newest picture drawn and the one shown; the screen only moves forward, and only to the newest |
| `FrameQueue` | `FrameQueue.cpp` and its callers | both deques and `previousFrame` as in the code, `renderFrame` and `frame` for the raw pointers `runFrame` and `presentFrame` keep between calls.  One action per call; the wait on the condition is `WaitForFrame`, and `FrameReady` is its end, woken or timed out |
| `FramePipeline` | the fences of `runFrame` and `presentFrame` | EXTENDS `FrameQueue` with two GPU command queues and two fences per frame.  The threads only queue commands; the GPU runs them later, in each context's order |
| `EmulatorThread` | `emulate()` and the JNI control calls | every global flag, the mutex (with `none` and `destroyed`), the condition's signal; steps end where another thread could look.  The user interface, the launch and the save state coroutine are actions of their own.  The activity pauses and resumes while a game loads too; a launch may fail before the machine exists, with it, or with the machine left behind |
| `SaveManager` | `SaveManager.cpp` | cells of save memory numbered by the write that set them, a write command cell by cell and reported when it ends, both buffers, both versions, the lock, the file.  The flush opens the file, which truncates it, the system takes what is written piece by piece, and the file is closed with all of it or only a part |
| `Rewind`, `MCRewind` | `RewindManager.cpp`, the rewind screen, save states in a slot | the list of states with the address of each buffer and what the memory there holds; the screen's copy of the list, taken right after the pause is asked for, whether the thread has parked or not; the machine's contents as a number, new with every frame |
| `AchievementSubmission` | `RetroAchievementsSubmissionHandler.kt`, its callers in `EmulatorViewModel.kt`, the dialog of pending submissions | the list, the channel and where `submissionFlow` is suspended; what coroutines look up; the server, external: it takes a request or not, its answer arrives or not.  One action per step between two suspensions on the main thread |
| `SoftRenderer` | the rasteriser's thread in `GPU3D_Soft.cpp` and what of `GPU3D.cpp`, `GPU.cpp` and `NDS.cpp` meets it | the semaphores as counters, the flags as in the code, the GPU's state and the lines as the number of the frame they belong to; steps end where the other thread could look |
| `JitCache`, `MCJitCache` | the cache of compiled blocks in `ARMJIT.cpp` and `ARMJIT_Memory.cpp` | `JitBlocks`, the fast lookup, the ranges with their lists and masks, the blocks kept for restoring, the pages of fast memory.  A block is the words it was made from and the literals in its machine code; how far the code at an address goes and what it loads depends on the branches it takes (`codes`).  Mirrors of a word are addresses with one place |
| `Scheduler`, `MCScheduler` | `RunFrame`, `RunSystem`, `ScheduleEvent`, sleep and waking in `NDS.cpp`, the events of `GPU.cpp`, `SPU.cpp`, `RTC.cpp` | the clocks in whole cycles, the list of events with their times, `pc` for the place in `RunFrame`.  One action per instruction (or compiled block, or unit of DMA), event and hop of sleep |
| `FrameQueue_proofs` (with `FramePipeline`'s), `EmulatorThread_proofs`, `SaveManager_proofs`, `Rewind_proofs`, `AchievementSubmission_proofs`, `SoftRenderer_proofs`, `JitCache_proofs`, `Scheduler_proofs` | | the theorems about each, section 5 |

`FramePipeline` composes the frame queue with the GPU.  `EmulatorThread` and `Rewind` meet in the pause
protocol: in `Rewind` resets, rewinds and save states wait for the thread to park, which `EmulatorThread` looks at in
detail, and the findings about that wait are not repeated.  The rewind screen opens without it, as in the code.

Abstractions used throughout: a picture is a number; the contents of a machine, a buffer or a file are
the number of the frame or write they come from; wall-clock time is a step (`Tick`, the end of a wait).
Memory orders weaker than sequential consistency and the preemption inside a stretch that touches
no shared variable are not modelled.

## 3. Runs

| Run | Distinct states | Bounds, and why they are enough |
|---|---|---|
| `FramePipeline` | 133 thousand | the queue and the GPU behind it: four buffers (the code has nine, `FrameQueue.h:16`; the theorems are about any number from three on), six pictures, at most two commands pending in each context: every buffer is used, queues fill and are drained, the previous frame is recycled, and fences are left over from a buffer's last use |
| `EmulatorThread` | 30 thousand | three games: the last uses what two earlier ones left behind |
| `EmulatorThreadPark` | violated | the same, asked what the comment at the wait says, with no exception |
| `SaveManager` | 736 thousand | three cells, three commands of every length and place, longer than the memory too: overlap, wrap-around, a flush between any two cells of them |
| `Rewind` | 534 thousand | four frames, windows of two, one and no states, one setting of each kind; three buffers, one more than the largest window, so a buffer may be freed and its address used again |
| `RewindScreen` | violated | the same, asked about every screen |
| `AchievementSubmission` | 35 thousand | two achievements and a leaderboard entry, at most three of them on their way: one is sent while others are added, fail or wait.  `LateLookups = FALSE`: a row is found before the user's next step |
| `SoftRenderer` | 2.0 million | two lines, the first and the last of a frame; three pictures, so a line of an older frame is told from one of this; one write of VCOUNT or wake-up in mid-frame |
| `SoftRendererWait` | violated | the same, asked whether every wait in `SetupRenderThread` ends |
| `SoftRendererEvent` | violated | the same, asked about every line after such an event |
| `JitCache` | 336 thousand | two blocks, one with a literal in another range when it is compiled along one of its two branches and one of the other CPU at a mirror of the first; two ranges in one page, four words. `MaxEvents = 0`, see below |
| `Scheduler` | 4.8 million | two events besides the fixed three, on either side of the clock chip's in the list; delays shorter and longer than what an instruction overruns; two lines, a sleep of several hops.  The time of day does not matter: `VIEW Relative` tells states apart by how far their times are from the clock, so the space is finite without a bound on the clock |

What each property says stands above its definition.  In short: `FramePipeline` checks conservation of the
buffers, that no buffer is drawn while shown, that one is always found, the refinement of `LatestFrame`
and that every pushed picture is overtaken on the screen; of the GPU, that it neither tears a
picture nor waits for ever and that it displays every pushed picture or a newer one; `EmulatorThread` that nobody uses a machine that is not there, and, until a call has slipped past the thread, that resets and
rewinds have it to themselves, that calls return and a resumed game runs; `SaveManager` that the emulator's copy is never
out of date between two commands, that the file is at every moment one version or the beginning of one, that the last version is in it at exit, and all that was not requested after the last frame, and
that a requested flush happens; `Rewind` that the window is ordered, bounded and owns its buffers, that
what the screen points into stays allocated and, but for the state about to be used again, in the window, and that the game resumes from what was chosen there; `AchievementSubmission` that nothing
earned is forgotten while its session lasts, that the flow does not sleep over work, that a clean exit loses nothing and that a
submission refused for ever holds up no other; `SoftRenderer`, while the semaphores are in step, that they stay within one frame's
posts, that the lines shown are finished and of this frame and that a frame leaves the GPU's state alone while it is drawn from, and that no frame waits for ever
unless a flag was misread; `JitCache` that no block out of
date runs, that the four indexes of the cache agree, that pages with code are protected and others are not, and
that a jump that finds its block under another entry runs it next; `Scheduler` that no event waits too long, the CPUs
stay in step, a frame that runs ends and is begun once unless its last event finds the console asleep, and sleep goes forward.

The type invariants are proved (`TypeCorrect`) and not run again.

Every property of a passing run has a mutant: a plausible slip in a mapped operation (a lost wake-up, a missing
reset of a version, a frame number not renewed) under which TLC finds it violated.

Deadlock is checked in the frame queue's run, where both threads go on for ever.  It is off where the
system really stops: a game that ended, a save manager that is gone, a user who does nothing, the
bounded number of frames.

### Fairness

* `FramePipeline`: weak fairness of each thread's own next step.  The emulator thread draws as long as the game runs
  and the coordinator presents on every vsync (`FrameRenderCoordinator.kt`); `PushedIsShown` needs no more.  Each GPU context goes on with the command at its head once the fence
  that it waits for is signalled (weak fairness); a driver that runs its queues at all does that.
* `EmulatorThread`: threads that can run do run; frames end.  Strong fairness of the emulator thread's lock
  attempts: the main thread takes the mutex for a few instructions and gives it back, again and again.  And of the main thread's:
  the emulator thread holds it for a few instructions in each frame.
  `WakeUp` is owed only to a broadcast, because a spurious wake-up may never come.  The user owes nothing.
* `SaveManager`: the manager's thread wakes every 100 ms, time passes, frames end.  A bounded number of writes stands for a
  game that is quiet in the end; a game that saves more often than every two seconds postpones the
  flush for ever, which the code accepts.
* `AchievementSubmission`: requests end, waits end after two minutes at the latest (`timeout(2.minutes)`), and the server takes, in the
  end, what it is sent again and again (strong fairness of `Serve`).  The game and the user owe nothing.
* `SoftRenderer`: the render thread runs when it can, and frames go on (weak fairness of `Frame` and the setup).
* `Rewind`, `JitCache` and `Scheduler` state no liveness property and assume no fairness; that a frame
  goes on (`BeamRuns`) and sleep does (`ClockGoesOn`) are invariants.

### Where the code itself fails

The models go through every interleaving, also those in which the code breaks its own protocol.  A history variable then says so, and the
properties hold until or unless it does.  For each of the first three a run shows what breaks (section 4).

* `slipped` (`EmulatorThread`): a pause or a resume found `started` false over a living thread (`MelonDSAndroidJNI.cpp:307`; `started` is set
  after `pthread_create`, `:256`) and wrote `paused` or freed the mutex under it.  It is over when the thread goes on or is joined.
  `MachineAlive` holds all the same.
* `exposed`, `behind` (`Rewind`): the screen offers the oldest state of a full window while the thread may capture once more
  (`EmulatorViewModel.kt:485`), or a quick save or load that was not done has resumed the game behind the screen.
* `misread` (`SoftRenderer`): `SetupRenderThread` found `RenderThreadRendering` clear with the thread woken
  (`GPU3D_Soft.cpp:1776-1785`), or set with `Sema_RenderDone` already taken (`:1798, 1800`).  It is over when the thread is next found waiting.
  `InStep` also excepts a write of VCOUNT and a wake-up in mid-frame (`events`).
* `stranded` (`Scheduler`): the frame's last event was run with the console asleep, or woken and not yet at the top of `RunFrame`.  `Wakeup` is
  then set with no line scheduled, `StartFrame` is left out (`NDS.cpp:971`) and `RunFrame` does not return.
* `openFailed` (`SaveManager`): the file could not be opened; the version counts as flushed all the same (`SaveManager.cpp:180-188`).  Nor is what `FileWrite` says
  looked at: a short write counts too, and the properties then say that the file holds the beginning of the version.

### Assumptions

* `LateLookups = FALSE` (`AchievementSubmission`): a database lookup ends before the user's next step.  With `TRUE` TLC finds how one that
  outlives a logging out leaves a submission without a signal (`NoLostWakeUp`), and one that outlives the exit is lost.
* A submission flow that is cancelled ends in that step; in the code it ends at its next suspension.
* `Rewind`: the settings change on a parked machine only; copying the list of states for the screen is one step, although the emulator thread may push to
  the `std::list` meanwhile.
* `MaxEvents = 0` (`JitCache`): the properties of the cache say nothing of what comes after an event, and need not: after each of the
  five, the code breaks them (section 4).  Shared memory is mapped elsewhere while a CPU is there or has code there; a block writes
  to itself, or to a literal of its own, while it is compiled; the memory for machine code fills up while a block with an untrusted literal is compiled;
  a block is restored for the other CPU; one is restored that went another way through the same words.
  Everything short of an event is covered, and so are the proofs, for every `MaxEvents`: until the first event the properties hold.
* A place in memory is run in one instruction set (`JitCache`): the maps are indexed by the address alone (`ARMJIT.cpp:536, 1068`), not by the Thumb bit.
* `OVER <= Period[SPU]` (`Scheduler`): no instruction, compiled block or unit of DMA takes longer than the 1024 cycles between two samples.
  If one does and the console falls asleep then, the sound unit's event is overdue and the clock hops back.

## 4. Disagreements between the code and what it says

1. `EmulatorThreadPark` - a game paused and resumed while its thread is created can be reset beside a frame
   (`MelonDSAndroidJNI.cpp:336, 354`).
2. `RewindScreen` - the screen opens while the thread may capture once more; the state it then offers as the oldest one
   is the newest (`EmulatorViewModel.kt:486`).
3. `SoftRendererWait` - a state saved between the thread's last two statements waits for a post that has been taken
   (`GPU3D_Soft.cpp:65, 1798`).
4. `SoftRendererEvent` - a wake-up in mid-frame, or a write of VCOUNT, orders lines that nobody takes: from the next frame on the
   semaphore is ahead of the lines, and they are taken before they are finished (`NDS.cpp:1381`, `GPU3D_Soft.cpp:1809`).

Each is a run that TLC ends with a trace, and an entry under "findings" in `PROJECT.json` with the line
it disagrees with.  Met while modelling, and not claimed otherwise by any line of the code, or not worth a run of their own:

* "We keep versions in case the user closes the application before a flush cycle is finished" (`SaveManager.h:66`): a flush requested
  after the last frame, by a state loaded in a pause, is not handed over, and the destructor does not look for it (`SaveManager.cpp:52`).
  `NothingElseLostAtExit` says that nothing else is lost.
* "Restore backup" (`MelonDS.cpp:310`): the backup of `loadState` is still in saving mode and finished, so loading it does nothing, and a state that
  fails half way leaves the machine loaded half way.  `LoadBackup` in `Rewind` is that.
* An award the server already has is to be ignored (`RAApi.kt:180`), but the reason is compared with its
  quotation marks (`:264`): it counts as a failure and is sent again until the game ends.
* "Protect the GPU state from the main thread" (`GPU3D_Soft.cpp:1779`): a state is loaded over what a thread just woken, its flag not yet set (`:1785`),
  is about to draw from.
* Save states do not wait for the emulator thread to park (`MelonDSAndroidJNI.cpp:365, 372`), although reset and rewind say why they do
  (`:354, :402`).
* A state saved in the middle of an SPI command keeps the address it has come to, not the one it began at
  (`NDSCart.cpp:482`): after it is loaded the end of the command may report a length below zero.
* A console that falls asleep or is woken in the turn of the frame's last event never ends the next frame (`NDS.cpp:971`, `stranded`).
* Events for Kotlin are written as header and data by two threads, unlocked, into a pipe that is read without blocking: the reader
  drops a header whose data has not come yet (`EmulatorMessageQueue.kt:129`).
* `InvalidateByAddr` declares a second `mask` (`ARMJIT.cpp:948`), so it retires more blocks than it must.  A block retired because its address
  was mapped to other memory stays in the lists of its ranges (`:563`) and is deleted through them later.  A retired block is restored
  whatever CPU it was made for (`:855`) and then is in one CPU's map and invalidated in the other's (`:1015`): it outlives the first
  write to its code.  `MapSharedWRAM` does not reset the window through which a CPU looks up blocks (`NDS.cpp:1253`, `ARM.cpp:764`).
* `Compiler::CompileBlock` resets the cache when the memory for code is full (`ARMJIT_A64/ARMJIT_Compiler.cpp:678`), in the middle of
  `ARMJIT::CompileBlock`.  The reset forgets `InvalidLiterals` (`ARMJIT.cpp:1120`), so a literal left out of the block's ranges because it
  was known to change (`:713`) is now taken for a constant (`ARMJIT_A64/ARMJIT_LoadStore.cpp:68`): later writes to it
  do not invalidate the block.  The proof of `RunsWhatIsThere` did not go through this step, and TLC then found it in eight.
* A halted ARM9 sets its clock to its target even if that is behind it (`ARM.cpp:611`), as it is when a compiled block has overrun an
  event that comes back after a few cycles (`GPU.cpp:861`): the clock goes back by what was overrun, and `RunTimers` counts
  negative cycles.  `InStep` bounds how far.
* "we also keep outputting audio" (`NDS.cpp:941`): asleep only the clock chip's event is run; the sound unit's is put off.

## 5. Proofs

Each component has its proofs in a module of its own (`FramePipeline` shares that of the queue it extends), laid out alike: lemmas about sequences and
copies, one lemma per action or group of actions that keeps the inductive invariant `IInv`, one that puts them
together, and the theorems.  Hardly any of the invariants is inductive by itself.  TLC checked
every `IInv` on the runs' instances before it was proved.

**`FrameQueue_proofs`**, for every number of frame buffers from three on (`SizeAssumption`; the code
has nine) and every bound on the pictures: `TypeCorrect`, `FramesAreConserved`, `NeverDrawsWhatIsShown` and
`AlwaysFindsFrame`, the safety invariants of the run; and `ImplementsLatestFrame`, the refinement.
`IInv` adds to the type and to conservation: that the lengths of the two queues and the frames held add up to the
number of buffers (`FramesCounted`: with no free frame at least two pictures then wait, so the oldest one taken
back is not the newest); which frames the two threads hold in which of their states (`FramesHeld`); and that
pictures wait in the order they were drawn, all newer than the one shown (`PicturesInOrder`).  The refinement
uses it for the one step where the screen changes: the picture taken is the newest one drawn because the
queue is ordered.

The same module goes on with the pipeline, for every bound on the commands waiting: `PipelineTypeCorrect`,
`NeverTears`, `AlwaysShowsItsPicture` and `GpuGoesOn`.  `PipelineUsesQueue` shows that every step of the pipeline is one of `FrameQueue`
or leaves its variables alone, so `IInv` of the queue can be used as it is.  `PInv` adds that a wait is for a command still in the other context
(`Ahead`), that the fence of a frame covers whatever is pending for it (`Fenced`), that of a drawing and a showing of the same
frame the later one waits for the other and never both (`Separated`: why nothing tears and why the waits form no
circle), and that the picture to be shown is in the texture or in a drawing that comes first (`PicturesAvailable`).

**`EmulatorThread_proofs`**, for every number of games and whatever is called while they load: `TypeCorrect`,
`ResetHasMachineToItself` and `MachineIsAlive`.  `IInv` says
which of four phases of its life the game is in: `Dead`, `Beginning`, `Alive` or `Ending`.  In each it says what
the flags, the mutex and the two threads can be.  `Bookkeeping` ties the mutex's owner to the places of the threads in their code;
once a call has slipped past the thread, the thread may think it holds a mutex that is free, and `Bookkeeping` says less.
`Calls` is what the main thread may count on at each step of a call: while a game loads it only pauses and resumes, and from the check of
`isThreadReallyPaused` on the thread is parked and nobody else will wake it, unless a call slipped past it.

**`SaveManager_proofs`**, for every size of the save memory and every number of writes: `TypeCorrect`,
`BufferFollowsSaveMemory`, `FileIsNeverMixed`, `FileIsWhatWasFlushed`, `LastVersionIsSaved` and `SaveMemoryIsSaved`.  `CopyCoversWrite` shows that
the two copies `RequestFlush` makes cover the cells a wrapping write changes.  `IInv` adds that only the cells of the command under way
are ahead of the emulator's copy (`Copies`), who holds the lock and in which order the threads end (`Order`), what the secondary buffer holds once handed over
(`HandedOver`), and that a file being written holds nothing of an older version (`Flushing`): it was truncated first, and the buffer does not change
until it is closed.  `Requested`, for the last theorem, says that what is not requested is the same in both buffers.

**`Rewind_proofs`**, for every set of settings, of buffers and number of frames: `TypeCorrect`, `WindowIsOrdered`, `WindowIsBounded`, `BuffersAreOwned`,
`ScreenOffersWhatIsThere` and `ResumesAsChosen`.  `DeletedOnce` shows
that a part of the window can be deleted without freeing a buffer that stays; trimming and going back are two
uses of it.  `IInv` adds that the window's frames are counted from one and that what the screen offers is
no newer than the game (`FramesRun`), that the capture in progress is of a frame the window does not have yet (`Capturing`), and that nothing that
deletes a state the screen points into begins while it is open (`Shown`).
`SInv` is for the last two theorems: every buffer of the window holds the machine
as it was at the end of its frame, or a state that loading rejects (`Truthful`), and while the screen is open what it
offers stays in the window, unless the game is resumed behind it and but for the state about to be used again (`ScreenStill`).

**`AchievementSubmission_proofs`**, for every set of achievements and entries and every bound, assuming `~ LateLookups`:
`TypeCorrect`, `NothingIsForgotten`, `NeverSleepsOverWork` and `CleanExitLosesNothing`.  `RemoveHead` shows that what is taken
off the list is its head, although the code looks for it by value.  `IInv` adds that while a request is out its submission heads the list,
and an answer means the server has it (`Sending`); and that without a flow nothing is looked up or pending, and
a game that goes on has earned nothing (`Switched`).

**`Scheduler_proofs`**, for every set of events, every period and delay, every length of a turn and of an instruction:
`TypeCorrect`, `EventsAreOnTime`, `CPUsStayInStep`, `SleepGoesOn` and `FramesGoOn`.  The clock never stops, so no
run can be exhaustive in it; the proofs need no bound.  `IInv` says how far each clock is from the system's in each place of `RunFrame` (`Apart`), that
the ARM9's target is never behind an event (`Stopped`), what each event may be late by, seen from each of the three clocks (`Punctual`), that
the sound unit's and the clock chip's events are in the future once `RunSystem` is done (`Periodic`: what makes every hop of sleep
go forward), and that a frame begins where the last one ended (`Restart`).  `Beam` says in which places the LCD has its event scheduled in a frame that is not `stranded`.

**`SoftRenderer_proofs`**, for every number of lines: `TypeCorrect`, and, while the semaphores are in step (`InStep`),
`OrdersComeOneByOne`, `LinesAreTrue` and `FramesLeaveItInPeace`.  `IInv` has two parts, because a misread flag leaves the flags right and the orders wrong.
Until there is an event in mid-frame: what the flags say of the two threads' places (`Flags`) and for whom the thread is set up (`Purpose`).
In step, also the one order of a frame through its five stages (`Order`): at each,
the lines announced and those already taken add up to the lines drawn; what a thread that is stopped leaves in the
semaphores (`Leaving`, `Left`); and that an order that redraws nothing finds the buffer
as it should be (`Contents`: the step at which `LinesTrue` could fail a frame later).  A misread flag promises no picture, until one is drawn in step.

**`JitCache_proofs`**, for every set of addresses with any code and literals along any branches, any mirrors, every size of the region, of a range and of a page
(a range lies in one page: `PageAssumption`): `TypeCorrect`, `NoBlockOutOfDate`, `IndexesAlwaysAgree`, `CodeIsProtected` and `SwitchAlwaysHelps`.
None of the four properties is inductive alone, because each index is used to mend another: a write finds blocks by their ranges only, and must
take them out of the maps.  `IInv` says, as long as there was no event: of a block in a map, that it was made for that address from the words there
now, and of each literal in its machine code that its ranges cover it (`Sound`); of a block in a list, that it is the one its map has, and
of a block in a map, that it is in all its lists and not kept for restoring (`Listed`, `Filed`); of a block kept, that the literals in its machine
code went into its hash (`Kept`: why a restored block is as good as a new one); that a lookup entry is of the block in the map (`Entries`);
of the block being compiled, that what was fetched is still there (a write to it in between is an event), and that a literal it leaves out is one not to be trusted (`JobCurrent`); that a CPU's window is
for the memory mapped now (`Windows`); and what `ProtectedWhereCodeIs` says (`Protected`).  `WriteOutsideJob`, `RetireLeavesNothing` and
`RegisterKeeps` carry the argument: a write either touches no block, or takes all of the range's blocks out of everything, and
a block registered, new or restored, goes into everything.

Only model-checked: `PushedIsShown`, `PushedIsDisplayed`, `CallsReturn`, `ResumedRuns`, `EventuallyFlushed`, `SubmittedInTheEnd` and `EveryFrameEnds` (liveness under
fairness is out of the prover's reach).  Every other property of a passing run is the subject of a theorem.

## 6. Plan

Done: `LatestFrame`, `FrameQueue`, `FramePipeline`, `EmulatorThread`, `SaveManager`, `Rewind`,
`AchievementSubmission`, `SoftRenderer`, `JitCache`, `Scheduler`, and the proofs of section 5.

What would come next:

1. `EmulatorLife`: the machine's life between the render thread, the emulator thread, the save state worker and `cleanup`
   (composes `FrameQueue` and `EmulatorThread`); a second launch while the first is loading; settings that change while
   the thread captures a rewind state.
2. The audio stream's error callback; the core's FIFOs and DMA channels; timers over `Scheduler`'s clocks.

## 7. Not modelled, and why

Instruction semantics, code generation, pixel and sound computation: data without control between parts, and out of TLC's reach.  Of the
cache of compiled code: stores by several registers at once to a block's own literal, holes of the DTCM, mapped video memory, the DSi's shared
memory and the rewriting of fast accesses.  Of the rasteriser: 3D switched off in mid-frame, and the OpenGL renderers.  Of the scheduler: the
timers, a write of VCOUNT that makes a frame longer or shorter, and the stop of a run in mid-frame.
Vendored libraries (enet, faad2, oboe, rcheevos, teakra, dolphin, fatfs): not this program's code.  LAN and netplay of the core: not
reachable from the Android front end.  Layouts, screens, preferences, the ROM list and the database:
input and output without a protocol of their own.  `PROJECT.json` gives the reason for each component.
