---- MODULE Library ----
(***************************************************************************)
(* The components that share nothing with the rest of the system, nor with *)
(* each other, and what each of them promises.                             *)
(***************************************************************************)
EXTENDS Integers, Sequences, FiniteSets

CONSTANTS
    Lowest, TypeSizes, BlockSize, ObjectSizes, MaxObjects, HeapSize,
    Handlers, MaxDescriptors,
    Coroutines, MaxTime, MaxTimers, MaxSchedules,
    Lengths, MaxInterpolators,
    FnameChars, MaxName, Files, DiskValues, FirstId, LastId, InterruptCycles,
    Videos, nrows, ncols, Chars, MaxLines

VARIABLES
    free_chunks, blocks, memory, top, regions, objects,
    subscribers, points, iterator, called, overwritten,
    now, timers, heap, timer_points, timer_promise, coroutine, limit, firing,
    interpolators, events, promise, index, finishing, advanced, present, removed,
    state, fname, next_id, count, buffer, data_written, data_result, error,
    file_descriptors, current, source, uploaded,
    screen, x, y, current_video, paper

Pool == INSTANCE MemoryPool
Event == INSTANCE EventHandler
Timer == INSTANCE EventTimer WITH
    events <- timers, points <- timer_points, promise <- timer_promise, MaxEvents <- MaxTimers
Interp == INSTANCE Interpolation WITH MaxEvents <- MaxInterpolators
Drive == INSTANCE Disk WITH Chars <- FnameChars, Values <- DiskValues
Video == INSTANCE VideoOutput WITH buffer <- screen

ASSUME PoolAssumption == Pool!PoolAssumption
ASSUME EventAssumption == Event!EventAssumption
ASSUME TimerAssumption == Timer!TimerAssumption
ASSUME InterpolationAssumption == Interp!InterpolationAssumption
ASSUME DiskAssumption == Drive!DiskAssumption
ASSUME VideoAssumption == Video!VideoAssumption

\* memory-pool.cpp: nothing is ever written into an object that is alive.
ObjectsIntact == Pool!ObjectsIntact
\* memory-pool.cpp: no chunk is lost, or put into another pool's list.
FreeListsWhole == Pool!FreeListsWhole

\* event.h: publish calls everyone once, whatever its callbacks do.
PublishReachesAll == Event!PublishReachesAll
\* event.h: a descriptor is valid exactly while it is subscribed.
SubscriptionsHold == Event!SubscriptionsHold

\* event-timer.h: a coroutine that waits is resumed once, by its own event.
OneWakeup == Timer!OneWakeup

\* interpolation.h: the vector and the places its elements remember agree.
PlacesHold == Interp!PlacesHold
\* interpolation.h: a pass advances everyone once, but for what removals hide.
PassesAdvance == Interp!PassesAdvance

\* disk.cpp: what is uploaded is the file that was opened, in order.
UploadsFollowFiles == Drive!UploadsFollowFiles

\* terminal.cpp: a window shows the last lines printed to it.
ScreenShowsTail == Video!ScreenShowsTail

====
