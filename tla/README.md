# A TLA+ verification of UltraDefrag

UltraDefrag is a disk defragmenter for Windows. Its engine (`udefrag.dll`)
analyzes a volume, decides which clusters should lie where and asks the file
system to move them, while other programs use the same volume. A GUI, a console
program and a program that runs at boot time are clients of the engine.

These modules model the parts of it where the order of events matters: finding
the files of a volume, moving the clusters of a file and keeping the engine's
view of the volume right, the list of free regions, defragmentation and
optimization, the tasks of a job, the threads behind jobs and queries, the
threads of the GUI, the debug log, and the boot time program with its keyboards.
TLC checks them on small instances, TLAPS proves what matters most for every
value of the constants. Paths below are relative to `src/src/` of the repository.

Contents: 1 the system, 2 the modules, 3 the runs, 4 the proofs, 5 what the
checks found, 6 what is not modelled, 7 plan, 8 how to run it.

## 1. The system

### 1.1 Components and how they interact

    GUI (wxgui)      console        boot time program (native) -- keyboards
       |  events, flags |                  |
       +--------+-------+------------------+
                |  udefrag_start_job(volume, type, callbacks), udefrag_starts_query
                v
    job control (udefrag.c), queries (query.c): caller + worker + deleter threads
                |  start_job
                v
    tasks: analysis -> optimize_mft / directories / optimize -> defragment
                |  which clusters go where
                v
    move_file (move.c) ------ list of free regions (volume.c, search.c)
                |  FSCTL_MOVE_FILE, dumps, file records, volume bitmap
                v
    Windows, NTFS or FAT, other programs

| Component | State it keeps | Operations | What makes it correct |
|---|---|---|---|
| **File tree walk** (`dll/zenwinx/ftw_ntfs.c`, `ftw.c`) | the list of files with maps, ids and paths; what is known of the current file | scan all file records, follow attribute lists, build paths, validate | every stream of an untouched file once, with all clusters and its path; the scan ends |
| **Cluster chain transfer** (`dll/udefrag/move.c`) | block map and flags of each file, the free regions, the tree of fragmented files, statistics | check the request, open, move in portions, dump again, classify, update | maps and free regions follow what really moved, whatever failed; counters and tree equal what a new analysis would give; a failure is always flagged |
| **Cluster map** (`dll/udefrag/map.c`) | counters of clusters per cell and colour | fill, colorize a range, pick a colour | each cell adds up and shows what is in it |
| **Lists of free regions** (`dll/zenwinx/volume.c`, `list.c`) | a double linked ring of regions | scan the volume bitmap, add a range, subtract a range | closed, sorted, merged ring; no dangling cursor; exactly the right set |
| **Searching** (`dll/udefrag/search.c`) | none | first, last, largest region; blocks of files | the promised region, or nothing when stopped |
| **Defragmenter** (`dll/udefrag/defrag.c`) | flags of the files, threshold, passes | move files as a whole, join little fragments, second attempt | the passes end; joining never makes things worse |
| **Optimizer** (`dll/udefrag/optimize.c`) | two cluster limits, a tree of sorted files, flags | move directories and the MFT, clean the space behind them, sort files to the front, move the rest to the back | passes end, sorted files are in order, what must stay stays |
| **Tasks of a job** (`start_job` in `udefrag.c`) | volume handle, trees, results | run the tasks in order, whatever fails | nothing is left open; the result tells the truth |
| **Analyzer** (`dll/udefrag/analyze.c`) | list of files, filters | read properties, scan, filter, sort | the filters mean the same whenever they are applied; UDF is never touched |
| **Job control** (`dll/udefrag/udefrag.c`) | completion status, two global flags, the router, lists on a stack frame | start, poll, deliver, clean up; worker; deleter | no thread uses a list or frame that is gone; each call returns |
| **Engine queries** (`dll/udefrag/query.c`) | the same, for one volume at a time | what is at this cluster? | each query returns and disturbs no job |
| **GUI jobs** (`wxgui/job.cpp`, `main.cpp`, `fileslist.cpp`) | `m_busy`, `m_paused`, `m_stopped`, `m_launch`, `m_volumes`, cached results, pending events | start, pause, stop, completion, close | one job at a time; events meet the job they are about; everything unlocks in the end |
| **GUI queries** (`wxgui/query.cpp`) | `m_startquery`, `m_qp`, and `m_busy` shared with jobs | query a cell of the map | a request is answered |
| **Debug log** (`dll/zenwinx/dbg.c`, `mem.c`, `lock.c`) | list of messages, log file, two locks | append, flush, turn on and off | no message is lost, no lock cycle |
| **Keyboard queue** (`dll/zenwinx/keyboard.c`) | ring of records, count of polling threads | write, read, open, close | records in order, none from outside the array |
| **Boot time interface** (`native/`) | escape flags, script position | run the commands of scripts | Escape ends everything, no job starts after a break |

The rest - options, reports, red-black trees, wrappers, the C library, the
console, views and settings of the GUI, boot registration, hibernation, crash
reporting, Lua, the installer - reads, computes, formats or shows; section 6 says
why none of it is modelled.

### 1.2 What is hard in it

* *Two truths.* The engine works on a snapshot. It has been read record by record
  while others changed the volume. Between two system calls another program may
  allocate the target, a move may succeed in part while reporting success, NTFS
  keeps the clusters a move has left allocated for a while, and the dump which
  tells the outcome may fail as well. Maps, free regions, flags, tree, counters
  and the cluster map are adjusted incrementally.
* *Pointers into what is being changed.* The list of free regions is edited while
  it is walked; the next file of the tree is taken before the current one is
  moved, which removes and inserts it.
* *Passes.* The algorithms repeat while they move data; that they end is an
  argument about flags and fragments, not a loop counter.
* *Many ways out.* Every task can fail or be stopped at any point, with a
  volume, trees and temporarily allocated space in its hands.
* *Threads without locks.* Three threads of the engine share two flags and a
  stack frame; four threads of the GUI share a handful of members; the polling
  threads of the keyboards are counted without a lock. The engine waits for an
  acknowledgement only an event handler of the GUI can give.
* *Locks under an allocator that may fail.* The out of memory handler flushes the
  debug log, and the log allocates memory.

`PROJECT.json` lists these hazards at the lines where they bite, with the
properties that watch them.

## 2. The modules

| Module | Models | Lines |
|---|---|---|
| `Mft` | what lies outside of the code: the master file table and what others do to it | - |
| `NtfsScan` | the scan of an NTFS volume | `ftw_ntfs.c`, `ftw.c` |
| `MoveFile` | `move_file` and its helpers against a file system that may do less than it is asked | `move.c`, filters of `analyze.c` |
| `ClusterMap` | the cluster map, on top of `MoveFile` | `map.c`, `udefrag.c` |
| `FreeSpace` | abstract: a set of free clusters | - |
| `FreeRegions` | the ring of regions, its scan, addition, subtraction, searches; implements `FreeSpace` | `volume.c`, `list.c`, `search.c` |
| `Volume` | what the algorithms share: maps, free space, `move_file` by its outcomes | `move.c`, `search.c` |
| `Defragment` | the passes of the defragmentation, on `Volume` | `defrag.c`, parts of `analyze.c`, `search.c` |
| `Cleanup` | blocks of files and `cleanup_space`, on `Volume` | `optimize.c`, `search.c` |
| `OptimizeFile` | `optimize_file`: one directory or the MFT | `optimize.c` |
| `Optimize` | `optimize_routine`: sorting small files | `optimize.c`, `search.c` |
| `OptimizeVolume` | composes the two: the moves of a whole optimization | `optimize.c` |
| `Tasks` | `start_job`: the tasks, their handles and results | `udefrag.c`, `optimize.c`, `analyze.c`, `defrag.c` |
| `JobControl` | `udefrag_start_job`: caller, worker, deleter, client | `udefrag.c` |
| `QueryControl` | queries of the engine and the query thread of the GUI, beside `JobControl` | `query.c`, `query.cpp` |
| `GuiJob` | the GUI's threads on top of `JobControl` | `job.cpp`, `query.cpp`, `fileslist.cpp`, `main.cpp` |
| `DebugLog` | the debug log, its locks and the out of memory handler | `dbg.c`, `mem.c`, `lock.c` |
| `Keyboard` | the queue of the keyboards and its threads | `keyboard.c` |
| `BootScript` | the boot time program on top of `Keyboard` | `native/*.c` |
| `MCMoveFile`, `MCFreeRegions`, `MCDefragment`, `MCOptimizeVolume`, `MCNtfsScan` | small instances | - |
| `MoveFileProofs`, `FreeRegionsProofs`, `DefragmentProofs`, `OptimizeVolumeProofs`, `GuiJobProofs` (with `Tasks`), `DebugLogProofs`, `BootScriptProofs`, `NtfsScanProofs` | theorems, section 4 | - |

How they fit together:

* `GuiJob` EXTENDS `JobControl`: the job thread of the GUI *is* the caller, the
  GUI's callbacks refine its actions `Poll`, `Deliver` and `Answer`, and
  `FilesPopulateList` is its client. `GuiObeysEngine` proves that nothing in the
  GUI makes the engine leave `JobControl`. `QueryControl` EXTENDS it as well; its
  actions leave the variables of the engine alone by definition, because job and query
  have parameters, lists and an acknowledging flag of their own in the code. What the
  two do share, the members of the GUI, is in `GuiJob`.
* `JobControl!WorkerEnds` stands for everything `Tasks` does; the two meet in
  `completion_status`, which `Tasks!End` sets and `JobControl!Poll` reads. A
  fault of `Tasks` ends the process and has no counterpart in `JobControl`.
* `Tasks` leaves open which files a task moves. `Defragment` and `OptimizeVolume`
  say which ones and where. Both take `move_file` by the outcomes of `Volume`;
  `MoveFile` has its steps.
* `OptimizeVolume` instantiates `OptimizeFile` and `Optimize` over one volume: the
  clusters one of them has cleaned away are what the other one sorts, and the
  flags one leaves behind are what the other one meets.
* `NtfsScan` yields what the others begin with: a list of files and maps which
  may be older than the volume.
* `MoveFile` and `Volume` keep free space as a set of clusters. `FreeRegions` shows
  that the ring in the code implements that set.
* `MoveFile` and `Defragment` assume the open volume that `move_file` asks its
  callers for; `Tasks` examines whether it is open.
* `MapSpec` of `ClusterMap` is `Spec` of `MoveFile` with a variable that follows it,
  so the theorems about `Spec` hold for it.

### 2.1 Mft and NtfsScan

`Mft` is external: a table of records which are free, base records or children,
with names, pieces of attributes, an attribute list, and a sequence number
that is raised when a record is freed. An attribute is known by its type and its
name, its `Key`: the data of a file and its named streams, the root of an index with
its nodes and their bitmap, the bitmap of `$Mft`. A base record with the root of an
index is a directory, and only in those others put files. Others move, create and delete files, and
let them grow or shrink (`AddChild`, `PushOut`, `DropChildren`); `touched` remembers
which records they have changed.

`ReadBase` reads one record and applies `analyze_attribute` to all of its
attributes; `ReadList` reads an attribute list which lies outside of the record,
later than the record itself; `ReadChild` follows one entry of the list, with a
read of its own. Between any two of these the table may change; the clusters of a
list that has been changed meanwhile hold nothing any more or, at worst, the list of
another file. `StreamName` is `get_attribute_name`: streams are told apart by the name it
makes of a key, which is the same one for some keys. `FinishFile`
gives the name found at last to all streams of the file. `BeginPath`, `ToParent`,
`EndPath`, `StopPath` are the loop of `build_file_path`, one directory a step;
`Validate`, `Filtered` and `RemoveStreams` the loops of `ntfs_scan_disk_helper` and
`winx_scan_disk`. `ReadFails` is an unreadable record, fatal for record 0 only.
The list is a sequence from its head on: new streams are inserted at the head,
as `winx_list_insert` does it. The number of an attribute, by which an entry and
an attribute are matched besides type and name, is always taken to match.

### 2.2 MoveFile and ClusterMap

The *disk* (`real`, `used`, `temp`) is what Windows knows, the *view* (`map`,
`free`, `flags`, `listed`, `pi`) what the engine believes. A file map is a
function from VCNs to LCNs whose domain may have holes; a block is a maximal run
of it, so `winx_blockmap` and its arithmetic become sets and functions.

`Reject`, `OpenFails`, `Open` are the three ways through the checks at the
beginning of `move_file`. `MovePortion`, `PortionFails`, `MoveDryRun`,
`AbortMove` are one round of `move_file_helper` and `move_file_clusters`, with
`FSCTL_MOVE_FILE` free to relocate any prefix of a portion whether it reports
success or not. `AssumeSuccess`, `Succeed`, `Fail`, `SucceedPartially` are the
four outcomes `move_file` distinguishes after the second dump; each includes the
whole update of maps, free regions, flags, counters and tree. `ReleaseTempSpace`
is the reload of the free regions between passes, which may be cut short.
`OtherAllocates`, `OtherReleases` and `Stop` come at any moment. The requests are
those the algorithms can make: a target inside the list of free regions, and
never the middle of a single block, which no caller asks for.

`ClusterMap` adds `array`, the counters per cell and colour. `colorize_map_region`
takes what it gives to one colour from another one, as far as there is any: the
clamping at zero is in the model. Each step of `MoveFile` is conjoined with what
the same lines of the code do to the map.

### 2.3 FreeSpace and FreeRegions

A list is a head and a memory of items with `next`, `prev`, `lcn` and `length`;
addresses that are freed may be handed out again at once. Insertion, removal,
addition and the searches are operators which follow the pointers. The scan
(in portions) and the loop of `winx_sub_volume_region` keep pointers into the
list from one step to the next and are therefore modelled step by step:
`SubBreak`, `SubSkip`, `SubInside`, `SubCutRight`, `SubCutLeft`, `SubSplit` are
the branches of that loop. `FreeSpace` is what the engine relies on: released
clusters are added, taken ones subtracted, a complete scan is exact, and an
interrupted one never invents a free cluster. Under the refinement mapping the
list is worth its old contents until a subtraction ends and nothing while a scan
is running, because no caller looks at it in between.

### 2.4 Volume and Defragment

`Volume` has the outcomes of a move: success, failure after a prefix has arrived,
a target taken by somebody else, a locked file. A move whose file cannot be dumped
afterwards counts as a success (`CALCULATED_MOVING_SUCCESS`); here it is one, and the case
that it is not, where view and disk part, is followed in `MoveFile`. In `Defragment`, `pc` is the
nesting of loops: `"sequence"` (`defrag_sequence`), `"files"` and `"fragments"`
(`defrag_routine`), `"left"` (between two sequences) and `"done"`. `file` and
`next` are the pointers into the tree of fragmented files, which is recomputed
from the maps at every step: `NextOf` compares keys as they are *now*. `IsRow`,
`Enough`, `Cut`, `Choice` translate the selection of fragments worth joining. A
scenario gives the maps, the clusters other files occupy and the threshold of the
options.

### 2.5 Cleanup, OptimizeFile, Optimize, OptimizeVolume

`Cleanup` is `cleanup_space`: a block is moved to the end of the last free region,
in pieces if it has to; a piece that fails ends it. `FindLocked` is the search for a
block meeting a file that cannot be opened, which is passed over from then on. `OptimizeFile` is
`optimize_file`: `SearchTarget` looks for the space behind the first clusters,
`MeetLocked`, `CleanBlock`, `MoveBlock`, `BlockFails`, `Extend` free it, `MovePortion`,
`PortionFails` and `TryFurtherOn` fill it. `Optimize` is `optimize_routine`: the
tree of sorted files (`BuildTree`, `CutOff`), then rounds of `move_files_to_back`
(`MeetLocked`, `SkipBlock`, `CleanBlock`, `MoveBlock`) and `move_files_to_front` (`PassOver`,
`SkipFile`, `Wait`, `MoveToFront`) with the limits `start_lcn` and `end_lcn`.
`OptimizeVolume` runs `OptimizeFile` for each directory or for the MFT and then
`Optimize`. It keeps what they share: the maps, the free space, the flags, and
`excluded`, which one phase sets and the other respects.

### 2.6 Tasks

`task` is the routine the worker is in, `step` its phase. Every opening task
(`directories`, `mft`, `optimize`, `single`) goes through `OpenFails` or
`OpenVolume`, moves up to `MaxFiles` files and leaves through `LeaveVolume`;
`defragment` has an entry of its own since it opens nothing. `Report` gathers the
results of an optimization. `fault` is the use of a NULL pointer, or of a volume
which is not open, after which the worker does nothing more. `movers`, `succeeded`
and `failed` record history.

### 2.7 JobControl, QueryControl and GuiJob

The caller runs through `out`, `polling`, `final`, `cleanup`, `waiting`; the
worker asks the client through `termination_router`, which `TimeUp` may exchange
under its feet; the deleter waits for `gui_finished` and raises
`delete_finished`. Both flags are plain globals and the model interleaves every
read and write of them. `WorkerEnds` stores the completion status. After a failure the
worker is `late`: it will read the status again (`ReadAgain`), and nothing keeps the
caller from returning before it does. If the next job's parameters lie at
the same place by then, a 0 that is found there is replaced, and that job's caller is
`"mistaken"`, about which the models say no more. `QueryControl` adds the query thread, the worker of a
query (with `q_late` and `ReadQueryAgain`, the same), the parameters the main thread
leaves for it, and the pending completions.

In `GuiJob`, `main` is what the main thread does: it handles one event or one
command at a time, and the assignments of `OnStartJob` are split where another
thread can see the difference (`OnStartJob`, `Launch`), as is the end of the
job thread's loop (`Complete`, `DeleteVolumes`, `Unlaunch`). `queue` holds the
pending events in order. A volume is its position in the list the user
selected. A deleted `m_volumes` has any count. Events queued for a frame under
destruction are lost.

### 2.8 DebugLog

Each thread has a small program counter over the calls `winx_dbg_print`,
`winx_flush_dbg_log`, `winx_set_dbg_log` and `winx_disable_dbg_log`; the two locks
are taken and released as in the code, and every allocation may fail, which calls
the handler of `mem.c` with the locks the thread holds at that point. A message is a
number together with the paths it may rightly be saved to.

### 2.9 Keyboard and BootScript

A polling thread pushes numbered key hits; the reader takes them out. The count
of the threads is read and written back in two steps, because it is a plain
integer several threads change. `BootScript` adds the program: initialization,
the prompt to exit, scripts which call each other, jobs over several volumes,
pauses, the interactive mode. Escape and Break reach it through the ring alone.

## 3. The runs

Twelve runs, one question each. All bounds are constants of the models or of the
MC modules.

| Run | Instance | What it shows |
|---|---|---|
| `ntfs_scan` | 9 volumes of 6 records, 2 changes or failed reads | what nobody touches is listed truly; 249 thousand states |
| `move_file` | 2 files, 8 clusters, 2 opened moves, 3 cells | 7 invariants of the engine's view, 451 thousand states |
| `free_regions` | 7 clusters, 5 addresses, portions of 3 | the ring is sound and implements the set; 14 thousand states up to symmetry |
| `defragment` | 2 files, 11 clusters, 2 thresholds, 3 file systems | the passes end and do what they are for; 1.2 million states |
| `optimize` | up to 3 files, 7 clusters, both phases | order, fixed clusters, progress and end; 2.4 million states |
| `tasks` | 7 types of jobs, 4 file systems, 2 files a task | handles, trees, results and volumes on all ways out |
| `job_control` | a client that acknowledges, any number of jobs and queries | lists, frame, cleanup, and that calls return; 425 thousand states |
| `gui_job` | 2 volumes, 3 pending events, no queries | the lock, Stop and Close; 214 thousand states |
| `gui_job_queries` | 2 volumes, 2 pending events, queries | events meet their job; 6.8 million states |
| `gui_lost_start` | 1 volume | *violated:* a start may be wiped out |
| `debug_log` | 2 threads, 2 paths, 3 messages, 3 calls each; 792 thousand states | messages are kept and calls return |
| `boot_time` | 2 keyboards, a ring of 2, 4 key hits, scripts 2 deep; 2.5 million states | keys, Escape and the end of the initialization |

### 3.1 Properties

*NtfsScan.* `ListExact`: after a complete scan every stream of a file which nobody
has touched and whose records could be read is in the list once, with exactly its
clusters - although records are read one by one, attribute lists later than
the records they belong to, and records of other files are used again meanwhile.
The exception is an attribute that gets the name of another one with clusters
(`Merged`, section 5). The list is ascending at every moment, which both searches rely on. `PathsTrue`: a
file which is listed has its real path, whenever the scan is stopped, unless it or a
directory above it has been touched or has several parents, or a directory above it
has a named stream behind its index, as one in a child record is (`Shadowed`,
section 5). `ScanEnds`: the scan ends, or
the directories it has read form a cycle.

*MoveFile.* `FreeViewSound`: the list of free regions never offers a cluster of a
known file nor one NTFS holds back, whatever mixture of failures came before
(on FAT this ends when a map had to be assumed, since clusters are released at
once there). `ViewExact`: while every move could be verified, the maps are those
of the disk. `StatisticsExact`: the counters, changed by differences only, equal
a fresh count; `FragmentedListExact`: the tree holds exactly the fragmented files
no filter rejects, under current keys - a stale key would make the entry
impossible to remove. Both ask the filters anew and do not look at the flag the code
keeps, so that a filter which is not applied again, or too late, violates them; the
one exception has a name, `Readmitted` (section 5). `Reported`: a negative result leaves a status flag, the
promise the passes rest on (`FailureIsFlagged`), and the progress arrives at its
end whatever fails (`CountedEntirely`).

*ClusterMap.* `MapExact`: the counters of each cell are those a fresh analysis would
draw. `ShownTruly`: the colour the user sees is that of most of the cell's clusters,
with the exception the code makes for the MFT zone. Both end with the first
partial success (section 5).

*FreeRegions.* `RingSound` (closed ring, sorted and merged regions, a cursor that
never dangles), `SearchesFind` and the refinement `ImplementsFreeSpace`.

*Defragment.* `Terminates`: the passes end, however the moves end, in the scenarios of
the run, whose files have no holes; with holes they need not (section 5). `JoiningHelps`: a
successful move leaves fewer little fragments or fewer fragments and more of
neither, although pieces are cut from neighbours, and no move puts clusters on
those of another file. `PassesExhaust`: a sequence ends only when no
file to be moved as a whole fits anywhere, although the tree is reordered while
it is walked.

*Optimize.* `InOrder`: no file is ever placed upon another one, and what
`optimize_file` reports as done is in order behind its first clusters.
`SortedPlacement`: over all passes the files moved to the front lie in the order of
the tree. `RestStays`: the first clusters of the MFT and of directories on FAT, and
files flagged as unmovable, stay where they are in both phases.
`FrontMovesDown`: a file is moved to the front only to a lower place.
`Terminates`: everything ends, retries and files that turn out to be locked included;
holes are left out here, too.

*Tasks.* `NothingLeft`, `OptimizationReported`, `MovesOnOpenVolume` (whatever is moved
without a fault is moved on an open volume).

*JobControl, QueryControl.* `ListsOutliveReader`, `FrameOutlivesThreads`,
`DestroyedOnce`, `JobReturns`, `QueryReturns`. The frame outlives all of its users but the
late worker; the calls return unless a late worker has completed them (`"mistaken"`),
and `QueryReturns` names the other cases of section 5 in which a query does not return.

*GuiJob.* `PopulateFindsItsJob`, `LockedWhileProcessing`, `StopEnds`, `CloseEnds`;
`LockReleased` is the property of the run that violates it.

*DebugLog.* `LogSound`: messages are saved in order, to a file they were made for.
`NothingLost`: every message that was collected is on its way, saved, deleted with its
file or thrown away by a flush, and what is thrown away was not made under a settled
path, unless the file could not be opened (`unopened`).
`EveryCallReturns`: every call returns, unless the killer waits for a lock of its own
thread (section 5).

*BootScript.* `RingIsFifo`: keys are read in order and none twice, with the exception
described in section 5. `InitializationEnds`, although the threads count themselves
without a lock. `EscapeEndsScripts`: Escape ends every script. `NoJobAfterBreak`: no
other volume is processed after Escape or Break before the user says so.

Every property of a passing run has a mutant in `PROJECT.json`: a plausible bug
in a definition (operators named `Mut...`), under which TLC finds it violated.

### 3.2 Bounds

* `ntfs_scan`: the nine volumes have children before and behind their base
  records, lists inside and outside, directories with higher and lower numbers
  than their files, with nodes of their index and with a bitmap of it outside of the record, a DOS name, names in two directories, a directory that lies
  in itself, and a path longer than `MaxPath`. Two changes are what it takes to
  read a cycle of parents, or to have a record used again by another file. Each
  exception named by a property occurs: without it the property is violated.
* `move_file`: with eight clusters and two files there are moves of whole files,
  of parts, to partly wrong places, across a hole and across the filter by size of
  fragments in both directions; file `b` was rejected by its path, and comes
  back with its first move. Portions of one cluster make every request but the
  smallest take several calls. Two opened moves (`MaxMoves`) suffice for one to
  meet what the other left; rejected calls and scans are not bounded. Three cells
  make eight clusters fill two cells of three and a shorter last one; the zone
  covers one cell and a part of another one. The theorems of section 4 lift the
  bounds for the properties of `MoveFile`. The map was also checked with five
  and with seventeen cells, where a cell is smaller than a cluster.
* `free_regions`: seven clusters hold up to four regions, so the head, the tail,
  the middle and all kinds of contact between regions occur; five addresses
  are one more than needed at a time; the last portion is shorter than the
  others. Addresses are symmetric, as they are only compared.
* `defragment`: two files of two and three clusters interleaved on eight clusters
  in every way give all orders in the tree, and target regions of every size; the
  file of six clusters under a user's threshold of three clusters gives rows that
  end at the largest region, cuts from the next and the previous neighbour, and
  neighbours that are taken as a whole; a file in two halves (`Halves`) has nothing but
  big fragments. Numbers of moves and passes are not
  bounded.
* `optimize`: seven clusters with an MFT or two directories in three pieces and
  another file in the way give cleaning in several pieces, retries further on and
  portions that are in place already; three sorted files, or two around one that
  is too big (`Limit`), give passes in which a file has to wait for space the pass
  after makes. Groups that are left alone because they are in order already
  (`Magic`, `MagicN`) occur with two files. Moves and passes are not bounded.
* `tasks`: two files suffice for one to be moved and one to be skipped in every
  task; every combination of failures occurs.
* `job_control`, `gui_*`: two volumes are needed for the events of one volume to be
  pending while the next is processed; a queue of three holds the cache events and
  the completion of a job at the same time, two completions of queries that of one
  query and of the next. With queries in the GUI the queue holds two events, enough for one
  of a job to be pending beside one of a query or of the next job; 4.3 is about any bound. Only the queuing threads wait when a queue is full,
  which the real queue does not do.
* `debug_log`: two threads are enough for one to wait for each lock while the other
  holds it; three calls for turning the log on, to another file and off.
* `boot_time`: a ring of two is full after two hits and runs over with the third;
  the fourth shows what becomes of the start index. Two keyboards make the
  count of threads race.

### 3.3 Fairness

* `Defragment`, `OptimizeVolume`: `WF(Job)` - the algorithm goes on as long as it
  can. The moves may fail, and Stop need never come. `NtfsScan`: `WF(Scan)`, the
  same; others need never change anything.
* `JobControl`, `QueryControl`: weak fairness of each thread, since the scheduler
  runs threads that can run; the client reacts if it is one that does;
  `SF(WorkerEnds)` and `SF(QueryEnds)` say that algorithms end by themselves, which
  `Defragment` and `OptimizeVolume` justify.
* `GuiJob`: weak fairness of each thread and of the handlers of pending events;
  `FairGuiSpec` does not assume that algorithms end unless they are stopped,
  `SteadyGuiSpec` adds that. No fairness for the user or for the time limit.
  Liveness is claimed up to what the user may do for ever (a job that stays
  paused) and up to Windows being unable to create the deleter: `Held`.
* `DebugLog`: strong fairness of each thread: a lock is an auto-reset event, and the
  kernel wakes those who wait for it in their order.
* `BootScript`: `WF(Boot)` - the program goes on. Keyboards need never send a key.

### 3.4 Deadlock

TLC looks for deadlocks in `ntfs_scan`, `free_regions`, `defragment`, `optimize` and
`job_control`. Those which come to an end stutter explicitly. Elsewhere the system
really stops: a `MoveFile` behaviour ends with its bounded moves and Stop, a job
of `Tasks` is done or has met a fault, in `GuiJob` the program has exited or hangs
when its window is closed, the program of `DebugLog` has ended or its killer waits
for its own thread, and that of `BootScript` has exited.

## 4. The proofs

TLAPS checks about 24 600 obligations in eight modules; nothing is assumed but the
named assumptions on the constants, which TLC evaluates in the runs. Every
strengthened invariant was checked by TLC on the instance of its run before it
was proved.

### 4.1 MoveFileProofs

For every finite set of files, every volume, layout, portion size and filter
(`ConstantsAssumption`, `LayoutsAssumption`: the initial maps are maps and do not
overlap), and for every size of the cluster map, zone and set of directories
(`MapAssumption`).

1. Lemmas about ranks and chains: the rank of a VCN in a chain is injective and
   smaller than the length, so a relocation of any prefix of a chain to clusters
   nobody owns is a map again (`RelocationIsFileMap`, `DesiredIsFileMap`).
2. `StructureInvariant`: `TypeOK`, a running move stays within its accepted
   request, and no two files share a cluster of the disk.
3. `ViewInvariance`: `FreeViewSound` and `ViewExact` are not inductive. A move
   takes its target out of the free list only when it ends, so one has to know
   that the target was granted from the list (`TargetGranted`), that trusted maps
   do not overlap each other nor the target of a move in progress (`MapsSound`),
   and that a dry run never doubts. There is one lemma per kind of step.
   `FreeRegionsAreFree` and `MapsAreExact` follow.
4. `FragmentedListCorrect`: the tree follows maps and flags by itself
   (`ListInvariance`), and the flags follow the filters (`FlagsInvariance`), but for
   the files in `Readmitted`.
5. `FailuresAreFlagged` by cases on where a negative value is returned.
6. `ProgressArrives`: the helper has two accounts of what is left - `length` and
   the chain - and they differ by the holes of the file; `CountInvariant` says
   that either, added to what has been counted, makes up the request.
   `MoveIsReported` puts the last two together.
7. `StatisticsStayExact`: the counters are sums over all files, and a move changes the
   summand of one (`StatisticsInvariance`; `FlagsInvariance` does the rest). `Sums` says what a sum over subsets of the files is; there is one
   (`FoldsExist`, `SumsUnique`), any summand may be taken first (`SumsTake`), so two
   sums which differ in one summand differ by what it changed (`SumsChange`). The
   cases of `AdjustStatistics` are this difference. Where an induction over the size of the
   subset would be made, the proofs take the smallest one for which the claim fails
   (`SmallestSubset`).
8. `MapStaysExact`: the array is related to a *picture*, one colour for every cluster
   (`Depicts`). The heart is `Paint`: when a set of clusters which all have the old
   colour is painted in a new one, `colorize_map_region` turns the counters of the
   picture into those of the new picture, in either order of cells and clusters, and
   what it subtracts is there. It remains to show for each call that the colour it
   takes for the old one is right - the free target, the file where it was, what it
   has left (`Repainted`) - which needs `MapsSound` of (3), and that the chain fills
   the target (`ChainFills`), which it does unless the file has holes there. `AnalysisDepicts` draws
   the files one after the other. `MapImplementsMove` carries (3) over to `MapSpec`.
9. `CellsAreShownTruly`: no cell is empty and a full one counts its clusters (`FullIs`,
   some arithmetic of rounding up), the counter of the zone is the number of clusters
   of the zone, or in the opposite order what the files have left of it
   (`ZoneInvariance`), and the colour found is really the most frequent one (`CellShown`).

### 4.2 GuiJobProofs: the engine

`JobInvariant` says for each position of the caller what the worker and the
deleter may be doing (`WorkerSound`, `DeleterSound`), which flags may be up
(`FlagsSound`: a flag left over from the job before is what would let the
deleter destroy the lists under the reader), who destroys the lists
(`ListsSound`) and when the client reads (`ReaderSound`). The four theorems are
projections of it. `Acknowledges` is left open. `FrameIsAlive` has to except the late
worker: nothing in the code keeps the frame for it (section 5). What a late worker does to
the job after it is in the invariant (`"mistaken"`), so the other theorems hold with it.

### 4.3 GuiJobProofs: the GUI

For any number of volumes and any bound of the queue.

* `GuiObeysEngine`: `GuiSpec => Spec`. Each step of the GUI is a step of the
  engine or leaves it alone, so the theorems of 4.2 hold in the GUI.
* `PopulateMeetsItsJob`: a request to fill the list is pending only while its
  job is not acknowledged, there is one at most, and the event right before it
  caches the completion of the same volume (`PopulateInvariant`).
* `LockHolds`, for `Queries = FALSE`: a completion clears `m_busy` only when the
  job thread is not at work, since there is one completion at most and none
  while volumes are processed (`LockInvariant`). With queries it is not so, see
  section 5.

About `QuerySpec`, the specification of the run `job_control`: `QueryFrameIsAlive`, with the
same exception as 4.2. It holds because
only `Display` puts the flag up, and the GUI displays on the thread that waits; a worker
that could not be started or has crashed leaves the caller waiting, not the frame gone
(`QuerySound`).

### 4.4 GuiJobProofs: the tasks of a job

About `TasksSpec`. `IInv` adds to the types which task may hold what: the volume is open exactly
while one of the tasks which open it is at work (`VolumeHeld`), the trees and
the temporarily allocated space have their owners (`HeldBy`), an analysis and a
job on UDF reach no task (`Untouched`), and the report of an optimization is the
record of its tasks (`Reporting`): success if and only if one of them has succeeded, where
those which could not open the volume count as failed. One lemma per part; the theorems project it. `VolumeHeld`
says at the same time that no volume is open in `defragment`, see section 5.

`MovesHaveVolume` needs no more than that: it names the tasks in which a move is made.

### 4.5 FreeRegionsProofs

For every size of the volume and any set of addresses.

1. `RingSound` speaks of the order in which a walk from the head meets the items.
   The invariant does not: `Sorted` relates pairs of items - `Linked` (next and
   prev are inverse), `Placed`, `Apart` (regions neither overlap nor touch) and
   `Adjacent` (what follows an item is the next one on the disk). Insertion and
   removal are reduced to what they do to these pairs (`Linking`, `Unlinking`,
   `Moving`), and so are the ways an addition merges its range with neighbours.
2. `WalksExist` and `OrderMeets` get back to the walk, once: a walk of any length exists,
   it meets the items in ascending order and comes back to the head after all of
   them. Instead of an induction scheme, which would take an operator as its
   parameter, the proofs take the least natural number for which the claim fails
   (`LeastNatural`, from the well-foundedness of `<`).
3. `RingStaysSound`: `ScanInv` says that the scan has told the list of everything
   before `at`; `SubInv` that the cursor of a subtraction points at an item, and
   that what is behind it has not been cut yet.
4. `RingImplementsFreeSpace`: each step of the ring is a step of `FreeSpace` or leaves
   the set of clusters alone, with the mapping of section 2.3.
5. `SearchesStayRight`: a search stops at the first region that fits in the order it
   follows, so the order of (2) gives the lowest, the highest and a longest one.

### 4.6 OptimizeVolumeProofs

For every volume, any number of files and any scenarios of which
`ScenariosAssumption` holds: every file has clusters (the others are not moved,
`move.c:105`), no cluster belongs to two of them, and there is one MFT.

1. *Moves.* `Sound`: maps are finite, one to one and apart from each other and from
   the free list. A range is `Vacant` if it belongs to no file. `SuccessKeeps`,
   `FailsKeeps` and `PartlyKeeps`: a move to a vacant range keeps `Sound` and does
   nothing but to `Shift` the chain there, in order. `ChainIs` and `ChainFull` say what a
   chain consists of, `AdvanceIs` that `advance_vcn` skips it and no more.
2. *One file.* The targets are free regions, or space which has been cleaned up while
   moves of other blocks went on. That this space is still vacant when it is used is
   the heart of it: `Prepared` and `BlockLeft` say how far a block in the way has gone,
   piece by piece, and that the pieces go neither to what has been cleaned
   nor in between it and what has been processed (`PieceKeeps`). `Processed`: the
   processed part lies in order below `Base`, the beginning of what is being
   cleaned, and the rest has as many clusters as `to_process` says, so
   that `to_process = 0` means the whole file is in order (`AllProcessed`).
3. *Sorting.* `Cleared`: no file still to be sorted has a cluster before `end_lcn` (during
   the cleaning before `min_lcn`). Targets are below it, therefore what moves to the
   front moves down. `SortOrder`: placed files precede `cur` in the tree and lie before
   `start_lcn`. A stopped search leaves nothing cleared, hence the disjunct `stopped`.
4. *Both.* `Frame` says that one of the two is at rest while the other works and what
   they leave to each other. `StepKept` is proved per action; the four theorems
   `FilesGetInOrder`, `PlacementStaysSorted`, `WhatMustStayStays` and `PlacedFilesMoveDown`
   project it.

Without the first clusters of the file before everything else (`Processed` requires
that the first VCN has been processed) and without one MFT the pieces of a block could
be those clusters, and `RestStays` would fail.

### 4.7 DebugLogProofs

For every set of threads and of paths, and any number of messages. `HoldsRight` says for each thread which lock it
holds where; only the main thread changes the path, and only it can meet the
killer with a lock of its own. `Order`: the numbers of messages ascend from the files
over the detached list of each flush to the list, so nothing is saved twice or out of
order (`LogStaysSound`). For `MessagesAreKept` one has to know that messages fit
the path in force *while it is being changed*: `Fits` says that what is in the
list fits the path it will be saved to, also when the path is pending (`Late`) or
gone. That every message is accounted for (`Accounted`) is shown step by step: whatever takes
messages from one place puts them into another one, and a flush which cannot open its
file is the only one that puts messages of a settled path into `lost`, where they are in
`unopened` as well.

### 4.8 BootScriptProofs

For every number of keyboards, length of the ring and depth of scripts.
`RingInOrder`: read from `start_index` on, modulo the length of the array, the numbers
of the key hits ascend from the last one read, and an index that has run over
the end goes with a full ring, which is the exception `RingIsFifo` makes
(`RingKeepsOrder`). `ScriptInv`: after an Escape `escape_flag` is up until the outermost script
is left, and `broken` is what `abort_flag` says; `EscapeEndsAll` and `BreakEndsJobs`
follow.

### 4.9 DefragmentProofs

For every volume, number of files, threshold and layout of which `ScenariosAssumption`
holds, holes in files included: `PassesAreExhaustive` (1 to 3) and `FilesStayApart` (4); and
where files have no holes (`WithoutHoles`) also `JoiningAlwaysHelps` (5 to 9). `PassInv` says of a pass which has
moved nothing so far (`Fruitless`) that the file before each position has been dealt with,
and how: it is flagged, or it is to be joined, or no region takes it.

1. The order of the tree, `Precedes`, is total (`OrderIsTotal`): the file which is next is the
   first one behind the current one (`NextOfIs`), so that nobody is skipped, although
   the tree is looked up in the maps as they are now.
2. What has no room finds none later: as long as no move succeeds the list of free
   regions only shrinks (`RoomShrinks`, `MoveIs`). `RegionIs` and `FirstRegionIs` say what
   the searches return, `NoTargets` and `RoomIs` when that is nothing.
3. A move that fails may relocate a part of the file, which gives it another place in the
   tree; but then it is in `failed`, and the others keep theirs (`SameFile`).

4. *Apart* (`TypeInv`, `Sound`): a target is a range of the free list, so it is vacant
   (`FreeIsVacant`), and what a relocation of any prefix of a chain does is as in 4.6.
5. *Fragments.* `Fragments` is a recursive function over the VCNs. `FragmentsAre` compares it to a list
   that is written down directly, by ranks (`Rank`, `Nth`), and finds no least VCN
   where they differ; `FragmentListIs` says what follows of the list, and `TotalIs` that the sum of
   the lengths in a row is the number of clusters it covers.
6. *Cuts.* `CutIs`: what is cut off from a neighbour makes the row as long as the threshold
   asks, and leaves of the neighbour nothing or what is not little. This is where the
   rounding up of `Cut` is needed. `ChoiceIs` has the three kinds of a choice.
7. *Without holes* a fragment is an interval which ends where the next one begins
   (`LengthIs`, `LeftFollow`), so a row is one, too (`RowTotal`), and a chosen chain is
   `p .. q - 1` for some `p` and `q` between which a fragment begins (`ChoiceJoins`).
8. *After the move* nothing begins between `p` and `q`, and elsewhere what did before
   (`BeginsJoined`); so no fragment has become little by being cut (`LittleJoined`), and the joined one is
   little only if two of the joined ones were (`JoinedNotLittle`). One start has been traded for
   at most one, and a little one is gone (`JoinHelps`).
9. A file which is moved as a whole is one fragment (`WholeGains`); it is little only
   if all of its fragments were.

The hypothesis is needed: for a file with a hole the property is false (section 5).

### 4.10 NtfsScanProofs

For volumes and lists of any length, any number of changes and all tables of which
`TablesAssumption` and `NamesAssumption` hold (lists name records of their file, the first
two pieces of one attribute have different places, every file has a name in its base
record, and what it lies in is a base record with an index): `ListIsExact` and
`PathsAreTrue`. The invariants are `Inv` (1 to 4) and `PathInv` (5 to 8).

1. *The table.* Others turn over a record of a file together with the file itself
   (`Turned`, `OthersDisturb`), so a file that is not in `touched` and the records its list names
   look the same throughout. `Right` is kept for it: what its list names are records of
   its own with one attribute of that key each. This is why `Accepted`, which does not
   ask whose record it reads, is harmless there.
2. *The list.* While a file is read, its entries are the head of a list which ascends
   (`Current`); what `AddPiece` does to one stream it does to no other (`Exact`). The list
   is about streams, the table about keys: `KeysOf` a stream are those it may come from, and
   an attribute which is not `Merged` has the pieces of its stream to itself (`Alone`, `AloneIs`).
3. *The file which is read* (`Underway`): its entries hold the sum of the pieces of the
   records up to the position in the attribute list (`Matches`, `Sums`). The sums are
   those of `PiecesOf`: `FlattenIs` and `PiecesAre` relate the fold to its partial results,
   by an induction made by hand (`UpTo`).
4. *Files which have been read* stay `Exact` (`Complete`): later entries have other
   numbers, `validate_blockmap` empties no map of two pieces at different places
   (`Right` again), and what is removed at the end has no clusters, or no path - and all
   have paths, or nobody has (`Pathed`).
5. *Names* (`Named`, `Learning`, `Learned`): what `NamesAssumption` says of the table stays
   true of untouched files, except that what they lie in may be touched. `UpdateName` ends
   with the best of the names it was given (`Told`, `NamesAre`), and the index of a
   directory lies before all of its streams but the attribute list, unless it is
   `Shadowed` (`FirstIs`, `IndexIs`); later files only push both down the list (`Shifted`).
6. *Paths* (`Walked`, `Truthful`): a path leads down a `Route` of parents and shows a proper
   name of each, if it is not too long. This is stated of a file which lies in a set of
   untouched directories that is closed under parents (`Trusted`) rather than of
   `Ancestors`, since such a set serves the file and each of its directories alike. One
   step up joins two routes (`RoutesJoined`, `ShowsJoined`): that of the directory found
   (`DirectoryIs`), or the path it has got before.
7. *`Ancestors` is such a set* (`AncestorsHome`): each of its steps adds a record or none is
   left to be added, and there are no more steps needed than there are records.
8. *`PathTo` is the route*: a route from the root meets no file twice (`RouteOnce`: two ways
   from the same file would reach the root at different lengths), so it is no longer
   than there are records (`RouteShort`) and the fold has come to its end (`PathIsRoute`).

### 4.11 Model-checked only

* Liveness: `JobReturns`, `QueryReturns`, `StopEnds`, `CloseEnds`, `Terminates`,
  `EveryCallReturns`, `InitializationEnds`, `ScanEnds`. TLAPS does not prove liveness
  under fairness.

## 5. What the checks found

All of this is about this revision of the source as it is read; none of it was
tried on a running system. One run ends in a violation, the other findings
are exceptions the properties name, so that nothing else hides behind them.

**`gui_lost_start`** - `JobThread::Entry` queues the completion before it deletes
`m_volumes` and clears `m_launch` (`job.cpp:234`). A job started in between is
wiped out, and `m_busy` stays set, because no completion follows.

*Jobs and tasks*

* After a job or query has failed its worker reads `completion_status` once more
  (`udefrag.c:309-310`, `query.c:97-98`), behind the comment "now it is safe to adjust the
  completion status" (`udefrag.c:308`). The caller may have seen the failure, destroyed
  the lists and returned by then; the parameters were on its stack. If the next job has put
  its own there, a 0 read becomes a 1 and that job counts as complete while it
  runs. A compiler that keeps the value in a register hides it. To see it: `job_control` with
  `FrameUsers \subseteq {}` in `FrameOutlivesThreads`.
* After a success `udefrag_start_job` waits until the client has called
  `gui_fileslist_finished` (`udefrag.c:523`). The console and the boot time program
  do not call it. To see it: `job_control` with `Acknowledges = FALSE`, `JobReturns`.
* `~MainFrame` waits for the job thread (`main.cpp:501`), the job thread waits for
  the engine, and the engine for an event handler of the thread that is waiting:
  the exception of `CloseEnds`.
* Neither `defragment` nor anything it calls opens the volume, and an optimization
  has closed it before it calls `defragment` (`defrag.c:504`); the handle is NULL
  then and `Tasks` ends with `fault = "volume"`.
* `udefrag.c:871` and `:848` use a pointer that is NULL when nothing was found
  (`Tasks!SingleNoRegion`, `SingleListEmpty`).
* In a fragment with holes the arithmetic on VCNs picks the wrong clusters to cut
  (`defrag.c:396`); one pass splits the fragment, the next joins it, and each of
  them has moved clusters. To see it: `defragment` with `Scenarios <- HoleFirst`,
  `Files = {1}` and `NClusters = 12`, `JoiningHelps` and `Terminates`.
* `MoveFile!Update` re-applies the filters by size and fragments only, as
  `move.c:697-706` does, so a file rejected by its path, or as temporary, is counted and
  enters the tree with its first move: it is in `Readmitted`, the exception of
  `StatisticsExact` and `FragmentedListExact`. "The program never treats those files as
  fragmented even if they actually are" (`doc/handbook/01_intro.dox:90-91`). To see it:
  `move_file` with `PathExcluded \ Readmitted` in `Rejected` replaced by `PathExcluded`.
* In `PortionFails` the rest of a chain is counted twice (`move.c:249` and `298`):
  `CountedEntirely` is an inequality for that reason.
* After a partial success the whole target is drawn as filled, and counters that
  would get below zero are clamped (`map.c:195`): from then on the cluster map may
  differ from the maps of the files (`blurred`).
* `optimize_directories` marks every fragmented file it passes as excluded
  (`optimize.c:362`), so a file is not moved out of the way of the directories that
  come after it.

*Queries*

* The completion of a query clears `startGUI` in the parameters of the next one
  (`query.cpp:200-201`, `257`); the engine then waits for a display nobody has
  asked for. A query requested while one runs may be dropped. A query whose thread
  could not be started or whose options fail waits for ever as well
  (`query.c:137-151`). `QueryReturns` names these cases. `query.c:214` uses the
  first file of a list that may be empty.
* `GuiJob!OnQueryCompletion` clears `m_busy` while a job runs (`query.cpp:254`),
  which is why `LockedWhileProcessing` is checked and proved without queries.
  A query also takes a Stop back (`m_stopped = FALSE`), so `StopEnds` is checked without
  queries, too.

*Debug log*

* `winx_set_dbg_log` creates the path of the file under the lock of the file. With a
  file in a root directory that allocates memory (`volume.c:322`); if it fails, the
  killer flushes the log, which waits for the lock its own thread holds. It is the
  exception of `EveryCallReturns` and contradicts the comment `dbg.c:44-48`.
* If the path cannot be duplicated (`dbg.c:444-449`) or the file cannot be opened
  (`dbg.c:341-350`), the messages collected so far are thrown away: the exceptions
  of `NothingLost` (`unset`, `unopened`). A flush detaches the messages before it opens the
  file, and nobody puts them back.

*Boot time*

* With a full ring `start_index` is moved on without wrapping (`keyboard.c:157-158`).
  The next read then takes a record from behind the array and the newest key hit is
  lost, unless another hit comes first and "unexpected condition #1" mends the index.
* `kb_open` resets neither `start_index` nor `n_written`, although the comment above the
  call says "Reset keyboard queues" (`keyboard.c:448-451`): keys hit during the initialization end
  the program at "Press any key to exit", or abort the first job.
* `abort_flag` is reset outside of the scripting mode only (`native/udefrag.c:395`): a
  script called from the interactive mode after an aborted job skips its jobs. An
  Escape met by the check of a script itself (`script.c:97-99`) ends only the
  innermost script.

*Scan*

* Directories moved while the records are read may look like lying in each other.
  `build_file_path` then goes round until the user stops the job; only a directory
  that lies in itself is recognized. "The scanner should catch all errors and never
  hang/crash" (`ftw_ntfs.c:33-34`). To see it: `ScanEnds` without `Cyclic`.
* `update_file_name` takes the parent of the last name it sees and may keep the name
  it saw before: a file with names in two directories gets a path it does not have.
* Attributes get one stream for each *name*, and `get_attribute_name` makes the name of
  the main stream of everything called `$I30` (`ftw_ntfs.c:359-361`). It is meant for the nodes of an
  index ("never append index allocation attribute names"), but the bitmap of the index has that name
  too, and when it lies outside of its record its clusters are added to the directory
  (`:1053`): the map has too many of them, and if the index has one block, both begin at
  VCN 0 and `validate_blockmap` destroys the map. To see it: `ListExact` without `Merged`.
  The same would be so for other indexes with a name of their own (`$SDH` and the like),
  which are left out.
* A stream with a name of its own is told from the index of a directory by the
  characters `:$` only (`ftw_ntfs.c:1413`); if it is met after the index, as in a child
  record, it is nearer to the head of the list and becomes a part of the path of every
  file below.
* A child record is accepted if it belongs to any file (`ftw_ntfs.c:665`); sequence
  numbers are dropped, so a record that has been used again adds clusters of a
  stranger. Only files that have been changed meanwhile are concerned, see `ListExact`.
* `validate_blockmap` compares the first two blocks and destroys the map without
  resetting `fragments` and `clusters`.

*Threads of the GUI, read but not modelled*

* The constructor of the frame deletes a thread that ends only when the destructor
  sets an event (`main.cpp:488`, `498`). `ListThread` and its like clear their request
  after they have queued the answer (`vollist.cpp:353-356`, `366-368`, `upgrade.cpp:102`),
  so a request in between is lost. `config.cpp:315` reloads at every second notification.

## 6. What is not modelled

* *The walk through directories* (`ftw_helper` of `ftw.c`), used for FAT and other file
  systems: enumerates directories by name; what others rename meanwhile it does
  not find. *Layout of records and runs, flags and times, failed allocations* of the
  NTFS scan: decoding. `DebugLog` shows what a failed allocation leads to in general.
* *Options, reports, text* (`options.c`, `reports.c`, `auxiliary.c`, formatting):
  parsing and output.
* *Red-black trees* (`prb.c`): a third-party library; the models use ordered sets.
* *Wrappers and the C library* of `zenwinx`: no state of their own. Volume
  information, opening and flushing are single system calls.
* *Widgets, settings, downloads, the shutdown countdown, crash reports, boot
  registration, hibernation, the installer, Lua*: no state shared with the engine.
  The console is a client of `JobControl`.
* *The other threads of the GUI* (list of volumes, upgrades, configuration, boot time
  check): see the end of section 5.
* *STOPGAP experiments*: a separate prototype, not linked into jobs.
* *Colours of locked and of compressed files* and the recolouring of single moves in
  the cluster map.
* *Commands of boot time scripts* which neither wait for a key nor process a volume.
* *Code under `TEST_SPECIAL_FILES_DEFRAG`*: not built.
* *What a dump says about a file being written by its owner*: the models let other
  programs take and release clusters, not rewrite a tracked file while it is moved.
* *64-bit overflow of cluster numbers*: the numbers are bounded by the volume size.

## 7. Plan

Done, from the heart of the engine outwards: `MoveFile`, `FreeRegions`, `JobControl`,
`GuiJob`, `Defragment`, `Tasks`, then `Optimize`, `OptimizeFile` and their composition,
`ClusterMap`, `QueryControl`, `DebugLog`, `Keyboard`, `BootScript`, `NtfsScan`.

Proved: the view, the flags and the counters of moves, the statistics and the cluster
map; the lists, frames and events
of jobs; handles and reports of tasks; the ring of free regions and its
refinement; the completeness of the passes of a defragmentation and what its moves
achieve; order and fixed
places of an optimization; the debug log; the ring of keys and the scripts; the
list of files a scan yields, and their paths.

Every property of a run but the liveness ones is stated by a theorem. What a proof
could add next is about GUI and queries together: `LockHolds` fails there (section 5),
and the exceptions that would make it true are the findings.

Modules worth adding: the walk through directories beside `NtfsScan`, and the
threads of the GUI with their lost requests.

## 8. Running it

    tlc -workers 2 -config MoveFile.cfg MCMoveFile.tla
    tlapm MoveFileProofs.tla

Each run ends within four minutes on two cores. `PROJECT.json` lists for each
run its module and configuration, for each definition the lines of code it
models, the mutants, the findings, the hazards and the theorems.
