-------------------------------- MODULE Tasks --------------------------------
(***************************************************************************)
(* What start_job (dll/udefrag/udefrag.c) does between the moment the      *)
(* worker thread starts and the moment it publishes the completion status: *)
(* the analysis, the tasks the job consists of (analyze.c, optimize.c,     *)
(* defrag.c), the volume handle they share, jp->fVolume, and how their     *)
(* results become the result of the job.  Which files a task moves is a    *)
(* matter of MoveFile and Defragment; here a task has a number of files    *)
(* left, each of which is moved or not.                                    *)
(***************************************************************************)
EXTENDS Naturals, Integers

CONSTANTS
    Jobs,        \* the types of jobs the client may ask for
    MaxFiles     \* at most so many files are processed by a task (bound)

Analysis == "analysis"
Optimizations == {"full_optimization", "quick_optimization"}
SingleFile == {"single_file_front", "single_file_end"}
JobTypes == {Analysis, "defragmentation", "mft_optimization"} \union Optimizations \union SingleFile

ASSUME JobsAssumption == Jobs \subseteq JobTypes
ASSUME FilesAssumption == MaxFiles \in Nat

FileSystems == {"NTFS", "FAT", "UDF", "other"}

VARIABLES
    job_type,          \* jp->job_type
    fs,           \* jp->fs_type
    dry_run,      \* jp->udo.dry_run
    task,         \* the routine the worker is in
    step,         \* how far it is: "enter", "files", "region", "leave"
    left,         \* files the routine has not processed yet
    fVolume,      \* jp->fVolume: "NULL" or "open"
    handles,      \* volume handles the job holds
    held,         \* what else it has allocated
    task_result,       \* the result of the routine, then of the job
    overall,      \* overall_result of optimize
    stopped,      \* the client wants the job to stop
    succeeded,    \* the tasks of the job which returned zero
    failed,       \* those which returned an error
    movers,       \* the tasks that made a request to move clusters
    fault,        \* a NULL pointer which has been used
    completion    \* jp->pi.completion_status

place == <<task, step>>
volume == <<fVolume, handles>>
nature == <<job_type, fs, dry_run>>
results == <<succeeded, failed>>
vars == <<nature, place, left, volume, held, task_result, overall, stopped,
          results, movers, fault, completion>>

\* is_fat of the volume, as get_volume_information sets it.
is_fat == fs = "FAT"

TasksInit ==
    /\ job_type \in Jobs /\ fs \in FileSystems /\ dry_run \in BOOLEAN
    /\ task = "start" /\ step = "enter" /\ left = 0
    /\ fVolume = "NULL" /\ handles = 0 /\ held = {}
    /\ task_result = -1 /\ overall = -1
    /\ stopped = FALSE /\ succeeded = {} /\ failed = {} /\ movers = {}
    /\ fault = "none" /\ completion = 0

\* The worker has met no NULL pointer, so it goes on.
In(t, s) == task = t /\ step = s /\ fault = "none"

GoTo(t) == task' = t /\ step' = "enter"

-----------------------------------------------------------------------------
(* The beginning of the job and the analysis.                              *)

\* create_file_blocks_tree, for every job: the condition is always true.
Begin ==
    /\ In("start", "enter") /\ GoTo("analysis")
    /\ held' = held \union {"file_blocks"}
    /\ UNCHANGED <<nature, left, volume, task_result, overall, stopped, results,
                   movers, fault, completion>>

\* The volume cannot be scanned; a stopped scan is no failure.
AnalysisFails ==
    /\ In("analysis", "enter") /\ GoTo("end") /\ task_result' = -1
    /\ UNCHANGED <<nature, left, volume, held, overall, stopped, results,
                   movers, fault, completion>>

\* check_requested_action: UDF volumes can be analyzed only.
Refused == job_type # Analysis /\ fs = "UDF"

\* Where the job goes when nothing speaks against it.
FirstTask ==
    CASE job_type = Analysis -> "end"
      [] job_type = "defragmentation" -> "defragment"
      [] job_type = "mft_optimization" -> "mft"
      [] job_type \in SingleFile -> "single"
      [] job_type \in Optimizations ->
            IF is_fat THEN "directories" ELSE IF fs = "NTFS" THEN "mft" ELSE "optimize"

\* The job ends with success before it has begun to move files: it has been
\* stopped, the fragmentation is below the threshold, or there is no MFT.
NothingToDo ==
    \/ job_type \in {"defragmentation", "mft_optimization"} \union Optimizations /\ stopped
    \/ job_type \in {"defragmentation"} \union Optimizations
    \/ job_type = "mft_optimization" /\ fs # "NTFS"

\* What obliges it to.
MustNotGoOn ==
    \/ job_type \in {"defragmentation", "mft_optimization"} \union Optimizations /\ stopped
    \/ job_type = "mft_optimization" /\ fs # "NTFS"

\* The analysis succeeds; a job of the wrong kind is refused at its end.
AnalysisEnds ==
    /\ In("analysis", "enter")
    /\ IF Refused THEN task_result' = -9 /\ GoTo("end")
       ELSE /\ task_result' = 0
            /\ \/ NothingToDo /\ GoTo("end")
               \/ ~MustNotGoOn /\ GoTo(FirstTask)
    /\ UNCHANGED <<nature, left, volume, held, overall, stopped, results,
                   movers, fault, completion>>

-----------------------------------------------------------------------------
(* The tasks: each opens the volume, except defragment.                    *)

OpeningTasks == {"directories", "mft", "optimize", "single"}

\* What is run after the task t of the job.
After(t) ==
    CASE t = "directories" -> "optimize"
      [] t = "mft" -> IF job_type \in Optimizations THEN "optimize" ELSE "defragment"
      [] t = "optimize" -> "defragment"
      [] OTHER -> "end"

MutReport(t, r) ==
    /\ succeeded' = IF r = 0 THEN succeeded \union {t} ELSE succeeded
    /\ failed' = IF r = 0 THEN failed ELSE failed \union {t}
    /\ overall' = IF job_type \in Optimizations THEN r ELSE overall

\* In an optimization every task may fail, and one success is enough.
Report(t, r) ==
    /\ succeeded' = IF r = 0 THEN succeeded \union {t} ELSE succeeded
    /\ failed' = IF r = 0 THEN failed ELSE failed \union {t}
    /\ overall' = IF job_type \in Optimizations /\ r = 0 THEN 0 ELSE overall

OpenFails(t) ==
    /\ In(t, "enter") /\ GoTo(After(t)) /\ task_result' = -1
    /\ Report(t, -1)
    /\ UNCHANGED <<nature, left, volume, held, stopped, movers, fault, completion>>

MutOpenVolume(t) ==
    /\ In(t, "enter") /\ task' = t /\ step' = "files"
    /\ UNCHANGED fVolume /\ handles' = handles + 1
    /\ left' \in IF t = "mft" THEN 0..1 ELSE 0..MaxFiles
    /\ task_result' = IF t = "mft" /\ left' = 0 THEN -1 ELSE 0
    /\ held' = IF t = "optimize" THEN held \union {"sorted_files"} ELSE held
    /\ UNCHANGED <<nature, overall, stopped, results, movers, fault, completion>>

\* optimize_routine builds its tree of files once the volume is open; the
\* MFT is a single file, which may be missing from the list of files.
OpenVolume(t) ==
    /\ In(t, "enter") /\ task' = t /\ step' = "files"
    /\ fVolume' = "open" /\ handles' = handles + 1
    /\ left' \in IF t = "mft" THEN 0..1 ELSE 0..MaxFiles
    /\ task_result' = IF t = "mft" /\ left' = 0 THEN -1 ELSE 0
    /\ held' = IF t = "optimize" THEN held \union {"sorted_files"} ELSE held
    /\ UNCHANGED <<nature, overall, stopped, results, movers, fault, completion>>

\* defragment: no winx_vopen, jp->fVolume is what the task before left there.
EnterDefragment ==
    /\ In("defragment", "enter") /\ task' = "defragment" /\ step' = "files"
    /\ left' \in 0..MaxFiles
    /\ UNCHANGED <<nature, volume, held, task_result, overall, stopped, results,
                   movers, fault, completion>>

\* move_file_clusters: a dry run makes no request, so it needs no volume.  On
\* NTFS the space a move has released stays temporarily allocated.
Request ==
    \/ /\ dry_run \/ fVolume = "open"
       /\ movers' = movers \union {task}
       /\ held' = IF fs = "NTFS" /\ ~dry_run
                  THEN held \union {"temporary_space"} ELSE held
       /\ UNCHANGED fault
    \/ /\ ~dry_run /\ fVolume = "NULL"
       /\ fault' = "volume" /\ UNCHANGED <<movers, held>>

SkipFile(t) ==
    /\ In(t, "files") /\ left > 0 /\ ~stopped /\ left' = left - 1
    /\ UNCHANGED <<nature, place, volume, held, task_result, overall, stopped,
                   results, movers, fault, completion>>

MoveNext(t) ==
    /\ In(t, "files") /\ left > 0 /\ ~stopped /\ left' = left - 1
    /\ Request
    /\ UNCHANGED <<nature, place, volume, task_result, overall, stopped, results,
                   completion>>

\* release_temp_space_regions, at the beginning of every pass.
NewPass(t) ==
    /\ In(t, "files") /\ "temporary_space" \in held
    /\ held' = held \ {"temporary_space"}
    /\ UNCHANGED <<nature, place, left, volume, task_result, overall, stopped,
                   results, movers, fault, completion>>

\* The common end of the tasks, also when the MFT has not been found.
LeaveVolume(t) ==
    /\ In(t, "files") /\ (left = 0 \/ stopped) /\ GoTo(After(t))
    /\ fVolume' = "NULL" /\ handles' = handles - 1
    /\ held' = held \ {"sorted_files"} /\ Report(t, task_result)
    /\ UNCHANGED <<nature, left, task_result, stopped, movers, fault, completion>>

\* defragment returns zero to start_job; optimize and optimize_mft ignore
\* that and return what their own tasks have left.
LeaveDefragment ==
    /\ In("defragment", "files") /\ (left = 0 \/ stopped) /\ GoTo("end")
    /\ task_result' = IF job_type \in Optimizations THEN overall ELSE task_result
    /\ UNCHANGED <<nature, left, volume, held, overall, stopped, results,
                   movers, fault, completion>>

-----------------------------------------------------------------------------
(* movefile_to_start_or_end: the files of UD_CUT_FILTER, one by one.       *)

CloseSingle(r) ==
    /\ GoTo("end") /\ task_result' = r
    /\ fVolume' = "NULL" /\ handles' = handles - 1
    /\ UNCHANGED <<nature, left, held, overall, stopped, results, movers,
                   fault, completion>>

\* The path cannot be converted: the result stays what it has been.  It is
\* not among the files found, or the file cannot be moved: failure.
SingleAbandoned ==
    /\ In("single", "files") /\ left > 0
    /\ CloseSingle(task_result) \/ CloseSingle(-1)

\* The scan has been stopped before it found a file: the list is empty.
SingleListEmpty ==
    /\ In("single", "files") /\ left > 0 /\ stopped /\ fault' = "file"
    /\ UNCHANGED <<nature, place, left, volume, held, task_result, overall, stopped,
                   results, movers, completion>>

SingleMatches ==
    /\ In("single", "files") /\ left > 0 /\ step' = "region"
    /\ UNCHANGED <<nature, task, left, volume, held, task_result, overall, stopped,
                   results, movers, fault, completion>>

\* No region is large enough, or the search returns at once since the job has
\* been stopped; region->lcn is read before the pointer is tested.
SingleNoRegion ==
    /\ In("single", "region") /\ fault' = "region"
    /\ UNCHANGED <<nature, place, left, volume, held, task_result, overall, stopped,
                   results, movers, completion>>

\* A region is found and move_file is called, which may fail.
SingleMove ==
    /\ In("single", "region") /\ ~stopped
    /\ Request
    /\ step' = "files" /\ left' = left - 1
    /\ UNCHANGED <<nature, task, volume, task_result, overall, stopped, results,
                   completion>>

SingleMoveFails == In("single", "region") /\ CloseSingle(-1)

\* The loop is over: result = 0.
SingleEnds == In("single", "files") /\ left = 0 /\ CloseSingle(0)

-----------------------------------------------------------------------------
(* The end of the job and the client.                                      *)

MutEnd ==
    /\ In("end", "enter") /\ GoTo("done")
    /\ held' = held \ {"file_blocks"}
    /\ completion' = IF task_result = 0 THEN 1 ELSE task_result
    /\ UNCHANGED <<nature, left, volume, task_result, overall, stopped, results,
                   movers, fault>>

\* destroy_file_blocks_tree, release_temp_space_regions and the status; a
\* successful job has the status 1, since 0 means that it is running.
End ==
    /\ In("end", "enter") /\ GoTo("done")
    /\ held' = held \ ({"file_blocks"} \union
                       (IF job_type # Analysis THEN {"temporary_space"} ELSE {}))
    /\ completion' = IF task_result = 0 THEN 1 ELSE task_result
    /\ UNCHANGED <<nature, left, volume, task_result, overall, stopped, results,
                   movers, fault>>

\* The terminator answers nonzero from now on.
Stop ==
    /\ ~stopped /\ task # "done" /\ stopped' = TRUE
    /\ UNCHANGED <<nature, place, left, volume, held, task_result, overall, results,
                   movers, fault, completion>>

-----------------------------------------------------------------------------
Tasks == OpeningTasks \ {"single"}

Single ==
    \/ SingleAbandoned \/ SingleListEmpty \/ SingleMatches \/ SingleNoRegion
    \/ SingleMove \/ SingleMoveFails \/ SingleEnds

TasksNext ==
    \/ Begin \/ AnalysisFails \/ AnalysisEnds
    \/ \E t \in OpeningTasks : OpenFails(t) \/ OpenVolume(t)
    \/ EnterDefragment
    \/ \E t \in Tasks \union {"defragment"} : SkipFile(t) \/ MoveNext(t) \/ NewPass(t)
    \/ \E t \in Tasks : LeaveVolume(t)
    \/ LeaveDefragment
    \/ Single \/ End \/ Stop

TasksSpec == TasksInit /\ [][TasksNext]_vars

-----------------------------------------------------------------------------
(* Properties.                                                             *)

TasksTypeOK ==
    /\ job_type \in Jobs /\ fs \in FileSystems /\ dry_run \in BOOLEAN
    /\ task \in OpeningTasks \union {"start", "analysis", "defragment", "end", "done"}
    /\ step \in {"enter", "files", "region"}
    /\ left \in 0..MaxFiles \union {1}
    /\ fVolume \in {"NULL", "open"} /\ handles \in {0, 1}
    /\ held \subseteq {"file_blocks", "sorted_files", "temporary_space"}
    /\ task_result \in {-9, -1, 0} /\ overall \in {-1, 0}
    /\ stopped \in BOOLEAN
    /\ succeeded \subseteq OpeningTasks /\ failed \subseteq OpeningTasks
    /\ movers \subseteq OpeningTasks \union {"defragment"}
    /\ fault \in {"none", "volume", "file", "region"}
    /\ completion \in {-9, -1, 0, 1}

\* Whatever fails or is stopped, a job that ends has closed the volume, freed
\* its trees and left no temporarily allocated space in the list of free
\* regions, which outlives it.
NothingLeft ==
    task = "done" => handles = 0 /\ fVolume = "NULL" /\ held = {}

\* "at least something succeeded" (optimize.c 1039): an optimization that has
\* come to its tasks is reported as a success exactly when one of them has
\* succeeded, and none moves a file before or without coming to them: neither
\* the result of defragment nor that of the analysis replaces theirs.
OptimizationReported ==
    job_type \in Optimizations /\ task = "done" =>
        IF succeeded \union failed # {}
        THEN completion = IF succeeded # {} THEN 1 ELSE -1
        ELSE movers = {}

\* "cannot defragment/optimize UDF volumes" (analyze.c 842): no request is
\* made on one, and none by an analysis.
UdfUntouched == movers # {} => fs # "UDF" /\ job_type # Analysis

\* "The volume must be opened before this call, jp->fVolume must contain a
\* proper handle" (move.c 195): whatever runs before it, and however it has
\* ended, a task which moves files has a volume to do so, except defragment,
\* which relies on a handle the tasks before it have closed (defrag.c 504).
MovesOnOpenVolume == fault = "volume" => task = "defragment"
=============================================================================
