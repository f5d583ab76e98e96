-------------------------------- MODULE GuiJob --------------------------------
(***************************************************************************)
(* The GUI around the engine (wxgui/job.cpp, query.cpp, fileslist.cpp,     *)
(* main.cpp): the MAIN thread handles the user's commands and the events   *)
(* other threads queue for it, one at a time; the JOB thread passes the    *)
(* selected volumes to udefrag_start_job one by one, so that it is the     *)
(* caller of JobControl; the QUERY thread runs queries.  The threads share *)
(* the members of MainFrame and JobThread, without a lock.                 *)
(***************************************************************************)
EXTENDS JobControl, Integers, Sequences

CONSTANTS
    MaxVolumes,   \* bound on the number of volumes selected
    MaxQueue,     \* bound on the length of the event queue
    Queries       \* the user performs queries, too

ASSUME BoundsAssumption == MaxVolumes \in Nat /\ MaxQueue \in Nat /\ Queries \in BOOLEAN

VARIABLES
    queue,      \* the pending events of MainFrame, in the order of arrival
    main,       \* what the main thread does
    cache,      \* m_jobsCache: the completion status cached for a volume
    m_busy, m_paused, m_stopped,
    closing,    \* g_synchEvent is set
    m_launch, m_volumes, \* of JobThread: the request OnStartJob leaves
    job,        \* what the job thread does
    selected,   \* m_selected
    index,      \* the volume being processed
    m_startquery, query  \* of QueryThread, and what it does

frame == <<queue, main, cache, closing>>
switches == <<m_busy, m_paused, m_stopped>>
request == <<m_launch, m_volumes>>
thread == <<job, selected, index>>
queries == <<m_startquery, query>>
gui == <<frame, switches, request, thread, queries>>
all == <<engine, gui>>

Volumes == 1 .. MaxVolumes
Freed == -1      \* m_volumes after delete

\* FilesPopulateList calls gui_fileslist_finished, so the GUI acknowledges.
GuiInit ==
    /\ Init /\ Acknowledges
    /\ queue = <<>> /\ main = "loop" /\ cache = [v \in Volumes |-> 0]
    /\ m_busy = FALSE /\ m_paused = FALSE /\ m_stopped = FALSE /\ closing = FALSE
    /\ m_launch = FALSE /\ m_volumes = 0
    /\ job = "idle" /\ selected = 0 /\ index = 1
    /\ m_startquery = FALSE /\ query = "idle"

CacheJob(v, s) == [type |-> "CacheJob", volume |-> v, status |-> s]
PopulateFilesList(v) == [type |-> "PopulateFilesList", volume |-> v]
JobCompletion == [type |-> "JobCompletion"]
QueryCompletion == [type |-> "QueryCompletion"]

\* Nobody handles events once the frame is being destroyed.
Queue(events) ==
    \/ main \in {"exiting", "gone"} /\ UNCHANGED queue
    \/ main \notin {"exiting", "gone"} /\ Len(queue) + Len(events) <= MaxQueue
       /\ queue' = queue \o events

-----------------------------------------------------------------------------
(* The job thread: JobThread::Entry and ProcessVolume.                     *)

\* A dangling m_volumes has any count.
Wake ==
    /\ job = "idle" /\ ~closing /\ m_launch
    /\ job' = "loop" /\ index' = 1
    /\ selected' \in IF m_volumes = Freed THEN 0 .. MaxVolumes ELSE {m_volumes}
    /\ UNCHANGED <<engine, frame, switches, request, queries>>

EndThread ==
    /\ job = "idle" /\ closing /\ job' = "ended"
    /\ UNCHANGED <<engine, frame, switches, request, selected, index, queries>>

HasNext == job = "loop" /\ index <= selected /\ ~m_stopped

\* The volume does not pass udefrag_validate_volume.
SkipVolume ==
    /\ HasNext /\ index' = index + 1
    /\ UNCHANGED <<engine, frame, switches, request, job, selected, queries>>

FailVolume ==
    /\ HasNext /\ StartFails /\ index' = index + 1
    /\ UNCHANGED <<frame, switches, request, job, selected, queries>>

StartVolume ==
    /\ HasNext /\ Start /\ job' = "engine"
    /\ UNCHANGED <<frame, switches, request, selected, index, queries>>

VolumeDone ==
    /\ job = "engine" /\ caller = "out"
    /\ job' = "loop" /\ index' = index + 1
    /\ UNCHANGED <<engine, frame, switches, request, selected, queries>>

\* ID_JobCompletion goes out before the request is taken back.
Complete ==
    /\ job = "loop" /\ ~HasNext /\ job' = "completing"
    /\ Queue(<<JobCompletion>>)
    /\ UNCHANGED <<engine, main, cache, closing, switches, request, selected, index, queries>>

DeleteVolumes ==
    /\ job = "completing" /\ job' = "completed" /\ m_volumes' = Freed
    /\ UNCHANGED <<engine, frame, switches, m_launch, selected, index, queries>>

Unlaunch ==
    /\ job = "completed" /\ job' = "idle" /\ m_launch' = FALSE
    /\ UNCHANGED <<engine, frame, switches, m_volumes, selected, index, queries>>

-----------------------------------------------------------------------------
(* udefrag_start_job on the job thread and its callbacks.                  *)

\* ProgressCallback: the progress goes to the jobs cache.
GuiPoll ==
    /\ Poll /\ Queue(<<CacheJob(index, 0)>>)
    /\ UNCHANGED <<main, cache, closing, switches, request, thread, queries>>

MutGuiDeliver ==
    /\ Deliver
    /\ Queue(IF status > 0
             THEN <<PopulateFilesList(index), CacheJob(index, status)>>
             ELSE <<CacheJob(index, status)>>)
    /\ UNCHANGED <<main, cache, closing, switches, request, thread, queries>>

\* The final call: a success fills the list of fragmented files as well.
GuiDeliver ==
    /\ Deliver
    /\ Queue(IF status > 0
             THEN <<CacheJob(index, status), PopulateFilesList(index)>>
             ELSE <<CacheJob(index, status)>>)
    /\ UNCHANGED <<main, cache, closing, switches, request, thread, queries>>

MutGuiAnswer == \E stop \in {FALSE} : Answer(stop) /\ ~m_paused /\ UNCHANGED gui

\* Terminator: sleeps while the job is paused.
GuiAnswer == Answer(m_stopped) /\ ~m_paused /\ UNCHANGED gui

EngineStep ==
    /\ TimeUp \/ Cleanup \/ Return \/ Ask \/ WorkerEnds \/ ReadAgain \/ Notice \/ Destroy \/ Signal
    /\ UNCHANGED gui

-----------------------------------------------------------------------------
(* The main thread: pending events.                                        *)

Pending(type) == main = "loop" /\ queue # <<>> /\ Head(queue).type = type

OnCacheJob ==
    /\ Pending("CacheJob")
    /\ cache' = [cache EXCEPT ![Head(queue).volume] = Head(queue).status]
    /\ queue' = Tail(queue)
    /\ UNCHANGED <<engine, main, closing, switches, request, thread, queries>>

\* FilesPopulateList gives up when the cached job is not complete.
Populate ==
    /\ Pending("PopulateFilesList")
    /\ IF cache[Head(queue).volume] <= 0
       THEN queue' = Tail(queue) /\ UNCHANGED <<engine, main>>
       ELSE ReadLists /\ main' = "populating" /\ UNCHANGED queue
    /\ UNCHANGED <<cache, closing, switches, request, thread, queries>>

Populated ==
    /\ main = "populating" /\ Acknowledge
    /\ main' = "loop" /\ queue' = Tail(queue)
    /\ UNCHANGED <<cache, closing, switches, request, thread, queries>>

MutClose(events) ==
    /\ main' = "exiting" /\ closing' = TRUE /\ queue' = events
    /\ m_stopped' = TRUE /\ UNCHANGED m_paused

\* OnStop and the rest of ~MainFrame: the threads are told to end.
Close(events) ==
    /\ main' = "exiting" /\ closing' = TRUE /\ queue' = events
    /\ m_paused' = FALSE /\ m_stopped' = TRUE

\* A job that was not stopped may be followed by the exit, see Shutdown.
OnJobCompletion ==
    /\ Pending("JobCompletion") /\ m_busy' = FALSE
    /\ \/ queue' = Tail(queue) /\ UNCHANGED <<main, closing, m_paused, m_stopped>>
       \/ ~m_stopped /\ Close(Tail(queue))
    /\ UNCHANGED <<engine, cache, request, thread, queries>>

OnQueryCompletion ==
    /\ Pending("QueryCompletion") /\ m_busy' = FALSE
    /\ queue' = Tail(queue)
    /\ UNCHANGED <<engine, main, cache, closing, m_paused, m_stopped, request, thread, queries>>

\* ~MainFrame waits for the job thread, but not for the query thread.
Exit ==
    /\ main = "exiting" /\ job = "ended" /\ main' = "gone"
    /\ UNCHANGED <<engine, queue, cache, closing, switches, request, thread, queries>>

-----------------------------------------------------------------------------
(* The main thread: commands of the user.                                  *)

MutOnStartJob ==
    /\ main = "loop"
    /\ m_volumes' \in Volumes
    /\ m_busy' = TRUE /\ m_paused' = FALSE /\ m_stopped' = FALSE
    /\ main' = "starting"
    /\ UNCHANGED <<engine, queue, cache, closing, m_launch, thread, queries>>

\* OnStartJob up to the last assignment; without a selection it returns.
OnStartJob ==
    /\ main = "loop" /\ ~m_busy
    /\ \/ m_volumes' = 0 /\ UNCHANGED <<main, switches>>
       \/ /\ m_volumes' \in Volumes /\ main' = "starting"
          /\ m_busy' = TRUE /\ m_paused' = FALSE /\ m_stopped' = FALSE
    /\ UNCHANGED <<engine, queue, cache, closing, m_launch, thread, queries>>

Launch ==
    /\ main = "starting" /\ main' = "loop" /\ m_launch' = TRUE
    /\ UNCHANGED <<engine, queue, cache, closing, switches, m_volumes, thread, queries>>

OnPause ==
    /\ main = "loop" /\ m_paused' = ~m_paused
    /\ UNCHANGED <<engine, frame, m_busy, m_stopped, request, thread, queries>>

\* The button is enabled while a job runs.
OnStop ==
    /\ main = "loop" /\ m_busy
    /\ m_paused' = FALSE /\ m_stopped' = TRUE
    /\ UNCHANGED <<engine, frame, m_busy, request, thread, queries>>

CloseWindow ==
    /\ main = "loop" /\ Close(queue)
    /\ UNCHANGED <<engine, cache, m_busy, request, thread, queries>>

\* QueryClusters does not ask whether the program is busy.
QueryClusters ==
    /\ Queries /\ main = "loop"
    /\ m_startquery' = TRUE
    /\ m_busy' = TRUE /\ m_paused' = FALSE /\ m_stopped' = FALSE
    /\ UNCHANGED <<engine, frame, request, thread, query>>

-----------------------------------------------------------------------------
(* The query thread.                                                       *)

RunQuery ==
    /\ query = "idle" /\ ~closing /\ m_startquery /\ query' = "running"
    /\ UNCHANGED <<engine, frame, switches, request, thread, m_startquery>>

\* udefrag_starts_query returns; its analysis may have been paused.
QueryEnds ==
    /\ query = "running" /\ ~m_paused /\ query' = "completed"
    /\ Queue(<<QueryCompletion>>)
    /\ UNCHANGED <<engine, main, cache, closing, switches, request, thread, m_startquery>>

Unstart ==
    /\ query = "completed" /\ query' = "idle" /\ m_startquery' = FALSE
    /\ UNCHANGED <<engine, frame, switches, request, thread>>

-----------------------------------------------------------------------------
JobThread == Wake \/ EndThread \/ SkipVolume \/ FailVolume \/ StartVolume
             \/ VolumeDone \/ Complete \/ DeleteVolumes \/ Unlaunch
Events == OnCacheJob \/ Populate \/ Populated \/ OnJobCompletion
          \/ OnQueryCompletion \/ Launch \/ Exit
User == OnStartJob \/ OnPause \/ OnStop \/ CloseWindow \/ QueryClusters
QueryThread == RunQuery \/ QueryEnds \/ Unstart
Callbacks == GuiPoll \/ GuiDeliver \/ GuiAnswer

GuiNext == JobThread \/ Events \/ User \/ QueryThread \/ Callbacks \/ EngineStep

\* Every thread that can go on does.  The user is not obliged to anything,
\* and the algorithms need not end unless they are stopped.
GuiFairness ==
    /\ WF_all(JobThread) /\ WF_all(Events) /\ WF_all(QueryThread)
    /\ WF_all(GuiPoll \/ GuiDeliver) /\ WF_all(GuiAnswer)
    /\ WF_all(Ask /\ UNCHANGED gui)
    /\ WF_all((Cleanup \/ Return) /\ UNCHANGED gui)
    /\ WF_all(worker = "stopping" /\ WorkerEnds /\ UNCHANGED gui)
    /\ WF_all(ReadAgain /\ UNCHANGED gui)
    /\ WF_all((Notice \/ Destroy \/ Signal) /\ UNCHANGED gui)

GuiSpec == GuiInit /\ [][GuiNext]_all
FairGuiSpec == GuiSpec /\ GuiFairness

\* The algorithms end by themselves.
SteadyGuiSpec == FairGuiSpec /\ SF_all(WorkerEnds /\ UNCHANGED gui)

-----------------------------------------------------------------------------
(* Properties.                                                             *)

GuiTypeOK ==
    /\ TypeOK
    /\ main \in {"loop", "starting", "populating", "exiting", "gone"}
    /\ job \in {"idle", "loop", "engine", "completing", "completed", "ended"}
    /\ query \in {"idle", "running", "completed"}
    /\ selected \in 0 .. MaxVolumes /\ index \in 1 .. MaxVolumes + 1
    /\ m_volumes \in {Freed} \cup 0 .. MaxVolumes /\ Len(queue) <= MaxQueue
    /\ m_busy \in BOOLEAN /\ m_paused \in BOOLEAN /\ m_stopped \in BOOLEAN
    /\ closing \in BOOLEAN /\ m_launch \in BOOLEAN /\ m_startquery \in BOOLEAN

\* When ID_PopulateFilesList is handled the cache holds the completed job it
\* was sent for, so FilesPopulateList never gives up ("For some odd reason,
\* Completion status was NOT complete", fileslist.cpp 458), which would leave
\* the engine waiting; and that job is the one whose lists are alive.  A job
\* a late worker has completed is left out.
PopulateFindsItsJob ==
    Pending("PopulateFilesList") =>
        /\ cache[Head(queue).volume] > 0
        /\ Head(queue).volume = index /\ lists = "alive"

\* "lock everything till the job completion" (job.cpp 266): while the job
\* thread processes volumes no other job can be started.
LockedWhileProcessing == job \in {"loop", "engine"} => m_busy

\* What keeps a job from ending through no fault of the protocol: the user
\* pauses it, Windows cannot create the deleter, or a late worker has
\* completed it while it runs.
Held == m_paused \/ deleter = "failed" \/ caller = "mistaken"

\* Stop ends the volume being processed even if the algorithm would not end
\* by itself, and the engine returns to the job thread while the window is
\* open.
StopEnds == (job = "engine" /\ m_stopped) ~> (job # "engine" \/ closing \/ Held)

\* "unlock everything after the job completion" (job.cpp 348): the controls
\* a job locked get unlocked.
LockReleased == m_busy ~> (~m_busy \/ closing \/ Held)

\* "terminate threads" (main.cpp 496): closing the window ends the threads
\* and the program exits, however far the job has come, unless the engine
\* waits for the list of fragmented files to be read: that is done by a
\* handler of the main thread, which waits for the job thread.
CloseEnds ==
    closing ~> (main = "gone" \/ deleter = "failed" \/ caller = "mistaken"
                \/ (caller = "waiting" /\ ~gui_finished))
=============================================================================
