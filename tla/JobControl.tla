------------------------------ MODULE JobControl ------------------------------
(***************************************************************************)
(* The threads behind udefrag_start_job (dll/udefrag/udefrag.c): the       *)
(* CALLER, which delivers the progress and cleans up, the WORKER, which    *)
(* runs the job (start_job), and the DELETER, which waits until the client *)
(* has read the list of fragmented files and destroys the lists then       *)
(* (wait_delete_lists_thread).  They share the job parameters, which lie   *)
(* on the caller's stack, and two global flags nobody locks.               *)
(***************************************************************************)
EXTENDS Integers

CONSTANT Acknowledges   \* the client reads the lists of a finished job and
                        \* calls gui_fileslist_finished: only the GUI does

ASSUME ClientAssumption == Acknowledges \in BOOLEAN

VARIABLES
    caller,       \* where udefrag_start_job is, "out" when it is not called
    worker,       \* where start_job is
    deleter,      \* where wait_delete_lists_thread is
    status,       \* jp->pi.completion_status: 0 while the job runs
    late,         \* a worker has stored a failure and will read the status again
    lists,        \* jp->filelist, jp->fragmented_files, jp->free_regions
    router,       \* jp->termination_router
    gui_finished, \* the client is done with the lists
    delete_finished, \* wait_delete_thread_finished
    reader,       \* what the client does with the lists of the job
    result        \* what udefrag_start_job returned last

threads == <<caller, worker, deleter>>
outcome == <<status, late>>
flags == <<gui_finished, delete_finished>>
engine == <<threads, outcome, lists, router, flags, reader, result>>

Init ==
    /\ caller = "out" /\ worker = "none" /\ deleter = "none"
    /\ status = 0 /\ late = FALSE
    /\ lists = "none" /\ router = "terminator"
    /\ gui_finished = FALSE /\ delete_finished = FALSE
    /\ reader = "away" /\ result = 0

-----------------------------------------------------------------------------
(* The caller.                                                             *)

\* get_options, allocate_map or winx_create_thread fails.
StartFails ==
    /\ caller = "out" /\ result' = -1
    /\ UNCHANGED <<threads, outcome, lists, router, flags, reader>>

\* The frame lies where that of the job before did, or elsewhere.
Start ==
    /\ caller = "out"
    /\ caller' = "polling" /\ worker' = "running" /\ deleter' = "none"
    /\ status' = 0 /\ lists' = "none" /\ router' = "terminator"
    /\ UNCHANGED <<late, flags, reader, result>>

\* The time limit set by UD_TIME_LIMIT is exceeded.
TimeUp ==
    /\ caller = "polling" /\ router = "terminator" /\ router' = "killer"
    /\ UNCHANGED <<threads, outcome, lists, flags, reader, result>>

\* A round of the loop: the progress is delivered, then the status tested.
Poll ==
    /\ caller = "polling"
    /\ caller' = IF status = 0 THEN "polling" ELSE "final"
    /\ UNCHANGED <<worker, deleter, outcome, lists, router, flags, reader, result>>

\* The client gets the final status and a pointer to the fragmented files.
Deliver ==
    /\ caller = "final" /\ caller' = "cleanup"
    /\ reader' = IF status > 0 /\ Acknowledges THEN "told" ELSE "away"
    /\ UNCHANGED <<worker, deleter, outcome, lists, router, flags, result>>

MutCleanup ==
    /\ caller = "cleanup"
    /\ \/ /\ status > 0 /\ caller' = "waiting"
          /\ deleter' \in {"waiting", "failed"}
          /\ UNCHANGED result
       \/ /\ status < 0 /\ caller' = "out" /\ result' = status
          /\ UNCHANGED deleter
    /\ UNCHANGED <<worker, outcome, lists, router, flags, reader>>

\* After a success the caller starts the deleter, without looking whether it
\* could be started, and waits; after a failure it destroys the lists itself.
Cleanup ==
    /\ caller = "cleanup"
    /\ \/ /\ status > 0 /\ caller' = "waiting"
          /\ deleter' \in {"waiting", "failed"}
          /\ UNCHANGED <<lists, result>>
       \/ /\ status < 0 /\ caller' = "out"
          /\ lists' = "destroyed" /\ result' = status
          /\ UNCHANGED deleter
    /\ UNCHANGED <<worker, outcome, router, flags, reader>>

MutForgetfulReturn ==
    /\ caller = "waiting" /\ gui_finished /\ delete_finished
    /\ caller' = "out" /\ result' = 0
    /\ delete_finished' = FALSE
    /\ UNCHANGED <<worker, deleter, outcome, lists, router, gui_finished, reader>>

MutImpatientReturn ==
    /\ caller = "waiting" /\ gui_finished
    /\ caller' = "out" /\ result' = 0
    /\ gui_finished' = FALSE /\ delete_finished' = FALSE
    /\ UNCHANGED <<worker, deleter, outcome, lists, router, reader>>

\* Both flags are up: they are reset and the stack frame is given up.
Return ==
    /\ caller = "waiting" /\ gui_finished /\ delete_finished
    /\ caller' = "out" /\ result' = 0
    /\ gui_finished' = FALSE /\ delete_finished' = FALSE
    /\ UNCHANGED <<worker, deleter, outcome, lists, router, reader>>

-----------------------------------------------------------------------------
(* The worker.                                                             *)

\* The algorithms call jp->termination_router all the time.
Ask ==
    /\ worker = "running"
    /\ worker' = IF router = "killer" THEN "stopping" ELSE "asking"
    /\ UNCHANGED <<caller, deleter, outcome, lists, router, flags, reader, result>>

\* terminator: the client's answer.
Answer(stop) ==
    /\ worker = "asking"
    /\ worker' = IF stop THEN "stopping" ELSE "running"
    /\ UNCHANGED <<caller, deleter, outcome, lists, router, flags, reader, result>>

\* The job succeeds or fails, before or after it made the lists.  Its result
\* is stored, and 1 written instead of 0: after a success nothing is left to
\* be read.  (No second worker is late while one is: a bound.)
WorkerEnds ==
    /\ worker \in {"running", "stopping"} /\ worker' = "none"
    /\ \/ status' = 1 /\ lists' = "alive" /\ UNCHANGED late
       \/ status' = -1 /\ lists' \in {"none", "alive"} /\ ~late /\ late' = TRUE
    /\ UNCHANGED <<caller, deleter, router, flags, reader, result>>

\* After a failure the worker compares the status it has stored with 0.  The
\* caller may have returned by then, so that anything may be read: a build may
\* have kept the value, but if it is the 0 of the next job it becomes 1, and
\* that job is taken for complete while it runs.  What its caller does then is
\* left open.
ReadAgain ==
    /\ late /\ late' = FALSE
    /\ \/ UNCHANGED <<caller, status>>
       \/ caller = "polling" /\ status = 0 /\ status' = 1 /\ caller' = "mistaken"
    /\ UNCHANGED <<worker, deleter, lists, router, flags, reader, result>>

-----------------------------------------------------------------------------
(* The deleter and the client.                                             *)

Notice ==
    /\ deleter = "waiting" /\ gui_finished /\ deleter' = "destroying"
    /\ UNCHANGED <<caller, worker, outcome, lists, router, flags, reader, result>>

Destroy ==
    /\ deleter = "destroying" /\ deleter' = "signalling" /\ lists' = "destroyed"
    /\ UNCHANGED <<caller, worker, outcome, router, flags, reader, result>>

MutSignal ==
    /\ deleter = "signalling" /\ deleter' = "done"
    /\ UNCHANGED <<caller, worker, outcome, lists, router, flags, reader, result>>

Signal ==
    /\ deleter = "signalling" /\ deleter' = "done" /\ delete_finished' = TRUE
    /\ UNCHANGED <<caller, worker, outcome, lists, router, gui_finished, reader, result>>

\* The client walks the tree of fragmented files.
ReadLists ==
    /\ reader = "told" /\ reader' = "reading"
    /\ UNCHANGED <<threads, outcome, lists, router, flags, result>>

\* gui_fileslist_finished.
Acknowledge ==
    /\ reader = "reading" /\ reader' = "away" /\ gui_finished' = TRUE
    /\ UNCHANGED <<threads, outcome, lists, router, delete_finished, result>>

-----------------------------------------------------------------------------
Caller == StartFails \/ Start \/ TimeUp \/ Poll \/ Deliver \/ Cleanup \/ Return
Worker == Ask \/ (\E stop \in BOOLEAN : Answer(stop)) \/ WorkerEnds \/ ReadAgain
Deleter == Notice \/ Destroy \/ Signal
Client == ReadLists \/ Acknowledge

Next == Caller \/ Worker \/ Deleter \/ Client

\* Threads that can go on do; the algorithms end and the client reacts.
Fairness ==
    /\ WF_engine(Poll) /\ WF_engine(Deliver) /\ WF_engine(Cleanup) /\ WF_engine(Return)
    /\ WF_engine(Ask) /\ WF_engine(\E stop \in BOOLEAN : Answer(stop))
    /\ SF_engine(WorkerEnds) /\ WF_engine(ReadAgain)
    /\ WF_engine(Deleter) /\ WF_engine(Client)

Spec == Init /\ [][Next]_engine
FairSpec == Spec /\ Fairness

-----------------------------------------------------------------------------
(* Properties.                                                             *)

TypeOK ==
    /\ caller \in {"out", "polling", "final", "cleanup", "waiting", "mistaken"}
    /\ worker \in {"none", "running", "asking", "stopping"}
    /\ deleter \in {"none", "waiting", "failed", "destroying", "signalling", "done"}
    /\ status \in {-1, 0, 1} /\ result \in {-1, 0}
    /\ late \in BOOLEAN
    /\ lists \in {"none", "alive", "destroyed"}
    /\ router \in {"terminator", "killer"}
    /\ gui_finished \in BOOLEAN /\ delete_finished \in BOOLEAN
    /\ reader \in {"away", "told", "reading"}

\* The client never walks a tree that is gone: the lists live until it has
\* acknowledged, whatever the flags were left at by the job before
\* (udefrag.c 357, 516-530).  A job a late worker has completed is left out.
ListsOutliveReader == reader # "away" => lists = "alive"

\* Who will use the job parameters again.
FrameUsers ==
    {user \in {"worker", "late worker", "deleter"} :
        CASE user = "worker" -> worker # "none"
          [] user = "late worker" -> late
          [] user = "deleter" -> deleter \in {"waiting", "destroying"}}

\* The job parameters lie on the stack of udefrag_start_job: it does not
\* return while the worker or the deleter may still use them.  The exception
\* is the worker of a failed job which reads the status once more, although
\* the comment in front of it says "now it is safe to adjust the completion
\* status" (udefrag.c 308): see ReadAgain for what comes of it.
FrameOutlivesThreads == caller = "out" => FrameUsers \subseteq {"late worker"}

\* The lists of a job are destroyed exactly once: not by two threads, and
\* not left behind when udefrag_start_job returns.  A job a late worker has
\* completed is left out.
DestroyedOnce ==
    /\ caller = "out" => lists # "alive"
    /\ deleter = "destroying" => lists = "alive"

\* "@return Zero for success, negative value otherwise" (udefrag.c 400):
\* udefrag_start_job returns, unless the deleter could not be started or a
\* late worker has completed the job.
JobReturns ==
    (caller # "out") ~> (caller \in {"out", "mistaken"} \/ deleter = "failed")
=============================================================================
