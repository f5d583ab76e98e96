----------------------------- MODULE QueryControl -----------------------------
(***************************************************************************)
(* Queries (udefrag_starts_query of dll/udefrag/query.c, QueryThread of    *)
(* wxgui/query.cpp) beside the jobs of JobControl.  The protocol looks     *)
(* like the one of a job: a worker runs an analysis and the query, the     *)
(* QUERY thread polls its status, lets the GUI display what was found and  *)
(* waits until a global flag says that the GUI has done so.  But here the  *)
(* GUI displays on the query thread itself, and only if the parameters it  *)
(* has left for the query ask for it.                                      *)
(***************************************************************************)
EXTENDS JobControl

CONSTANT MaxCompletions   \* bound on the pending events ID_QueryCompletion

ASSUME CompletionsAssumption == MaxCompletions \in Nat

VARIABLES
    m_startGUI,   \* m_qp->startGUI
    m_startquery, m_paused, m_stopped,
    completions,  \* the number of pending events ID_QueryCompletion
    thread,       \* what QueryThread::Entry does
    starter,      \* where udefrag_starts_query is, "out" when it is not called
    q_worker,     \* where query_starter is
    q_status,     \* jp.pi.completion_status
    q_late,       \* a worker has stored a failure and will read the status again
    q_lists,      \* jp.filelist
    startGUI,     \* jp.qp.startGUI: the parameters are passed by value
    q_finished    \* isGUIqueryFinishedBoolean

window == <<m_startGUI, m_startquery, m_paused, m_stopped, completions>>
q_outcome == <<q_status, q_late>>
query == <<starter, q_worker, q_outcome, q_lists, startGUI, q_finished>>
queries == <<window, thread, query>>
both == <<engine, queries>>

QueryInit ==
    /\ Init
    /\ m_startGUI = FALSE /\ m_startquery = FALSE /\ m_paused = FALSE
    /\ m_stopped = FALSE /\ completions = 0
    /\ thread = "idle" /\ starter = "out" /\ q_worker = "none" /\ q_status = 0
    /\ q_late = FALSE /\ q_lists = "none" /\ startGUI = FALSE /\ q_finished = FALSE

-----------------------------------------------------------------------------
(* The main thread.                                                        *)

\* QueryClusters: new parameters first; without a path nothing else.  It does
\* not ask whether a query is running.
QueryClusters ==
    /\ m_startGUI' = TRUE
    /\ \/ m_startquery' = TRUE /\ m_paused' = FALSE /\ m_stopped' = FALSE
       \/ UNCHANGED <<m_startquery, m_paused, m_stopped>>
    /\ UNCHANGED <<completions, thread, query>>

\* The parameters may be those of the next query already.
OnQueryCompletion ==
    /\ completions > 0 /\ completions' = completions - 1
    /\ m_startGUI' = FALSE
    /\ UNCHANGED <<m_startquery, m_paused, m_stopped, thread, query>>

OnPause ==
    /\ m_paused' = ~m_paused
    /\ UNCHANGED <<m_startGUI, m_startquery, m_stopped, completions, thread, query>>

OnStop ==
    /\ m_stopped' = TRUE /\ m_paused' = FALSE
    /\ UNCHANGED <<m_startGUI, m_startquery, completions, thread, query>>

-----------------------------------------------------------------------------
(* The query thread: QueryThread::Entry around udefrag_starts_query.       *)

\* If the options cannot be read or the worker cannot be created the
\* polling is left out, and the displaying with it, but not the waiting.
StartQuery ==
    /\ thread = "idle" /\ m_startquery /\ thread' = "engine"
    /\ q_finished' = FALSE /\ q_status' = 0 /\ q_lists' = "none"
    /\ startGUI' = m_startGUI
    /\ \/ starter' = "polling" /\ q_worker' = "running"
       \/ starter' = "waiting" /\ q_worker' = "failed"
    /\ UNCHANGED <<window, q_late>>

\* Operation 3 runs on the query thread itself, without udefrag_starts_query.
Operation3 ==
    /\ thread = "idle" /\ m_startquery /\ thread' = "queueing"
    /\ UNCHANGED <<window, query>>

PollQuery ==
    /\ starter = "polling" /\ q_status # 0 /\ starter' = "calling"
    /\ UNCHANGED <<window, thread, q_worker, q_outcome, q_lists, startGUI, q_finished>>

MutPostProgress ==
    /\ starter = "calling"
    /\ starter' = IF startGUI /\ q_status > 0 THEN "displaying" ELSE "waiting"
    /\ UNCHANGED <<window, thread, q_worker, q_outcome, q_lists, startGUI, q_finished>>

\* PostProgressCallback: whatever the status, if it is asked for.
PostProgress ==
    /\ starter = "calling"
    /\ starter' = IF startGUI THEN "displaying" ELSE "waiting"
    /\ UNCHANGED <<window, thread, q_worker, q_outcome, q_lists, startGUI, q_finished>>

\* DisplayQueryResults copies the parameters to those of the GUI, which may
\* be new ones, and walks the blocks of the file.
Display ==
    /\ starter = "displaying" /\ starter' = "waiting"
    /\ m_startGUI' = startGUI /\ q_finished' = TRUE
    /\ UNCHANGED <<m_startquery, m_paused, m_stopped, completions, thread,
                   q_worker, q_outcome, q_lists, startGUI>>

ReturnQuery ==
    /\ starter = "waiting" /\ q_finished /\ starter' = "out" /\ thread' = "queueing"
    /\ q_lists' = "destroyed"
    /\ UNCHANGED <<window, q_worker, q_outcome, startGUI, q_finished>>

QueueCompletion ==
    /\ thread = "queueing" /\ completions < MaxCompletions
    /\ completions' = completions + 1 /\ thread' = "completed"
    /\ UNCHANGED <<m_startGUI, m_startquery, m_paused, m_stopped, query>>

EndQuery ==
    /\ thread = "completed" /\ thread' = "idle" /\ m_startquery' = FALSE
    /\ UNCHANGED <<m_startGUI, m_paused, m_stopped, completions, query>>

-----------------------------------------------------------------------------
(* The worker: query_starter.                                              *)

AskQuery ==
    /\ q_worker = "running" /\ q_worker' = "asking"
    /\ UNCHANGED <<window, thread, starter, q_outcome, q_lists, startGUI, q_finished>>

\* query_terminator and QueryThread::Terminator, which sleeps during a pause.
AnswerQuery ==
    /\ q_worker = "asking" /\ ~m_paused
    /\ q_worker' = IF m_stopped THEN "stopping" ELSE "running"
    /\ UNCHANGED <<window, thread, starter, q_outcome, q_lists, startGUI, q_finished>>

\* The result of the analysis is not looked at, only the one of the query:
\* whether the file has been found.  The query for free regions finds nothing
\* to do.
QueryEnds ==
    /\ q_worker \in {"running", "stopping"} /\ q_worker' = "none"
    /\ \/ q_status' = 1 /\ q_lists' \in {"alive", "none"} /\ UNCHANGED q_late
       \/ q_status' = -1 /\ q_lists' = "alive" /\ ~q_late /\ q_late' = TRUE
    /\ UNCHANGED <<window, thread, starter, startGUI, q_finished>>

\* As JobControl!ReadAgain: after a failure the status is read once more.
ReadQueryAgain ==
    /\ q_late /\ q_late' = FALSE
    /\ \/ UNCHANGED <<starter, q_status>>
       \/ /\ starter = "polling" /\ q_status = 0
          /\ q_status' = 1 /\ starter' = "mistaken"
    /\ UNCHANGED <<window, thread, q_worker, q_lists, startGUI, q_finished>>

\* query_get_VCNlist looks for the file in an empty list and reads the
\* record it has not found.  What the rest of the program does before it ends
\* is left open.
Crash ==
    /\ q_worker \in {"running", "stopping"} /\ q_worker' = "crashed"
    /\ UNCHANGED <<window, thread, starter, q_outcome, q_lists, startGUI, q_finished>>

-----------------------------------------------------------------------------
Main == QueryClusters \/ OnQueryCompletion \/ OnPause \/ OnStop
QueryThread == StartQuery \/ Operation3 \/ PollQuery \/ PostProgress \/ Display
               \/ ReturnQuery \/ QueueCompletion \/ EndQuery
QueryWorker == AskQuery \/ AnswerQuery \/ QueryEnds \/ ReadQueryAgain \/ Crash

Query == (Main \/ QueryThread \/ QueryWorker) /\ UNCHANGED engine
Job == Next /\ UNCHANGED queries

\* A job and a query at the same time.
QuerySpec == QueryInit /\ [][Query \/ Job]_both

\* Every thread goes on when it can, and analyses end.
FairQuerySpec ==
    /\ QuerySpec
    /\ Fairness
    /\ WF_both(QueryThread /\ UNCHANGED engine)
    /\ WF_both((AskQuery \/ AnswerQuery) /\ UNCHANGED engine)
    /\ WF_both(ReadQueryAgain /\ UNCHANGED engine)
    /\ SF_both(QueryEnds /\ UNCHANGED engine)
    /\ WF_both(OnQueryCompletion /\ UNCHANGED engine)

-----------------------------------------------------------------------------
(* Properties.                                                             *)

\* Who will use the parameters of the query again.
QueryFrameUsers ==
    {user \in {"worker", "late worker"} :
        CASE user = "worker" -> q_worker \in {"running", "asking", "stopping"}
          [] user = "late worker" -> q_late}

\* The parameters of a query lie on the stack of udefrag_starts_query: it does
\* not return while its worker runs, except that the worker of a failed query
\* may read the status once more.  The lists stay until the GUI has displayed
\* what they hold, and they are not left behind.
QueryOutlivesThreads ==
    /\ starter = "out" => QueryFrameUsers \subseteq {"late worker"} /\ q_lists # "alive"
    /\ starter = "displaying" => q_lists # "destroyed"

\* Why a query may never return: its worker could not be started or is gone,
\* the user pauses it, or its parameters were those of the next query and the
\* completion of the one before has withdrawn the request to display them, or
\* a late worker has completed it.
QueryLost == q_worker \in {"failed", "crashed"} \/ m_paused
             \/ starter = "mistaken"
             \/ (starter \in {"calling", "waiting"} /\ ~startGUI)

\* The loop of udefrag_starts_query which waits for the GUI (query.c 176-180)
\* ends, although the GUI displays on the very thread that waits, and although
\* queries are started and their completions handled at any moment.
QueryReturns == (starter # "out") ~> (starter = "out" \/ QueryLost)
=============================================================================
