----------------------------- MODULE GuiJobProofs -----------------------------
(***************************************************************************)
(* The engine's threads never use a list or a stack frame that is gone,    *)
(* whatever the client does and whether or not it acknowledges.  The GUI   *)
(* runs the engine by its rules, the list of fragmented files is always    *)
(* filled from the job it was sent for, and without queries the lock set   *)
(* by OnStartJob holds while volumes are processed.                        *)
(* A query beside a job keeps to its own frame.                            *)
(***************************************************************************)
EXTENDS GuiJob, Tasks, SequenceTheorems, TLAPS

-----------------------------------------------------------------------------
(* The engine, for every client: the theorems about Spec.                  *)

\* The worker runs exactly while the caller polls an unfinished job, unless a
\* worker of the job before has marked it as finished.
WorkerSound ==
    /\ worker # "none" => (caller = "polling" /\ status = 0) \/ caller = "mistaken"
    /\ caller = "polling" /\ status = 0 => worker # "none"
    /\ caller \in {"final", "cleanup", "waiting"} => status # 0
    /\ caller = "waiting" => status = 1

\* The deleter runs only while the caller waits for it.
DeleterSound ==
    /\ caller \in {"polling", "mistaken", "final", "cleanup"} => deleter = "none"
    /\ caller = "waiting" => deleter # "none"
    /\ caller = "out" => deleter \in {"none", "done"}

\* The flags left by a job are down before the next one starts.
FlagsSound ==
    /\ gui_finished => caller \in {"cleanup", "waiting"} /\ reader = "away" /\ status = 1
    /\ delete_finished => caller = "waiting" /\ deleter = "done"
    /\ deleter \in {"destroying", "signalling"} => gui_finished
    /\ caller = "waiting" /\ deleter = "done" => gui_finished

\* Whose turn it is to destroy the lists.
ListsSound ==
    /\ status = 1 /\ caller \in {"polling", "final", "cleanup"} => lists = "alive"
    /\ deleter \in {"waiting", "failed", "destroying"} => lists = "alive"
    /\ deleter \in {"signalling", "done"} /\ caller = "waiting" => lists = "destroyed"
    /\ caller = "out" => lists # "alive"
    /\ lists = "destroyed" => caller \in {"out", "waiting"}

\* The client reads only the lists of a job delivered and not acknowledged.
ReaderSound ==
    reader # "away" => caller \in {"cleanup", "waiting"} /\ status = 1

JobInvariant ==
    TypeOK /\ WorkerSound /\ DeleterSound /\ FlagsSound /\ ListsSound /\ ReaderSound

LEMMA JobInvariantInit == Init => JobInvariant
BY DEF Init, JobInvariant, TypeOK, WorkerSound, DeleterSound, FlagsSound, ListsSound,
       ReaderSound

LEMMA JobInvariantNext == JobInvariant /\ [Next]_engine => JobInvariant'
<1> SUFFICES ASSUME JobInvariant, [Next]_engine
             PROVE  JobInvariant'
  OBVIOUS
<1> USE DEF JobInvariant, TypeOK, WorkerSound, DeleterSound, FlagsSound, ListsSound,
            ReaderSound, threads, outcome, flags
<1>1. CASE StartFails
  BY <1>1 DEF StartFails
<1>2. CASE Start
  BY <1>2 DEF Start
<1>3. CASE TimeUp
  BY <1>3 DEF TimeUp
<1>4. CASE Poll
  BY <1>4 DEF Poll
<1>5. CASE Deliver
  BY <1>5, ClientAssumption DEF Deliver
<1>6. CASE Cleanup
  BY <1>6 DEF Cleanup
<1>7. CASE Return
  BY <1>7 DEF Return
<1>8. CASE Ask
  BY <1>8 DEF Ask
<1>9. ASSUME NEW stop \in BOOLEAN, Answer(stop)
      PROVE  JobInvariant'
  BY <1>9 DEF Answer
<1>10. CASE WorkerEnds
  <2>1. (caller = "polling" /\ status = 0) \/ caller = "mistaken"
    BY <1>10 DEF WorkerEnds
  <2>2. deleter = "none" /\ ~gui_finished /\ ~delete_finished /\ reader = "away"
    BY <2>1
  <2>3. status' # 0 /\ worker' = "none" /\ (status' = 1 => lists' = "alive")
    BY <1>10 DEF WorkerEnds
  <2> QED
    BY <2>1, <2>2, <2>3, <1>10 DEF WorkerEnds
<1>11. CASE ReadAgain
  BY <1>11 DEF ReadAgain
<1>12. CASE Notice
  BY <1>12 DEF Notice
<1>13. CASE Destroy
  BY <1>13 DEF Destroy
<1>14. CASE Signal
  BY <1>14 DEF Signal
<1>15. CASE ReadLists
  BY <1>15 DEF ReadLists
<1>16. CASE Acknowledge
  BY <1>16 DEF Acknowledge
<1>17. CASE UNCHANGED engine
  BY <1>17 DEF engine
<1> QED
  BY <1>1, <1>2, <1>3, <1>4, <1>5, <1>6, <1>7, <1>8, <1>9, <1>10, <1>11, <1>12,
     <1>13, <1>14, <1>15, <1>16, <1>17 DEF Next, Caller, Worker, Deleter, Client

\* Whatever the steps of the three threads and of the client, each of them is
\* where its turn with the lists and the flags allows.
THEOREM JobInvariance == Spec => []JobInvariant
BY JobInvariantInit, JobInvariantNext, PTL DEF Spec

\* The variables keep their types; udefrag_start_job returns 0 or -1.
THEOREM JobTypeCorrect == Spec => []TypeOK
<1>1. JobInvariant => TypeOK
  BY DEF JobInvariant
<1> QED
  BY <1>1, JobInvariance, PTL

\* The client never walks a tree of fragmented files that is gone (destroy_lists
\* runs only after gui_fileslist_finished, udefrag.c 353-371).
THEOREM ListsAreAlive == Spec => []ListsOutliveReader
<1>1. JobInvariant => ListsOutliveReader
  BY DEF JobInvariant, TypeOK, ListsOutliveReader, ReaderSound, ListsSound, FlagsSound,
         DeleterSound, WorkerSound
<1> QED
  BY <1>1, JobInvariance, PTL

\* No thread of a job uses the parameters on the stack of udefrag_start_job after
\* it has returned (udefrag.c 407, 523-535), but for the worker of a failed job
\* which reads the status it has stored once more (309-310).
THEOREM FrameIsAlive == Spec => []FrameOutlivesThreads
<1>1. JobInvariant => FrameOutlivesThreads
  BY DEF JobInvariant, TypeOK, FrameOutlivesThreads, FrameUsers, WorkerSound, DeleterSound
<1> QED
  BY <1>1, JobInvariance, PTL

\* Every job's lists are destroyed once, by the deleter or by the caller.
THEOREM ListsAreDestroyedOnce == Spec => []DestroyedOnce
<1>1. JobInvariant => DestroyedOnce
  BY DEF JobInvariant, DestroyedOnce, ListsSound
<1> QED
  BY <1>1, JobInvariance, PTL

-----------------------------------------------------------------------------
(* The GUI: the theorems about GuiSpec.                                    *)

Event ==
    [type : {"CacheJob"}, volume : Volumes, status : {-1, 0, 1}]
    \cup [type : {"PopulateFilesList"}, volume : Volumes]
    \cup [type : {"JobCompletion", "QueryCompletion"}]

\* The engine is in use only while the job thread processes a volume.
TypeInvariant ==
    /\ GuiTypeOK
    /\ queue \in Seq(Event) /\ cache \in [Volumes -> {-1, 0, 1}]
    /\ caller # "out" => job = "engine"
    /\ job = "engine" => index \in Volumes

\* A request to fill the list of fragmented files is pending only while the
\* engine waits for its acknowledgement, it is the only one, and the progress
\* cached right before it is the completion of its own job.
PopulateInvariant ==
    /\ Acknowledges
    /\ \A i \in 1 .. Len(queue) : queue[i].type = "PopulateFilesList" =>
         /\ reader # "away" /\ queue[i].volume = index
         /\ IF i = 1 THEN cache[index] > 0 ELSE queue[i - 1] = CacheJob(index, 1)
         /\ \A j \in 1 .. Len(queue) : queue[j].type = "PopulateFilesList" => i = j
    /\ main = "populating" =>
         queue # <<>> /\ queue[1].type = "PopulateFilesList" /\ reader = "reading"

NoCompletion == \A i \in 1 .. Len(queue) : queue[i].type # "JobCompletion"

\* Without queries a job's completion clears m_busy, and the next job starts,
\* only when the job thread no longer processes volumes.
LockInvariant ==
    /\ job \in {"loop", "engine"} => m_busy /\ NoCompletion
    /\ job = "idle" /\ m_launch => m_busy /\ NoCompletion
    /\ main = "starting" =>
         /\ m_busy /\ NoCompletion
         /\ job \notin {"loop", "engine"} /\ ~(job = "idle" /\ m_launch)
    /\ ~m_busy => NoCompletion
    /\ \A i, j \in 1 .. Len(queue) :
         queue[i].type = "JobCompletion" /\ queue[j].type = "JobCompletion" => i = j
    /\ \A i \in 1 .. Len(queue) : queue[i].type # "QueryCompletion"
    /\ ~m_startquery /\ query = "idle"

-----------------------------------------------------------------------------
(* What the queue holds after an event came in or was handled.             *)

LEMMA QueueGrows ==
  ASSUME NEW S, queue \in Seq(S), NEW events \in Seq(S), Len(queue) <= MaxQueue,
         Queue(events)
  PROVE  /\ queue' \in Seq(S) /\ Len(queue') <= MaxQueue
         /\ \/ queue' = queue
            \/ /\ main \notin {"exiting", "gone"}
               /\ Len(queue') = Len(queue) + Len(events)
               /\ \A i \in 1 .. Len(queue) : queue'[i] = queue[i]
               /\ \A i \in 1 .. Len(events) : queue'[Len(queue) + i] = events[i]
<1>1. CASE UNCHANGED queue
  BY <1>1
<1>2. CASE /\ main \notin {"exiting", "gone"} /\ queue' = queue \o events
           /\ Len(queue) + Len(events) <= MaxQueue
  <2>1. /\ queue' \in Seq(S) /\ Len(queue') = Len(queue) + Len(events)
        /\ \A i \in 1 .. Len(queue) + Len(events) : queue'[i] =
             IF i <= Len(queue) THEN queue[i] ELSE events[i - Len(queue)]
    BY <1>2, ConcatProperties
  <2>2. Len(queue) \in Nat /\ Len(events) \in Nat
    BY LenProperties
  <2> QED
    BY <1>2, <2>1, <2>2
<1> QED
  BY <1>1, <1>2 DEF Queue

LEMMA QueueShrinks ==
  ASSUME NEW S, NEW q \in Seq(S), q # <<>>
  PROVE  /\ Tail(q) \in Seq(S) /\ Len(q) \in Nat \ {0} /\ Len(Tail(q)) = Len(q) - 1
         /\ Head(q) = q[1] /\ q[1] \in S
         /\ \A i \in 1 .. Len(Tail(q)) : Tail(q)[i] = q[i + 1]
<1>1. Tail(q) \in Seq(S) /\ Len(q) \in Nat /\ Len(q) # 0
  BY HeadTailProperties, LenProperties, EmptySeq
<1>2. q[1] \in S
  BY <1>1, ElementOfSeq
<1>3. Head(q) = q[1]
  OBVIOUS
<1>4. Len(Tail(q)) = Len(q) - 1
  BY HeadTailProperties
<1>5. ASSUME NEW i \in 1 .. Len(Tail(q))
      PROVE  Tail(q)[i] = q[i + 1]
  BY HeadTailProperties
<1> QED
  BY <1>1, <1>2, <1>3, <1>4, <1>5

-----------------------------------------------------------------------------
(* The GUI and the engine.                                                 *)

\* Every step of the GUI is a step of the engine or leaves the engine alone.
LEMMA GuiStep == TypeInvariant /\ [GuiNext]_all => [Next]_engine
<1> SUFFICES ASSUME TypeInvariant, [GuiNext]_all
             PROVE  [Next]_engine
  OBVIOUS
<1>1. CASE JobThread
  BY <1>1 DEF JobThread, Wake, EndThread, SkipVolume, FailVolume, StartVolume, VolumeDone,
     Complete, DeleteVolumes, Unlaunch, Next, Caller
<1>2. CASE Events
  BY <1>2 DEF Events, OnCacheJob, Populate, Populated, OnJobCompletion, OnQueryCompletion,
     Launch, Exit, Next, Client
<1>3. CASE User
  BY <1>3 DEF User, OnStartJob, OnPause, OnStop, CloseWindow, QueryClusters
<1>4. CASE QueryThread
  BY <1>4 DEF QueryThread, RunQuery, QueryEnds, Unstart
<1>5. CASE GuiPoll \/ GuiDeliver
  BY <1>5 DEF GuiPoll, GuiDeliver, Next, Caller
<1>6. CASE GuiAnswer
  BY <1>6, Zenon DEF GuiAnswer, TypeInvariant, GuiTypeOK, Next, Worker
<1>7. CASE EngineStep
  BY <1>7 DEF EngineStep, Next, Caller, Worker, Deleter
<1>8. CASE UNCHANGED all
  BY <1>8 DEF all
<1> QED
  BY <1>1, <1>2, <1>3, <1>4, <1>5, <1>6, <1>7, <1>8 DEF GuiNext, Callbacks

-----------------------------------------------------------------------------
(* Types.                                                                  *)

LEMMA TypeInit == GuiInit => TypeInvariant
<1> SUFFICES ASSUME GuiInit
             PROVE  TypeInvariant
  OBVIOUS
<1>1. TypeOK
  BY JobInvariantInit DEF GuiInit, JobInvariant
<1>2. queue \in Seq(Event) /\ Len(queue) <= MaxQueue
  BY EmptySeq, BoundsAssumption DEF GuiInit
<1>3. cache \in [Volumes -> {-1, 0, 1}]
  BY DEF GuiInit
<1>4. /\ selected \in 0 .. MaxVolumes /\ index \in 1 .. MaxVolumes + 1
      /\ m_volumes \in {Freed} \cup 0 .. MaxVolumes
  BY BoundsAssumption DEF GuiInit
<1>5. caller = "out"
  BY DEF GuiInit, Init
<1> QED
  BY <1>1, <1>2, <1>3, <1>4, <1>5 DEF GuiInit, TypeInvariant, GuiTypeOK

\* The events the threads queue.
LEMMA EventsTyped ==
  /\ \A v \in Volumes, s \in {-1, 0, 1} : <<CacheJob(v, s)>> \in Seq(Event)
  /\ \A v \in Volumes, s \in {-1, 0, 1} :
       <<CacheJob(v, s), PopulateFilesList(v)>> \in Seq(Event)
  /\ <<JobCompletion>> \in Seq(Event) /\ <<QueryCompletion>> \in Seq(Event)
BY DEF Event, CacheJob, PopulateFilesList, JobCompletion, QueryCompletion

LEMMA TypeNext ==
  JobInvariant /\ TypeInvariant /\ PopulateInvariant /\ [GuiNext]_all => TypeInvariant'
<1> SUFFICES ASSUME JobInvariant, TypeInvariant, PopulateInvariant, [GuiNext]_all
             PROVE  TypeInvariant'
  OBVIOUS
<1>1. TypeOK'
  BY GuiStep, JobInvariantNext DEF JobInvariant
<1> USE BoundsAssumption DEF TypeInvariant, GuiTypeOK, Volumes, Freed,
        engine, threads, outcome, flags, frame, switches, request, thread, queries
<1>2. CASE Wake
  BY <1>1, <1>2 DEF Wake
<1>3. CASE EndThread
  BY <1>1, <1>3 DEF EndThread
<1>4. CASE SkipVolume
  BY <1>1, <1>4 DEF SkipVolume, HasNext
<1>5. CASE FailVolume
  BY <1>1, <1>5 DEF FailVolume, HasNext, StartFails
<1>6. CASE StartVolume
  BY <1>1, <1>6 DEF StartVolume, HasNext, Start
<1>7. CASE VolumeDone
  BY <1>1, <1>7 DEF VolumeDone
<1>8. CASE Complete
  BY ZenonT(40), <1>1, <1>8, EventsTyped, QueueGrows DEF Complete
<1>9. CASE DeleteVolumes
  BY <1>1, <1>9 DEF DeleteVolumes
<1>10. CASE Unlaunch
  BY <1>1, <1>10 DEF Unlaunch
<1>11. CASE GuiPoll
  BY ZenonT(40), <1>1, <1>11, EventsTyped, QueueGrows DEF GuiPoll, Poll
<1>12. CASE GuiDeliver
  <2>1. status \in {-1, 0, 1} /\ index \in Volumes
    BY <1>12 DEF GuiDeliver, Deliver, TypeOK
  <2>2. queue' \in Seq(Event) /\ Len(queue') <= MaxQueue
    <3> DEFINE events == IF status > 0
                         THEN <<CacheJob(index, status), PopulateFilesList(index)>>
                         ELSE <<CacheJob(index, status)>>
    <3>1. events \in Seq(Event)
      BY <2>1, EventsTyped
    <3>2. Queue(events)
      BY <1>12 DEF GuiDeliver
    <3> HIDE DEF events
    <3> QED
      BY <3>1, <3>2, QueueGrows
  <2> QED
    BY <1>1, <2>2, <1>12 DEF GuiDeliver, Deliver
<1>13. CASE GuiAnswer
  BY <1>1, <1>13 DEF GuiAnswer, Answer, gui
<1>14. CASE EngineStep
  BY <1>1, <1>14 DEF EngineStep, gui, TimeUp, Cleanup, Return, Ask, WorkerEnds, ReadAgain,
     Notice, Destroy, Signal
<1>15. CASE OnCacheJob
  BY <1>1, <1>15, QueueShrinks DEF OnCacheJob, Pending, Event
<1>16. CASE Populate
  BY SMTT(20), <1>1, <1>16, QueueShrinks DEF Populate, Pending, ReadLists
<1>17. CASE Populated
  <2>1. queue # <<>> /\ queue' = Tail(queue)
    BY <1>17 DEF Populated, PopulateInvariant
  <2>2. queue' \in Seq(Event) /\ Len(queue') <= MaxQueue
    BY <2>1, QueueShrinks
  <2> QED
    BY <1>1, <1>17, <2>2 DEF Populated, Acknowledge
<1>18. CASE OnJobCompletion
  <2>1. queue # <<>> /\ queue' = Tail(queue)
    BY <1>18 DEF OnJobCompletion, Pending, Close
  <2>2. queue' \in Seq(Event) /\ Len(queue') <= MaxQueue
    BY <2>1, QueueShrinks
  <2> QED
    BY ZenonT(40), <1>1, <1>18, <2>2 DEF OnJobCompletion, Pending, Close
<1>19. CASE OnQueryCompletion
  <2>1. queue # <<>> /\ queue' = Tail(queue)
    BY <1>19 DEF OnQueryCompletion, Pending
  <2>2. queue' \in Seq(Event) /\ Len(queue') <= MaxQueue
    BY <2>1, QueueShrinks
  <2> QED
    BY <1>1, <1>19, <2>2 DEF OnQueryCompletion, Pending
<1>20. CASE Exit \/ Launch
  BY ZenonT(40), <1>1, <1>20 DEF Exit, Launch
<1>21. CASE OnStartJob
  <2>1. m_volumes' \in {-1} \cup 0 .. MaxVolumes
    BY <1>21 DEF OnStartJob
  <2>2. m_busy' \in BOOLEAN /\ m_paused' \in BOOLEAN /\ m_stopped' \in BOOLEAN
    BY <1>21 DEF OnStartJob
  <2>3. main' \in {"loop", "starting", "populating", "exiting", "gone"}
    BY <1>21 DEF OnStartJob
  <2> QED
    BY <1>1, <1>21, <2>1, <2>2, <2>3 DEF OnStartJob
<1>22. CASE OnPause \/ OnStop \/ CloseWindow \/ QueryClusters
  BY ZenonT(40), <1>1, <1>22 DEF OnPause, OnStop, CloseWindow, Close, QueryClusters
<1>23. CASE RunQuery \/ Unstart
  BY ZenonT(40), <1>1, <1>23 DEF RunQuery, Unstart
<1>24. CASE QueryEnds
  BY ZenonT(40), <1>1, <1>24, EventsTyped, QueueGrows DEF QueryEnds
<1>25. CASE UNCHANGED all
  BY <1>1, <1>25 DEF all, gui
<1> QED
  BY <1>2, <1>3, <1>4, <1>5, <1>6, <1>7, <1>8, <1>9, <1>10, <1>11, <1>12, <1>13, <1>14,
     <1>15, <1>16, <1>17, <1>18, <1>19, <1>20, <1>21, <1>22, <1>23, <1>24, <1>25
     DEF GuiNext, JobThread, Events, User, QueryThread, Callbacks

-----------------------------------------------------------------------------
(* The request to fill the list of fragmented files.                       *)

\* The request at position i is the only one and follows its completion.
Requested(i) ==
    /\ reader # "away" /\ queue[i].volume = index
    /\ IF i = 1 THEN cache[index] > 0 ELSE queue[i - 1] = CacheJob(index, 1)
    /\ \A j \in 1 .. Len(queue) : queue[j].type = "PopulateFilesList" => i = j

LEMMA PopulateInit == GuiInit => PopulateInvariant
BY DEF GuiInit, PopulateInvariant

\* Progress and completions queued while no request is pending change nothing.
LEMMA PopulateGrows ==
  ASSUME JobInvariant, TypeInvariant, PopulateInvariant, NEW events \in Seq(Event),
         Queue(events), UNCHANGED <<main, cache, index, reader>>,
         \A i \in 1 .. Len(events) : events[i].type # "PopulateFilesList"
  PROVE  PopulateInvariant'
<1> USE DEF PopulateInvariant
<1>1. Len(queue) \in Nat /\ Len(events) \in Nat /\ Len(queue) <= MaxQueue
  BY LenProperties DEF TypeInvariant, GuiTypeOK
<1>2. CASE queue' = queue
  BY <1>2
<1>3. CASE /\ main \notin {"exiting", "gone"}
           /\ Len(queue') = Len(queue) + Len(events)
           /\ \A i \in 1 .. Len(queue) : queue'[i] = queue[i]
           /\ \A i \in 1 .. Len(events) : queue'[Len(queue) + i] = events[i]
  <2>1. \A i \in 1 .. Len(queue') : queue'[i].type = "PopulateFilesList" =>
          i \in 1 .. Len(queue) /\ queue[i].type = "PopulateFilesList"
    <3> SUFFICES ASSUME NEW i \in 1 .. Len(queue'), queue'[i].type = "PopulateFilesList",
                        i \notin 1 .. Len(queue)
                 PROVE  FALSE
      BY <1>3
    <3>1. i - Len(queue) \in 1 .. Len(events) /\ i = Len(queue) + (i - Len(queue))
      BY <1>1, <1>3
    <3> QED
      BY <3>1, <1>3
  <2>2. main' = "populating" =>
          queue' # <<>> /\ queue'[1].type = "PopulateFilesList" /\ reader' = "reading"
    <3> SUFFICES ASSUME main = "populating"
                 PROVE  queue' # <<>> /\ queue'[1] = queue[1]
      OBVIOUS
    <3>1. Len(queue) # 0
      BY EmptySeq DEF TypeInvariant
    <3>2. queue'[1] = queue[1] /\ Len(queue') # 0
      BY <3>1, <1>1, <1>3
    <3> QED
      BY <3>2, EmptySeq
  <2>3. ASSUME NEW i \in 1 .. Len(queue'), queue'[i].type = "PopulateFilesList"
        PROVE  Requested(i)'
    <3>1. i \in 1 .. Len(queue) /\ queue[i].type = "PopulateFilesList" /\ queue'[i] = queue[i]
      BY <2>1, <2>3, <1>3
    <3>2. Requested(i)
      BY <3>1 DEF Requested
    <3>3. i # 1 => queue'[i - 1] = queue[i - 1]
      BY <3>1, <1>1, <1>3
    <3> QED
      BY <3>1, <3>2, <3>3, <2>1 DEF Requested, CacheJob
  <2> QED
    BY <2>2, <2>3 DEF Requested
<1> QED
  BY <1>1, <1>2, <1>3, QueueGrows DEF TypeInvariant

\* Handling another event moves the request forward.
LEMMA PopulateShrinks ==
  ASSUME TypeInvariant, PopulateInvariant, queue # <<>>, main' # "populating",
         queue[1].type # "PopulateFilesList", queue' = Tail(queue),
         UNCHANGED <<index, reader>>,
         IF queue[1].type = "CacheJob"
         THEN cache' = [cache EXCEPT ![queue[1].volume] = queue[1].status]
         ELSE UNCHANGED cache
  PROVE  PopulateInvariant'
<1> USE DEF PopulateInvariant
<1>1. /\ Len(queue) \in Nat \ {0} /\ Len(queue') = Len(queue) - 1 /\ queue[1] \in Event
      /\ \A i \in 1 .. Len(queue') : queue'[i] = queue[i + 1]
  BY QueueShrinks DEF TypeInvariant
<1> SUFFICES ASSUME NEW i \in 1 .. Len(queue'), queue'[i].type = "PopulateFilesList"
             PROVE  Requested(i)'
  BY DEF Requested
<1>2. i + 1 \in 1 .. Len(queue) /\ queue[i + 1].type = "PopulateFilesList"
  BY <1>1
<1>3. /\ reader # "away" /\ queue[i + 1].volume = index /\ queue[i] = CacheJob(index, 1)
      /\ \A j \in 1 .. Len(queue) : queue[j].type = "PopulateFilesList" => i + 1 = j
  BY <1>1, <1>2
<1>4. \A j \in 1 .. Len(queue') : queue'[j].type = "PopulateFilesList" => i = j
  BY <1>1, <1>3
<1>5. CASE i = 1
  <2>1. queue[1].type = "CacheJob" /\ queue[1].volume = index /\ queue[1].status = 1
    BY <1>3, <1>5 DEF CacheJob
  <2>2. index \in Volumes
    BY <2>1, <1>1 DEF Event
  <2> QED
    BY <1>1, <1>3, <1>4, <1>5, <2>1, <2>2 DEF TypeInvariant, Requested
<1>6. CASE i # 1
  <2>1. i - 1 \in 1 .. Len(queue') /\ queue'[i - 1] = queue[i]
    BY <1>1, <1>6
  <2> QED
    BY <1>1, <1>3, <1>4, <1>6, <2>1 DEF Requested, CacheJob
<1> QED
  BY <1>5, <1>6

LEMMA PopulateNext ==
  JobInvariant /\ TypeInvariant /\ PopulateInvariant /\ [GuiNext]_all => PopulateInvariant'
<1> SUFFICES ASSUME JobInvariant, TypeInvariant, PopulateInvariant, [GuiNext]_all
             PROVE  PopulateInvariant'
  OBVIOUS
<1> USE DEF engine, threads, outcome, flags, frame, switches, request, thread, queries
\* Without a client that has been told there is no request.
<1>1. reader = "away" => \A i \in 1 .. Len(queue) : queue[i].type # "PopulateFilesList"
  BY DEF PopulateInvariant
<1>2. caller \notin {"cleanup", "waiting"} => reader = "away"
  BY DEF JobInvariant, ReaderSound
<1>3. UNCHANGED <<queue, main, cache, index, reader>> => PopulateInvariant'
  BY DEF PopulateInvariant
<1>4. reader = "away" /\ UNCHANGED <<queue, main, cache, reader>> => PopulateInvariant'
  BY <1>1 DEF PopulateInvariant
<1>5. job # "engine" => reader = "away"
  BY <1>2 DEF TypeInvariant
<1>6. CASE Wake \/ SkipVolume \/ FailVolume
  BY <1>6, <1>4, <1>5 DEF Wake, SkipVolume, FailVolume, HasNext, StartFails
<1>7. CASE EndThread \/ StartVolume \/ DeleteVolumes \/ Unlaunch
  BY <1>7, <1>3 DEF EndThread, StartVolume, Start, DeleteVolumes, Unlaunch
<1>8. CASE VolumeDone
  BY <1>8, <1>2, <1>4 DEF VolumeDone
<1>9. CASE Complete
  <2>1. \A i \in 1 .. Len(<<JobCompletion>>) : <<JobCompletion>>[i].type # "PopulateFilesList"
    BY DEF JobCompletion
  <2> QED
    BY <1>9, <2>1, EventsTyped, PopulateGrows DEF Complete
<1>10. CASE GuiPoll
  <2>1. <<CacheJob(index, 0)>> \in Seq(Event)
    BY <1>10, EventsTyped DEF GuiPoll, Poll, TypeInvariant
  <2>2. \A i \in 1 .. Len(<<CacheJob(index, 0)>>) :
          <<CacheJob(index, 0)>>[i].type # "PopulateFilesList"
    BY DEF CacheJob
  <2> QED
    BY <1>10, <2>1, <2>2, PopulateGrows DEF GuiPoll, Poll
<1>11. CASE GuiDeliver
  <2>1. status \in {-1, 0, 1} /\ index \in Volumes /\ main # "populating"
    BY <1>11, <1>1, <1>2 DEF GuiDeliver, Deliver, TypeInvariant, GuiTypeOK, TypeOK,
       PopulateInvariant
  <2> DEFINE events == IF status > 0
                       THEN <<CacheJob(index, status), PopulateFilesList(index)>>
                       ELSE <<CacheJob(index, status)>>
  <2>2. events \in Seq(Event) /\ Queue(events) /\ UNCHANGED <<main, cache, index>>
    BY <1>11, <2>1, EventsTyped DEF GuiDeliver
  <2>3. \A i \in 1 .. Len(queue) : queue[i].type # "PopulateFilesList"
    BY <1>1, <1>2, <1>11 DEF GuiDeliver, Deliver
  <2>4. \A i \in 1 .. Len(events) : events[i].type = "PopulateFilesList" =>
          /\ i = 2 /\ Len(events) = 2 /\ events[1] = CacheJob(index, 1)
          /\ events[2].volume = index /\ reader' # "away"
    <3>1. CASE status > 0
      <4>1. status = 1 /\ reader' = "told"
        BY <3>1, <2>1, <1>11, <1>2 DEF PopulateInvariant, GuiDeliver, Deliver
      <4> QED
        BY <4>1, <3>1 DEF CacheJob, PopulateFilesList
    <3>2. CASE ~(status > 0)
      BY <3>2 DEF CacheJob
    <3> QED
      BY <3>1, <3>2
  <2> HIDE DEF events
  <2>5. CASE queue' = queue
    BY <2>1, <2>2, <2>3, <2>5 DEF PopulateInvariant
  <2>6. CASE /\ Len(queue') = Len(queue) + Len(events)
             /\ \A i \in 1 .. Len(queue) : queue'[i] = queue[i]
             /\ \A i \in 1 .. Len(events) : queue'[Len(queue) + i] = events[i]
    <3>1. Len(queue) \in Nat /\ Len(events) \in Nat
      BY <2>2, LenProperties DEF TypeInvariant
    <3>2. ASSUME NEW i \in 1 .. Len(queue'), queue'[i].type = "PopulateFilesList"
          PROVE  i = Len(queue) + 2 /\ queue'[i] = events[2] /\ events[2].type = "PopulateFilesList"
      <4>1. i \notin 1 .. Len(queue)
        BY <2>3, <2>6, <3>2
      <4>2. i - Len(queue) \in 1 .. Len(events) /\ i = Len(queue) + (i - Len(queue))
        BY <4>1, <3>1, <2>6
      <4>3. queue'[i] = events[i - Len(queue)]
        BY <4>2, <2>6
      <4> QED
        BY <4>2, <4>3, <3>2, <2>4, <3>1
    <3>3. ASSUME NEW i \in 1 .. Len(queue'), queue'[i].type = "PopulateFilesList"
          PROVE  Requested(i)'
      <4>1. i = Len(queue) + 2 /\ queue'[i] = events[2] /\ events[2].type = "PopulateFilesList"
        BY <3>2, <3>3
      <4>2. i - Len(queue) \in 1 .. Len(events) /\ 1 \in 1 .. Len(events)
        BY <4>1, <3>1, <2>6
      <4>3. events[1] = CacheJob(index, 1) /\ events[2].volume = index /\ reader' # "away"
        BY <4>1, <4>2, <2>4, <3>1
      <4>4. queue'[i - 1] = CacheJob(index, 1) /\ i # 1
        BY <4>1, <4>2, <4>3, <2>6, <3>1
      <4>5. \A j \in 1 .. Len(queue') : queue'[j].type = "PopulateFilesList" => i = j
        BY <3>2, <4>1
      <4> QED
        BY <4>1, <4>3, <4>4, <4>5, <2>2 DEF Requested, CacheJob
    <3> QED
      BY <3>3, <2>1, <2>2 DEF PopulateInvariant, Requested
  <2> QED
    BY <2>2, <2>5, <2>6, QueueGrows DEF TypeInvariant, GuiTypeOK
<1>12. CASE GuiAnswer
  BY <1>12, <1>3 DEF GuiAnswer, Answer, gui
<1>13. CASE EngineStep
  BY <1>13, <1>3 DEF EngineStep, gui, TimeUp, Cleanup, Return, Ask, WorkerEnds, ReadAgain,
     Notice, Destroy, Signal
<1>14. CASE OnCacheJob
  BY <1>14, PopulateShrinks, QueueShrinks DEF OnCacheJob, Pending, TypeInvariant
<1>15. CASE Populate
  <2>1. queue # <<>> /\ queue[1].type = "PopulateFilesList" /\ main = "loop"
    BY <1>15, QueueShrinks DEF Populate, Pending, TypeInvariant
  <2>2. 1 \in 1 .. Len(queue) /\ Head(queue) = queue[1]
    BY <2>1, QueueShrinks DEF TypeInvariant
  <2>3. cache[Head(queue).volume] > 0
    BY <2>1, <2>2 DEF PopulateInvariant
  <2>4. cache[Head(queue).volume] \in {-1, 0, 1}
    BY <2>1, <2>2 DEF PopulateInvariant, TypeInvariant, JobInvariant, ReaderSound
  <2>5. ReadLists /\ main' = "populating" /\ UNCHANGED <<queue, cache, index>>
    BY <1>15, <2>3, <2>4 DEF Populate
  <2> QED
    BY <2>1, <2>5 DEF PopulateInvariant, ReadLists
<1>16. CASE Populated
  <2>1. queue # <<>> /\ queue[1].type = "PopulateFilesList" /\ queue' = Tail(queue)
    BY <1>16 DEF Populated, PopulateInvariant
  <2>2. /\ Len(queue) \in Nat \ {0} /\ Len(queue') = Len(queue) - 1
        /\ \A i \in 1 .. Len(queue') : queue'[i] = queue[i + 1]
    BY <2>1, QueueShrinks DEF TypeInvariant
  <2>3. \A j \in 1 .. Len(queue) : queue[j].type = "PopulateFilesList" => j = 1
    BY <2>1, <2>2 DEF PopulateInvariant
  <2>4. \A i \in 1 .. Len(queue') : queue'[i].type # "PopulateFilesList"
    BY <2>2, <2>3
  <2> QED
    BY <2>4, <1>16 DEF Populated, PopulateInvariant
<1>17. CASE OnJobCompletion
  <2>1. Pending("JobCompletion") /\ queue' = Tail(queue) /\ main' # "populating"
        /\ UNCHANGED <<cache, index, reader>>
    BY <1>17 DEF OnJobCompletion, Close, Pending
  <2> QED
    BY <2>1, PopulateShrinks, QueueShrinks DEF Pending, TypeInvariant
<1>18. CASE OnQueryCompletion
  BY <1>18, PopulateShrinks, QueueShrinks DEF OnQueryCompletion, Pending, TypeInvariant
<1>19. CASE Exit \/ Launch \/ OnStartJob \/ CloseWindow
  BY <1>19 DEF Exit, Launch, OnStartJob, CloseWindow, Close, PopulateInvariant
<1>20. CASE OnPause \/ OnStop \/ QueryClusters \/ RunQuery \/ Unstart
  BY <1>20, <1>3 DEF OnPause, OnStop, QueryClusters, RunQuery, Unstart
<1>21. CASE QueryEnds
  <2>1. \A i \in 1 .. Len(<<QueryCompletion>>) :
          <<QueryCompletion>>[i].type # "PopulateFilesList"
    BY DEF QueryCompletion
  <2> QED
    BY <1>21, <2>1, EventsTyped, PopulateGrows DEF QueryEnds
<1>22. CASE UNCHANGED all
  BY <1>22, <1>3 DEF all, gui
<1> QED
  BY <1>6, <1>7, <1>8, <1>9, <1>10, <1>11, <1>12, <1>13, <1>14, <1>15, <1>16, <1>17,
     <1>18, <1>19, <1>20, <1>21, <1>22
     DEF GuiNext, JobThread, Events, User, QueryThread, Callbacks

-----------------------------------------------------------------------------
(* Theorems that hold with and without queries.                            *)

LEMMA GuiInvariance == GuiSpec => [](JobInvariant /\ TypeInvariant /\ PopulateInvariant)
<1>1. GuiInit => JobInvariant
  BY JobInvariantInit DEF GuiInit
<1> QED
  BY <1>1, TypeInit, PopulateInit, TypeNext, PopulateNext, GuiStep, JobInvariantNext, PTL
     DEF GuiSpec

\* The GUI is one of the clients JobControl describes: what is proved of the
\* engine's threads holds in the GUI.
THEOREM GuiObeysEngine == GuiSpec => Spec
<1>1. GuiInit => Init
  BY DEF GuiInit
<1> QED
  BY <1>1, GuiStep, GuiInvariance, PTL DEF GuiSpec, Spec

\* The members of MainFrame, JobThread and QueryThread keep their types: the
\* job thread never passes an index beyond the selection (job.cpp 213).
THEOREM GuiTypeCorrect == GuiSpec => []GuiTypeOK
<1>1. TypeInvariant => GuiTypeOK
  BY DEF TypeInvariant
<1> QED
  BY <1>1, GuiInvariance, PTL

\* Whatever else is queued, ID_PopulateFilesList meets the completed job it was
\* sent for, so FilesPopulateList acknowledges (fileslist.cpp 457-460).
THEOREM PopulateMeetsItsJob == GuiSpec => []PopulateFindsItsJob
<1>1. JobInvariant /\ TypeInvariant /\ PopulateInvariant => PopulateFindsItsJob
  <2> SUFFICES ASSUME JobInvariant, TypeInvariant, PopulateInvariant,
                      Pending("PopulateFilesList")
               PROVE  /\ cache[Head(queue).volume] > 0
                      /\ Head(queue).volume = index /\ lists = "alive"
    BY DEF PopulateFindsItsJob
  <2>1. 1 \in 1 .. Len(queue) /\ Head(queue) = queue[1]
    BY QueueShrinks DEF Pending, TypeInvariant
  <2>2. reader # "away" /\ queue[1].volume = index /\ cache[index] > 0
    BY <2>1 DEF Pending, PopulateInvariant
  <2>3. lists = "alive"
    BY <2>2 DEF JobInvariant, TypeOK, ReaderSound, ListsSound, FlagsSound, DeleterSound,
       WorkerSound
  <2> QED
    BY <2>1, <2>2, <2>3
<1> QED
  BY <1>1, GuiInvariance, PTL

-----------------------------------------------------------------------------
(* The lock, as long as the user performs no queries.                      *)

LEMMA LockInit == GuiInit => LockInvariant
BY DEF GuiInit, LockInvariant, NoCompletion

\* Progress and requests to fill the list leave the lock alone.
LEMMA LockGrows ==
  ASSUME TypeInvariant, LockInvariant, NEW events \in Seq(Event), Queue(events),
         UNCHANGED <<main, m_busy, m_launch, m_startquery, query, job>>,
         \A i \in 1 .. Len(events) :
           events[i].type \notin {"JobCompletion", "QueryCompletion"}
  PROVE  LockInvariant'
<1>1. Len(queue) \in Nat /\ Len(events) \in Nat /\ Len(queue) <= MaxQueue
  BY LenProperties DEF TypeInvariant, GuiTypeOK
<1>2. CASE queue' = queue
  BY <1>2 DEF LockInvariant, NoCompletion
<1>3. CASE /\ Len(queue') = Len(queue) + Len(events)
           /\ \A i \in 1 .. Len(queue) : queue'[i] = queue[i]
           /\ \A i \in 1 .. Len(events) : queue'[Len(queue) + i] = events[i]
  <2>1. ASSUME NEW i \in 1 .. Len(queue'),
               queue'[i].type \in {"JobCompletion", "QueryCompletion"}
        PROVE  i \in 1 .. Len(queue) /\ queue'[i] = queue[i]
    <3>1. CASE i \in 1 .. Len(queue)
      BY <3>1, <1>3
    <3>2. CASE i \notin 1 .. Len(queue)
      <4>1. i - Len(queue) \in 1 .. Len(events) /\ i = Len(queue) + (i - Len(queue))
        BY <3>2, <1>1, <1>3
      <4> QED
        BY <4>1, <2>1, <1>3
    <3> QED
      BY <3>1, <3>2
  <2> QED
    BY <2>1 DEF LockInvariant, NoCompletion
<1> QED
  BY <1>1, <1>2, <1>3, QueueGrows DEF TypeInvariant

\* Other events are handled without touching the lock.
LEMMA LockShrinks ==
  ASSUME TypeInvariant, LockInvariant, queue # <<>>, queue' = Tail(queue),
         UNCHANGED <<m_busy, m_launch, m_startquery, query, job>>, main' # "starting"
  PROVE  LockInvariant'
<1>1. /\ Len(queue) \in Nat \ {0} /\ Len(queue') = Len(queue) - 1
      /\ \A i \in 1 .. Len(queue') : queue'[i] = queue[i + 1]
  BY QueueShrinks DEF TypeInvariant
<1>2. \A i \in 1 .. Len(queue') : i + 1 \in 1 .. Len(queue) /\ queue'[i] = queue[i + 1]
  BY <1>1
<1>3. NoCompletion => NoCompletion'
  BY <1>2 DEF NoCompletion
<1>4. ASSUME NEW i \in 1 .. Len(queue'), NEW j \in 1 .. Len(queue'),
             queue'[i].type = "JobCompletion", queue'[j].type = "JobCompletion"
      PROVE  i = j
  <2>1. i + 1 = j + 1
    BY <1>2, <1>4 DEF LockInvariant
  <2> QED
    BY <2>1
<1>5. \A i \in 1 .. Len(queue') : queue'[i].type # "QueryCompletion"
  BY <1>2 DEF LockInvariant
<1> QED
  BY <1>3, <1>4, <1>5 DEF LockInvariant

LEMMA LockNext ==
  ASSUME Queries = FALSE
  PROVE  JobInvariant /\ TypeInvariant /\ PopulateInvariant /\ LockInvariant /\ [GuiNext]_all
           => LockInvariant'
<1> SUFFICES ASSUME JobInvariant, TypeInvariant, PopulateInvariant, LockInvariant,
                    [GuiNext]_all
             PROVE  LockInvariant'
  OBVIOUS
<1> USE DEF frame, switches, request, thread, queries, NoCompletion
<1>1. UNCHANGED <<queue, main, m_busy, m_launch, m_startquery, query, job>> => LockInvariant'
  BY DEF LockInvariant
<1>2. CASE Wake \/ EndThread \/ SkipVolume \/ FailVolume \/ StartVolume \/ VolumeDone
  BY <1>2 DEF Wake, EndThread, SkipVolume, FailVolume, StartVolume, VolumeDone, HasNext,
     LockInvariant
<1>3. CASE Complete
  <2>1. <<JobCompletion>> \in Seq(Event) /\ <<JobCompletion>>[1].type = "JobCompletion"
        /\ Len(<<JobCompletion>>) = 1
    BY EventsTyped DEF JobCompletion
  <2>2. Len(queue) \in Nat /\ Len(queue) <= MaxQueue
    BY LenProperties DEF TypeInvariant, GuiTypeOK
  <2>3. NoCompletion /\ m_busy
    BY <1>3 DEF Complete, LockInvariant
  <2>4. CASE queue' = queue
    BY <1>3, <2>4 DEF Complete, LockInvariant
  <2>5. CASE /\ main \notin {"exiting", "gone"} /\ Len(queue') = Len(queue) + 1
             /\ \A i \in 1 .. Len(queue) : queue'[i] = queue[i]
             /\ queue'[Len(queue) + 1] = <<JobCompletion>>[1]
    <3>1. main # "starting"
      BY <1>3 DEF Complete, LockInvariant
    <3>2. \A i \in 1 .. Len(queue') : i \in 1 .. Len(queue) \/ i = Len(queue) + 1
      BY <2>2, <2>5
    <3>3. \A i \in 1 .. Len(queue') : queue'[i].type = "JobCompletion" => i = Len(queue) + 1
      BY <3>2, <2>3, <2>5
    <3>4. \A i \in 1 .. Len(queue') : queue'[i].type # "QueryCompletion"
      BY <3>2, <2>1, <2>5 DEF LockInvariant
    <3> QED
      BY <3>1, <3>3, <3>4, <2>3, <1>3 DEF Complete, LockInvariant
  <2> DEFINE events == <<JobCompletion>>
  <2>6. Queue(events) /\ events \in Seq(Event) /\ 1 \in 1 .. Len(events)
    BY <2>1, <1>3 DEF Complete
  <2> HIDE DEF events
  <2>7. \/ queue' = queue
        \/ /\ main \notin {"exiting", "gone"} /\ Len(queue') = Len(queue) + Len(events)
           /\ \A i \in 1 .. Len(queue) : queue'[i] = queue[i]
           /\ queue'[Len(queue) + 1] = events[1]
    BY <2>2, <2>6, QueueGrows DEF TypeInvariant
  <2> QED
    BY <2>1, <2>4, <2>5, <2>7 DEF events
<1>4. CASE DeleteVolumes \/ Unlaunch
  BY <1>4 DEF DeleteVolumes, Unlaunch, LockInvariant
<1>5. CASE GuiPoll
  <2>1. <<CacheJob(index, 0)>> \in Seq(Event)
    BY <1>5, EventsTyped DEF GuiPoll, Poll, TypeInvariant
  <2>2. \A i \in 1 .. Len(<<CacheJob(index, 0)>>) :
          <<CacheJob(index, 0)>>[i].type \notin {"JobCompletion", "QueryCompletion"}
    BY DEF CacheJob
  <2> QED
    BY <1>5, <2>1, <2>2, LockGrows DEF GuiPoll
<1>6. CASE GuiDeliver
  <2>1. status \in {-1, 0, 1} /\ index \in Volumes
    BY <1>6 DEF GuiDeliver, Deliver, TypeInvariant, GuiTypeOK, TypeOK
  <2> DEFINE events == IF status > 0
                       THEN <<CacheJob(index, status), PopulateFilesList(index)>>
                       ELSE <<CacheJob(index, status)>>
  <2>2. events \in Seq(Event) /\ Queue(events)
    BY <1>6, <2>1, EventsTyped DEF GuiDeliver
  <2>3. \A i \in 1 .. Len(events) :
          events[i].type \notin {"JobCompletion", "QueryCompletion"}
    BY DEF CacheJob, PopulateFilesList
  <2> HIDE DEF events
  <2> QED
    BY <1>6, <2>2, <2>3, LockGrows DEF GuiDeliver
<1>7. CASE GuiAnswer \/ EngineStep
  BY <1>7, <1>1 DEF GuiAnswer, EngineStep, gui
<1>8. CASE OnCacheJob
  BY <1>8, LockShrinks DEF OnCacheJob, Pending
<1>9. CASE Populate
  <2>1. CASE UNCHANGED queue
    BY <1>9, <2>1 DEF Populate, Pending, LockInvariant
  <2>2. CASE queue' = Tail(queue) /\ UNCHANGED main
    BY <1>9, <2>2, LockShrinks DEF Populate, Pending
  <2> QED
    BY <1>9, <2>1, <2>2 DEF Populate
<1>10. CASE Populated
  <2>1. queue # <<>> /\ queue' = Tail(queue) /\ main' # "starting"
    BY <1>10 DEF Populated, PopulateInvariant
  <2> QED
    BY <1>10, <2>1, LockShrinks DEF Populated
<1>11. CASE OnJobCompletion
  <2>1. queue # <<>> /\ queue' = Tail(queue) /\ main' # "starting" /\ queue[1].type = "JobCompletion"
    BY <1>11, QueueShrinks DEF OnJobCompletion, Pending, Close, TypeInvariant
  <2>2. /\ Len(queue) \in Nat \ {0} /\ Len(queue') = Len(queue) - 1
        /\ \A i \in 1 .. Len(queue') : queue'[i] = queue[i + 1]
    BY <2>1, QueueShrinks DEF TypeInvariant
  <2>3. \A i \in 1 .. Len(queue') : /\ i + 1 \in 1 .. Len(queue) /\ i + 1 # 1
                                    /\ queue'[i] = queue[i + 1]
    BY <2>2
  <2>4. 1 \in 1 .. Len(queue)
    BY <2>2
  <2>5. \A i \in 1 .. Len(queue') : queue'[i].type \notin {"JobCompletion", "QueryCompletion"}
    BY <2>1, <2>3, <2>4 DEF LockInvariant
  <2>6. job \notin {"loop", "engine"} /\ ~(job = "idle" /\ m_launch)
    BY <2>1, <2>4 DEF LockInvariant
  <2> QED
    BY <1>11, <2>1, <2>5, <2>6 DEF OnJobCompletion, LockInvariant
<1>12. CASE OnQueryCompletion
  <2>1. 1 \in 1 .. Len(queue) /\ queue[1].type = "QueryCompletion"
    BY <1>12, QueueShrinks DEF OnQueryCompletion, Pending, TypeInvariant
  <2> QED
    BY <2>1 DEF LockInvariant
<1>13. CASE Exit \/ CloseWindow
  BY <1>13 DEF Exit, CloseWindow, Close, LockInvariant
<1>14. CASE Launch
  BY <1>14 DEF Launch, LockInvariant
<1>15. CASE OnStartJob
  <2>1. NoCompletion /\ job \notin {"loop", "engine"} /\ ~(job = "idle" /\ m_launch)
    BY <1>15 DEF OnStartJob, LockInvariant
  <2>2. UNCHANGED <<queue, m_launch, m_startquery, query, job>>
    BY <1>15 DEF OnStartJob
  <2>3. main' = "starting" => m_busy'
    BY <1>15 DEF OnStartJob
  <2> QED
    BY <2>1, <2>2, <2>3 DEF LockInvariant
<1>16. CASE OnPause \/ OnStop
  BY <1>16, <1>1 DEF OnPause, OnStop
<1>17. CASE QueryClusters \/ RunQuery \/ QueryEnds \/ Unstart
  BY <1>17 DEF QueryClusters, RunQuery, QueryEnds, Unstart, LockInvariant
<1>18. CASE UNCHANGED all
  BY <1>18, <1>1 DEF all, gui
<1> QED
  BY <1>2, <1>3, <1>4, <1>5, <1>6, <1>7, <1>8, <1>9, <1>10, <1>11, <1>12, <1>13, <1>14,
     <1>15, <1>16, <1>17, <1>18
     DEF GuiNext, JobThread, Events, User, QueryThread, Callbacks

\* "lock everything till the job completion" (job.cpp 266): without queries no
\* other job can be started while the job thread processes volumes, whatever
\* the number of volumes and of pending events.
THEOREM LockHolds ==
  ASSUME Queries = FALSE
  PROVE  GuiSpec => []LockedWhileProcessing
<1>1. LockInvariant => LockedWhileProcessing
  BY DEF LockInvariant, LockedWhileProcessing
<1>2. GuiInit /\ [][GuiNext]_all /\ [](JobInvariant /\ TypeInvariant /\ PopulateInvariant)
        => []LockInvariant
  <2>1. JobInvariant /\ TypeInvariant /\ PopulateInvariant /\ LockInvariant /\ [GuiNext]_all
          => LockInvariant'
    BY LockNext
  <2> QED
    BY <2>1, LockInit, PTL
<1> QED
  BY <1>1, <1>2, GuiInvariance, PTL DEF GuiSpec

-----------------------------------------------------------------------------
(* The tasks of a job: the theorems about TasksSpec.                       *)

Idle == {"start", "analysis", "end", "done"}

\* TypeOK in two parts: the Boolean variables and the others.
Flags == dry_run \in BOOLEAN /\ stopped \in BOOLEAN

Types ==
    /\ job_type \in Jobs /\ fs \in FileSystems
    /\ task \in OpeningTasks \union {"start", "analysis", "defragment", "end", "done"}
    /\ step \in {"enter", "files", "region"}
    /\ left \in Nat /\ (left <= MaxFiles \/ left = 1)
    /\ fVolume \in {"NULL", "open"} /\ handles \in {0, 1}
    /\ held \subseteq {"file_blocks", "sorted_files", "temporary_space"}
    /\ task_result \in {-9, -1, 0} /\ overall \in {-1, 0}
    /\ succeeded \subseteq OpeningTasks /\ failed \subseteq OpeningTasks
    /\ movers \subseteq OpeningTasks \union {"defragment"}
    /\ fault \in {"none", "volume", "file", "region"}
    /\ completion \in {-9, -1, 0, 1}

\* The volume is open exactly while one of the tasks that open it is at work.
VolumeHeld ==
    /\ handles = 1 <=> fVolume = "open"
    /\ handles = 1 <=> task \in OpeningTasks /\ step # "enter"
    /\ step = "region" => task = "single" /\ left > 0
    /\ step # "enter" => task \in OpeningTasks \union {"defragment"}

\* Who has allocated what.
HeldBy ==
    /\ "file_blocks" \in held => task # "done"
    /\ "sorted_files" \in held => task = "optimize" /\ step = "files"
    /\ "temporary_space" \in held => job_type # Analysis /\ task # "done"

\* The jobs that reach no task.
Untouched ==
    /\ job_type = Analysis \/ fs = "UDF" => task \in Idle /\ movers = {}
    /\ task = "single" => job_type \in SingleFile

\* How far the report of an optimization has come.
Reporting ==
    job_type \in Optimizations =>
        /\ overall = 0 <=> succeeded # {}
        /\ task \in {"start", "analysis"} => succeeded = {} /\ failed = {} /\ movers = {}
        /\ task = "defragment" => succeeded \union failed # {}
        /\ task = "end" =>
              IF succeeded \union failed # {}
              THEN task_result = IF succeeded # {} THEN 0 ELSE -1
              ELSE movers = {}
        /\ OptimizationReported

IInv == Flags /\ Types /\ VolumeHeld /\ HeldBy /\ Untouched /\ Reporting

USE DEF Analysis, Optimizations, SingleFile, FileSystems, OpeningTasks, Tasks

LEMMA InitIInv == TasksInit => IInv
<1> SUFFICES ASSUME TasksInit PROVE IInv
  OBVIOUS
<1>1. Flags
  BY DEF TasksInit, Flags
<1>2. Types
  BY FilesAssumption DEF TasksInit, Types
<1>3. VolumeHeld /\ HeldBy /\ Untouched
  BY DEF TasksInit, VolumeHeld, HeldBy, Untouched, Idle
<1>4. Reporting
  BY DEF TasksInit, Reporting, OptimizationReported
<1> QED
  BY <1>1, <1>2, <1>3, <1>4 DEF IInv

\* The Boolean variables: only Stop changes one.
LEMMA FlagsStep == IInv /\ [TasksNext]_vars => Flags'
<1> SUFFICES ASSUME IInv, [TasksNext]_vars PROVE Flags'
  OBVIOUS
<1>1. Flags
  BY DEF IInv
<1>2. CASE UNCHANGED <<dry_run, stopped>>
  BY <1>1, <1>2 DEF Flags
<1>3. CASE Stop
  BY <1>1, <1>3 DEF Stop, Flags, nature, results
<1>4. Stop \/ UNCHANGED <<dry_run, stopped>>
  BY Zenon DEF TasksNext, Single, vars, Begin, AnalysisFails, AnalysisEnds, OpenFails,
     OpenVolume, EnterDefragment, SkipFile, MoveNext, NewPass, LeaveVolume,
     LeaveDefragment, SingleAbandoned, SingleMoveFails, SingleEnds, CloseSingle,
     SingleListEmpty, SingleMatches, SingleNoRegion, SingleMove, End, nature, results
<1> QED
  BY <1>2, <1>3, <1>4

\* The types.
LEMMA TypeStep == IInv /\ [TasksNext]_vars => Types'
<1> SUFFICES ASSUME IInv, [TasksNext]_vars PROVE Types'
  OBVIOUS
<1> USE FilesAssumption, JobsAssumption DEF IInv, Types, VolumeHeld, In, GoTo, nature, place, volume, results
<1>1. CASE Begin
  BY <1>1 DEF Begin
<1>2. CASE AnalysisFails
  BY <1>2 DEF AnalysisFails
<1>3. CASE AnalysisEnds
  BY <1>3 DEF AnalysisEnds, FirstTask, JobTypes
<1>4. ASSUME NEW t \in OpeningTasks, OpenFails(t) PROVE Types'
  BY <1>4 DEF OpenFails, After, Report
<1>5. ASSUME NEW t \in OpeningTasks, OpenVolume(t) PROVE Types'
  BY <1>5 DEF OpenVolume
<1>6. CASE EnterDefragment
  BY <1>6 DEF EnterDefragment
<1>7. ASSUME NEW t \in Tasks \union {"defragment"}, SkipFile(t) \/ NewPass(t) PROVE Types'
  <2>1. CASE SkipFile(t)
    <3>1. left' \in Nat /\ (left' <= MaxFiles \/ left' = 1)
      BY <2>1 DEF SkipFile
    <3> QED
      BY <3>1, <2>1 DEF SkipFile
  <2>2. CASE NewPass(t)
    BY <2>2 DEF NewPass
  <2> QED
    BY <1>7, <2>1, <2>2
<1>8. ASSUME NEW t \in Tasks \union {"defragment"}, MoveNext(t) PROVE Types'
  <2>1. left' \in Nat /\ (left' <= MaxFiles \/ left' = 1)
    BY <1>8 DEF MoveNext
  <2>2. held' \subseteq {"file_blocks", "sorted_files", "temporary_space"}
    BY <1>8 DEF MoveNext, Request
  <2>3. movers' \subseteq OpeningTasks \union {"defragment"}
    BY <1>8 DEF MoveNext, Request
  <2>4. fault' \in {"none", "volume", "file", "region"}
    BY <1>8 DEF MoveNext, Request
  <2> QED
    BY <1>8, <2>1, <2>2, <2>3, <2>4 DEF MoveNext
<1>9. ASSUME NEW t \in Tasks, LeaveVolume(t) PROVE Types'
  BY <1>9 DEF LeaveVolume, After, Report
<1>10. CASE LeaveDefragment
  BY <1>10 DEF LeaveDefragment
<1>11. CASE SingleAbandoned \/ SingleMoveFails \/ SingleEnds
  <2>1. PICK r \in {task_result, -1, 0} : CloseSingle(r)
    BY <1>11 DEF SingleAbandoned, SingleMoveFails, SingleEnds
  <2>2. handles = 1
    BY <1>11 DEF SingleAbandoned, SingleMoveFails, SingleEnds
  <2> QED
    BY <2>1, <2>2 DEF CloseSingle
<1>12. CASE SingleListEmpty \/ SingleMatches \/ SingleNoRegion
  BY ZenonT(40), <1>12 DEF SingleListEmpty, SingleMatches, SingleNoRegion
<1>13. CASE SingleMove
  <2>1. left' \in Nat /\ (left' <= MaxFiles \/ left' = 1)
    BY <1>13 DEF SingleMove
  <2>2. held' \subseteq {"file_blocks", "sorted_files", "temporary_space"}
    BY <1>13 DEF SingleMove, Request
  <2>3. movers' \subseteq OpeningTasks \union {"defragment"}
    BY <1>13 DEF SingleMove, Request
  <2>4. fault' \in {"none", "volume", "file", "region"}
    BY <1>13 DEF SingleMove, Request
  <2> QED
    BY <1>13, <2>1, <2>2, <2>3, <2>4 DEF SingleMove
<1>14. CASE End
  BY <1>14 DEF End
<1>15. CASE Stop
  BY <1>15 DEF Stop
<1>16. CASE UNCHANGED vars
  BY <1>16 DEF vars
<1> QED
  BY <1>1, <1>2, <1>3, <1>4, <1>5, <1>6, <1>7, <1>8, <1>9, <1>10, <1>11,
     <1>12, <1>13, <1>14, <1>15, <1>16 DEF TasksNext, Single

\* The volume handle.
LEMMA VolumeStep == IInv /\ [TasksNext]_vars => VolumeHeld'
<1> SUFFICES ASSUME IInv, [TasksNext]_vars PROVE VolumeHeld'
  OBVIOUS
<1> USE DEF IInv, Types, VolumeHeld, In, GoTo, nature, place, volume, results
<1>1. CASE Begin
  BY <1>1 DEF Begin
<1>2. CASE AnalysisFails
  BY <1>2 DEF AnalysisFails
<1>3. CASE AnalysisEnds
  BY <1>3, JobsAssumption DEF AnalysisEnds, FirstTask, is_fat, JobTypes, Refused, NothingToDo, MustNotGoOn
<1>4. ASSUME NEW t \in OpeningTasks, OpenFails(t) PROVE VolumeHeld'
  BY <1>4 DEF OpenFails, After, Report
<1>5. ASSUME NEW t \in OpeningTasks, OpenVolume(t) PROVE VolumeHeld'
  BY <1>5 DEF OpenVolume
<1>6. CASE EnterDefragment
  BY <1>6 DEF EnterDefragment
<1>7. ASSUME NEW t \in Tasks \union {"defragment"}, SkipFile(t) \/ NewPass(t) PROVE VolumeHeld'
  BY <1>7 DEF SkipFile, NewPass
<1>8. ASSUME NEW t \in Tasks \union {"defragment"}, MoveNext(t) PROVE VolumeHeld'
  BY <1>8 DEF MoveNext, Request
<1>9. ASSUME NEW t \in Tasks, LeaveVolume(t) PROVE VolumeHeld'
  BY <1>9 DEF LeaveVolume, After, Report
<1>10. CASE LeaveDefragment
  BY <1>10 DEF LeaveDefragment
<1>11. CASE SingleAbandoned \/ SingleMoveFails \/ SingleEnds
  BY <1>11 DEF SingleAbandoned, SingleMoveFails, SingleEnds, CloseSingle
<1>12. CASE SingleListEmpty \/ SingleMatches \/ SingleNoRegion
  BY <1>12 DEF SingleListEmpty, SingleMatches, SingleNoRegion
<1>13. CASE SingleMove
  BY <1>13 DEF SingleMove, Request
<1>14. CASE End
  BY <1>14 DEF End
<1>15. CASE Stop
  BY <1>15 DEF Stop
<1>16. CASE UNCHANGED vars
  BY <1>16 DEF vars
<1> QED
  BY <1>1, <1>2, <1>3, <1>4, <1>5, <1>6, <1>7, <1>8, <1>9, <1>10, <1>11,
     <1>12, <1>13, <1>14, <1>15, <1>16 DEF TasksNext, Single

\* What else is allocated.
LEMMA HeldStep == IInv /\ [TasksNext]_vars => HeldBy'
<1> SUFFICES ASSUME IInv, [TasksNext]_vars PROVE HeldBy'
  OBVIOUS
<1> USE DEF IInv, Types, VolumeHeld, HeldBy, Untouched, Idle, In, GoTo, nature, place, volume, results
<1>1. CASE Begin
  BY <1>1 DEF Begin
<1>2. CASE AnalysisFails
  BY <1>2 DEF AnalysisFails
<1>3. CASE AnalysisEnds
  BY <1>3, JobsAssumption DEF AnalysisEnds, FirstTask, is_fat, JobTypes, Refused, NothingToDo, MustNotGoOn
<1>4. ASSUME NEW t \in OpeningTasks, OpenFails(t) PROVE HeldBy'
  BY <1>4 DEF OpenFails, After, Report
<1>5. ASSUME NEW t \in OpeningTasks, OpenVolume(t) PROVE HeldBy'
  BY <1>5 DEF OpenVolume
<1>6. CASE EnterDefragment
  BY <1>6 DEF EnterDefragment
<1>7. ASSUME NEW t \in Tasks \union {"defragment"}, SkipFile(t) \/ NewPass(t) PROVE HeldBy'
  BY <1>7 DEF SkipFile, NewPass
<1>8. ASSUME NEW t \in Tasks \union {"defragment"}, MoveNext(t) PROVE HeldBy'
  BY <1>8 DEF MoveNext, Request
<1>9. ASSUME NEW t \in Tasks, LeaveVolume(t) PROVE HeldBy'
  BY <1>9 DEF LeaveVolume, After, Report
<1>10. CASE LeaveDefragment
  BY <1>10 DEF LeaveDefragment
<1>11. CASE SingleAbandoned \/ SingleMoveFails \/ SingleEnds
  BY <1>11 DEF SingleAbandoned, SingleMoveFails, SingleEnds, CloseSingle
<1>12. CASE SingleListEmpty \/ SingleMatches \/ SingleNoRegion
  BY <1>12 DEF SingleListEmpty, SingleMatches, SingleNoRegion
<1>13. CASE SingleMove
  BY <1>13 DEF SingleMove, Request
<1>14. CASE End
  BY <1>14 DEF End
<1>15. CASE Stop
  BY <1>15 DEF Stop
<1>16. CASE UNCHANGED vars
  BY <1>16 DEF vars
<1> QED
  BY <1>1, <1>2, <1>3, <1>4, <1>5, <1>6, <1>7, <1>8, <1>9, <1>10, <1>11,
     <1>12, <1>13, <1>14, <1>15, <1>16 DEF TasksNext, Single

\* The jobs that reach no task.
LEMMA UntouchedStep == IInv /\ [TasksNext]_vars => Untouched'
<1> SUFFICES ASSUME IInv, [TasksNext]_vars PROVE Untouched'
  OBVIOUS
<1> USE DEF IInv, Types, VolumeHeld, Untouched, Idle, In, GoTo, nature, place, volume, results
<1>1. CASE Begin
  BY <1>1 DEF Begin
<1>2. CASE AnalysisFails
  BY <1>2 DEF AnalysisFails
<1>3. CASE AnalysisEnds
  BY <1>3, JobsAssumption DEF AnalysisEnds, FirstTask, is_fat, JobTypes, Refused, NothingToDo, MustNotGoOn
<1>4. ASSUME NEW t \in OpeningTasks, OpenFails(t) PROVE Untouched'
  BY <1>4 DEF OpenFails, After, Report
<1>5. ASSUME NEW t \in OpeningTasks, OpenVolume(t) PROVE Untouched'
  BY <1>5 DEF OpenVolume
<1>6. CASE EnterDefragment
  BY <1>6 DEF EnterDefragment
<1>7. ASSUME NEW t \in Tasks \union {"defragment"}, SkipFile(t) \/ NewPass(t) PROVE Untouched'
  BY <1>7 DEF SkipFile, NewPass
<1>8. ASSUME NEW t \in Tasks \union {"defragment"}, MoveNext(t) PROVE Untouched'
  BY <1>8 DEF MoveNext, Request
<1>9. ASSUME NEW t \in Tasks, LeaveVolume(t) PROVE Untouched'
  BY <1>9 DEF LeaveVolume, After, Report
<1>10. CASE LeaveDefragment
  BY <1>10 DEF LeaveDefragment
<1>11. CASE SingleAbandoned \/ SingleMoveFails \/ SingleEnds
  BY <1>11 DEF SingleAbandoned, SingleMoveFails, SingleEnds, CloseSingle
<1>12. CASE SingleListEmpty \/ SingleMatches \/ SingleNoRegion
  BY <1>12 DEF SingleListEmpty, SingleMatches, SingleNoRegion
<1>13. CASE SingleMove
  BY <1>13 DEF SingleMove, Request
<1>14. CASE End
  BY <1>14 DEF End
<1>15. CASE Stop
  BY <1>15 DEF Stop
<1>16. CASE UNCHANGED vars
  BY <1>16 DEF vars
<1> QED
  BY <1>1, <1>2, <1>3, <1>4, <1>5, <1>6, <1>7, <1>8, <1>9, <1>10, <1>11,
     <1>12, <1>13, <1>14, <1>15, <1>16 DEF TasksNext, Single

\* The report of an optimization.
LEMMA ReportingStep == IInv /\ [TasksNext]_vars => Reporting'
<1> SUFFICES ASSUME IInv, [TasksNext]_vars PROVE Reporting'
  OBVIOUS
<1> USE DEF IInv, Types, VolumeHeld, Untouched, Idle, Reporting, OptimizationReported, In, GoTo, nature, place, volume, results
<1>1. CASE Begin
  BY <1>1 DEF Begin
<1>2. CASE AnalysisFails
  BY <1>2 DEF AnalysisFails
<1>3. CASE AnalysisEnds
  BY <1>3, JobsAssumption DEF AnalysisEnds, FirstTask, is_fat, JobTypes, Refused, NothingToDo, MustNotGoOn
<1>4. ASSUME NEW t \in OpeningTasks, OpenFails(t) PROVE Reporting'
  BY <1>4 DEF OpenFails, After, Report
<1>5. ASSUME NEW t \in OpeningTasks, OpenVolume(t) PROVE Reporting'
  BY <1>5 DEF OpenVolume
<1>6. CASE EnterDefragment
  BY <1>6 DEF EnterDefragment
<1>7. ASSUME NEW t \in Tasks \union {"defragment"}, SkipFile(t) \/ NewPass(t) PROVE Reporting'
  BY <1>7 DEF SkipFile, NewPass
<1>8. ASSUME NEW t \in Tasks \union {"defragment"}, MoveNext(t) PROVE Reporting'
  BY <1>8 DEF MoveNext, Request
<1>9. ASSUME NEW t \in Tasks, LeaveVolume(t) PROVE Reporting'
  BY <1>9 DEF LeaveVolume, After, Report
<1>10. CASE LeaveDefragment
  BY <1>10 DEF LeaveDefragment
<1>11. CASE SingleAbandoned \/ SingleMoveFails \/ SingleEnds
  BY <1>11 DEF SingleAbandoned, SingleMoveFails, SingleEnds, CloseSingle
<1>12. CASE SingleListEmpty \/ SingleMatches \/ SingleNoRegion
  BY <1>12 DEF SingleListEmpty, SingleMatches, SingleNoRegion
<1>13. CASE SingleMove
  BY <1>13 DEF SingleMove, Request
<1>14. CASE End
  BY <1>14 DEF End
<1>15. CASE Stop
  BY <1>15 DEF Stop
<1>16. CASE UNCHANGED vars
  BY <1>16 DEF vars
<1> QED
  BY <1>1, <1>2, <1>3, <1>4, <1>5, <1>6, <1>7, <1>8, <1>9, <1>10, <1>11,
     <1>12, <1>13, <1>14, <1>15, <1>16 DEF TasksNext, Single

\* The invariant of every job.
THEOREM TasksInvariance == TasksSpec => []IInv
<1>1. IInv /\ [TasksNext]_vars => IInv'
  BY FlagsStep, TypeStep, VolumeStep, HeldStep, UntouchedStep, ReportingStep DEF IInv
<1> QED
  BY InitIInv, <1>1, PTL DEF TasksSpec

\* The variables keep their types; in particular no second handle of the
\* volume is ever opened while one is held.
THEOREM TasksTypeCorrect == TasksSpec => []TasksTypeOK
<1>1. IInv => TasksTypeOK
  BY FilesAssumption DEF IInv, Flags, Types, TasksTypeOK
<1> QED
  BY TasksInvariance, <1>1, PTL

\* A job that ends has given everything back (udefrag.c 303, 935, optimize.c
\* 374, 478, 990): NothingLeft of module Tasks, for every job.
THEOREM JobLeavesNothing == TasksSpec => []NothingLeft
<1>1. IInv => NothingLeft
  BY DEF IInv, Types, VolumeHeld, HeldBy, NothingLeft
<1> QED
  BY TasksInvariance, <1>1, PTL

\* An optimization that has come to its tasks is reported as a success exactly
\* when one of them has succeeded, whatever failed or was stopped in between, and
\* one that has not come to them has moved nothing (optimize.c 1012-1063).
THEOREM OptimizationIsReported == TasksSpec => []OptimizationReported
<1>1. IInv => OptimizationReported
  BY DEF IInv, Reporting, OptimizationReported
<1> QED
  BY TasksInvariance, <1>1, PTL

\* No job makes a request on a UDF volume, and no analysis makes one
\* (analyze.c 839-849).
THEOREM UdfIsUntouched == TasksSpec => []UdfUntouched
<1>1. IInv => UdfUntouched
  BY DEF IInv, Untouched, UdfUntouched
<1> QED
  BY TasksInvariance, <1>1, PTL

\* Only a request makes a fault of this kind; afterwards the job does not go on.
LEMMA OpenStep == IInv /\ MovesOnOpenVolume /\ [TasksNext]_vars => MovesOnOpenVolume'
<1> SUFFICES ASSUME IInv, MovesOnOpenVolume, [TasksNext]_vars PROVE MovesOnOpenVolume'
  OBVIOUS
<1> USE DEF IInv, Types, VolumeHeld, MovesOnOpenVolume, In, GoTo, nature, place, volume, results
<1>1. CASE Begin \/ AnalysisFails \/ AnalysisEnds
  BY <1>1 DEF Begin, AnalysisFails, AnalysisEnds
<1>2. ASSUME NEW t \in OpeningTasks, OpenFails(t) \/ OpenVolume(t) PROVE MovesOnOpenVolume'
  BY <1>2 DEF OpenFails, OpenVolume
<1>3. ASSUME NEW t \in Tasks \union {"defragment"}, SkipFile(t) \/ NewPass(t)
      PROVE MovesOnOpenVolume'
  BY <1>3 DEF SkipFile, NewPass
<1>4. ASSUME NEW t \in Tasks \union {"defragment"}, MoveNext(t) PROVE MovesOnOpenVolume'
  <2>1. CASE t = "defragment"
    BY <1>4, <2>1 DEF MoveNext
  <2>2. CASE t \in Tasks
    <3>1. fVolume = "open" /\ fault = "none"
      BY <1>4, <2>2 DEF MoveNext
    <3> QED
      BY <3>1, <1>4 DEF MoveNext, Request
  <2> QED
    BY <2>1, <2>2
<1>5. ASSUME NEW t \in Tasks, LeaveVolume(t) PROVE MovesOnOpenVolume'
  BY <1>5 DEF LeaveVolume
<1>6. CASE EnterDefragment \/ LeaveDefragment \/ End
  BY <1>6 DEF EnterDefragment, LeaveDefragment, End
<1>7. CASE SingleAbandoned \/ SingleMoveFails \/ SingleEnds
  BY <1>7 DEF SingleAbandoned, SingleMoveFails, SingleEnds, CloseSingle
<1>8. CASE SingleListEmpty \/ SingleMatches \/ SingleNoRegion
  BY <1>8 DEF SingleListEmpty, SingleMatches, SingleNoRegion
<1>9. CASE SingleMove
  <2>1. fVolume = "open" /\ fault = "none"
    BY <1>9 DEF SingleMove
  <2> QED
    BY <2>1, <1>9 DEF SingleMove, Request
<1>10. CASE Stop \/ UNCHANGED vars
  BY <1>10 DEF Stop, vars
<1> QED
  BY <1>1, <1>2, <1>3, <1>4, <1>5, <1>6, <1>7, <1>8, <1>9, <1>10 DEF TasksNext, Single

\* No task but defragment ever makes a request without a volume handle
\* (move.c 195, defrag.c 504), whatever ran before it and however it ended.
THEOREM MovesHaveVolume == TasksSpec => []MovesOnOpenVolume
<1>1. TasksInit => MovesOnOpenVolume
  BY DEF TasksInit, MovesOnOpenVolume
<1> QED
  BY TasksInvariance, <1>1, OpenStep, PTL DEF TasksSpec

-----------------------------------------------------------------------------
(* Queries beside the jobs: the theorems about QuerySpec.                  *)

\* What a query has of its own.
VARIABLES m_startGUI, completions, query_thread, starter, q_worker, q_status, q_late,
          q_lists, startGUI, q_finished

Queried == INSTANCE QueryControl WITH
    MaxCompletions <- MaxQueue, thread <- query_thread

\* What the threads of a query may be doing at each position of the caller.
QueryTypes ==
    /\ query_thread \in {"idle", "engine", "queueing", "completed"}
    /\ starter \in {"out", "polling", "calling", "displaying", "waiting", "mistaken"}
    /\ q_worker \in {"none", "running", "asking", "stopping", "failed", "crashed"}
    /\ q_status \in {-1, 0, 1} /\ q_lists \in {"none", "alive", "destroyed"}
    /\ q_finished \in BOOLEAN

\* The worker is at work while the caller polls.  The flag which says that the
\* GUI is done is down until it has displayed what this query found.
QuerySound ==
    /\ query_thread = "engine" <=> starter # "out"
    /\ q_worker \in {"running", "asking", "stopping"} =>
         (starter = "polling" /\ q_status = 0) \/ starter = "mistaken"
    /\ starter \in {"calling", "displaying"} => q_status # 0
    /\ starter \notin {"out", "mistaken"} => (q_status # 0 <=> q_worker = "none")
    /\ starter # "out" => q_lists # "destroyed"
    /\ q_worker \in {"running", "asking", "stopping", "failed", "crashed"} => q_lists # "alive"
    /\ q_finished => starter \in {"out", "waiting"}
    /\ starter = "out" => q_lists # "alive"

QueryInvariant == QueryTypes /\ QuerySound

LEMMA QueryInvariantInit == Queried!QueryInit => QueryInvariant
BY DEF Queried!QueryInit, QueryInvariant, QueryTypes, QuerySound

LEMMA QueryInvariantNext ==
    QueryInvariant /\ [Queried!Query \/ Queried!Job]_Queried!both => QueryInvariant'
<1> SUFFICES ASSUME QueryInvariant, [Queried!Query \/ Queried!Job]_Queried!both
             PROVE  QueryInvariant'
  OBVIOUS
<1> USE DEF QueryInvariant, QueryTypes, QuerySound, Queried!query, Queried!window,
            Queried!q_outcome
<1>1. CASE Queried!QueryClusters
  BY <1>1 DEF Queried!QueryClusters
<1>2. CASE Queried!OnQueryCompletion \/ Queried!OnPause \/ Queried!OnStop
  BY <1>2 DEF Queried!OnQueryCompletion, Queried!OnPause, Queried!OnStop
<1>3. CASE Queried!StartQuery
  BY <1>3 DEF Queried!StartQuery
<1>4. CASE Queried!Operation3
  BY <1>4 DEF Queried!Operation3
<1>5. CASE Queried!PollQuery
  BY <1>5 DEF Queried!PollQuery
<1>6. CASE Queried!PostProgress
  BY <1>6 DEF Queried!PostProgress
<1>7. CASE Queried!Display
  BY <1>7 DEF Queried!Display
<1>8. CASE Queried!ReturnQuery
  BY <1>8 DEF Queried!ReturnQuery
<1>9. CASE Queried!QueueCompletion \/ Queried!EndQuery
  BY <1>9 DEF Queried!QueueCompletion, Queried!EndQuery
<1>10. CASE Queried!AskQuery \/ Queried!AnswerQuery
  BY <1>10 DEF Queried!AskQuery, Queried!AnswerQuery
<1>11. CASE Queried!QueryEnds
  BY <1>11 DEF Queried!QueryEnds
<1>12. CASE Queried!Crash
  BY <1>12 DEF Queried!Crash
<1>13. CASE Queried!ReadQueryAgain
  BY <1>13 DEF Queried!ReadQueryAgain
<1>14. CASE Queried!Job \/ UNCHANGED Queried!both
  BY <1>14 DEF Queried!Job, Queried!both, Queried!queries
<1> QED
  BY <1>1, <1>2, <1>3, <1>4, <1>5, <1>6, <1>7, <1>8, <1>9, <1>10, <1>11, <1>12, <1>13, <1>14
  DEF Queried!Query, Queried!Main, Queried!QueryThread, Queried!QueryWorker

\* udefrag_starts_query does not return before its worker has stored its status
\* (after a failure it reads it once more, 97-98), the lists
\* are there while the GUI displays what they hold, and they are not left behind
\* (query.c 140-190): although the flag it waits for is a global one and the
\* parameters of the GUI may be those of the next query.
THEOREM QueryFrameIsAlive == Queried!QuerySpec => []Queried!QueryOutlivesThreads
<1>1. QueryInvariant => Queried!QueryOutlivesThreads
  BY DEF QueryInvariant, QueryTypes, QuerySound, Queried!QueryOutlivesThreads,
     Queried!QueryFrameUsers
<1> QED
  BY <1>1, QueryInvariantInit, QueryInvariantNext, PTL DEF Queried!QuerySpec
=============================================================================
