------------------------------ MODULE Defragment ------------------------------
(***************************************************************************)
(* The defragmentation algorithm (dll/udefrag/defrag.c): passes over the   *)
(* list of fragmented files which repeat while they move data, first with  *)
(* the fragment size threshold of the options, then, when that is the      *)
(* default one, with a small threshold, and all of it once more for the    *)
(* files whose move failed.  move_file appears here by its outcomes;       *)
(* MoveFile.tla has its steps.                                             *)
(***************************************************************************)
EXTENDS Volume

CONSTANTS
    BytesPerCluster,
    Default,     \* DEFAULT_FRAGMENT_SIZE_THRESHOLD, more than any file has
    Partial,     \* PART_DEFRAG_MAGIC_CONSTANT
    Scenarios    \* how files are mapped, which clusters other files occupy,
                 \* and the threshold of the options: Default, or the user's

ASSUME ThresholdAssumption ==
    /\ BytesPerCluster \in Nat \ {0}
    /\ Default > NClusters * BytesPerCluster /\ Partial \in 1 .. Default - 1
    /\ \A s \in Scenarios : s.setting \in 1 .. Default

\* Files without clusters are not moved and left out, and nothing shares
\* clusters with another file.
ASSUME ScenariosAssumption ==
    \A s \in Scenarios :
        /\ DOMAIN s.map = Files
        /\ \A f \in Files :
            LET m == s.map[f]
            IN /\ DOMAIN m \subseteq Nat /\ IsFiniteSet(DOMAIN m) /\ DOMAIN m # {}
               /\ \A v \in DOMAIN m : m[v] \in Clusters
        /\ \A f, g \in Files : \A v \in DOMAIN s.map[f], w \in DOMAIN s.map[g] :
            s.map[f][v] = s.map[g][w] => f = g /\ v = w

VARIABLES
    tried,     \* UD_FILE_CURRENTLY_EXCLUDED
    setting,   \* udo.fragment_size_threshold when the job starts
    threshold, \* udo.fragment_size_threshold: it changes in between
    pc,        \* where defragment is
    file, next,       \* of defrag_routine
    min_vcn, max_vcn, \* of defrag_routine
    retried    \* defragment has reached its second attempt

volume == <<disk, setting>>
flags == <<failed, stuck, tried>>
pass == <<file, next, min_vcn, max_vcn, moved>>
control == <<threshold, pc, retried>>
vars == <<volume, flags, pass, control, stopped>>

-----------------------------------------------------------------------------
(* Files, numbered in the order of their paths, and their fragments.       *)

Little(length) == length * BytesPerCluster < threshold
CountLittle(m) == Cardinality({v \in DOMAIN m : Begins(m, v) /\ Little(Length(m, v))})

\* exclude_by_fragment_size: a threshold of the user is a filter, too.
Filtered(m) == setting # Default /\ CountLittle(m) = 0

\* jp->fragmented_files: the most fragmented files come first.
Listed == {f \in Files : Fragmented(map[f]) /\ ~Filtered(map[f])}
Precedes(f, g) ==
    Count(map[f]) > Count(map[g]) \/ (Count(map[f]) = Count(map[g]) /\ f < g)
FirstOf(S) == IF S = {} THEN None ELSE CHOOSE f \in S : \A g \in S \ {f} : Precedes(f, g)
MutNextOf(f) == FirstOf({g \in Listed : Count(map[f]) > Count(map[g])})
NextOf(f) == FirstOf({g \in Listed : Precedes(f, g)})

Targets(length) == FirstRegion(0, length)

\* move_entirely: no partial moves of small files, nor where Windows does not
\* support them.
Entirely(f) == Size(map[f]) * BytesPerCluster < 2 * threshold \/ fs = "NTFS4"

CanDefragment(f) == f \notin failed \cup stuck \cup tried /\ Fragmented(map[f])

-----------------------------------------------------------------------------
(* Which clusters of a file are worth to be joined: fr is the list of its  *)
(* fragments from min_vcn on, `largest' the longest free region.           *)

Total(fr, first, last) == MapThenSumSet(LAMBDA k : fr[k].length, first .. last)
End(fr) == fr.vcn + fr.length

\* A row begins with the first little fragment and goes on with the ones
\* after it, as many as fit into the largest region.
IsRow(fr, first, last, largest) ==
    /\ first <= last /\ fr[first].length < largest
    /\ \A k \in 1 .. last : Little(fr[k].length) <=> k >= first
    /\ Total(fr, first, last) <= largest
    /\ last < Len(fr) /\ Little(fr[last + 1].length) => Total(fr, first, last + 1) > largest

\* No need for more, or no room.
Enough(fr, first, last, largest) ==
    \/ last < Len(fr) /\ Little(fr[last + 1].length)
    \/ Little(largest)
    \/ ~Little(Total(fr, first, last))
    \/ first = 1 /\ last = Len(fr)

MutCut(fr, first, last, k) ==
    LET cut == (threshold \div BytesPerCluster) - Total(fr, first, last)
    IN IF Little(fr[k].length - cut) THEN fr[k].length ELSE cut

\* What the row lacks to reach the threshold is cut from its neighbour k, or
\* all of the neighbour is taken when the rest would be little.
Cut(fr, first, last, k) ==
    LET cut == ((threshold + BytesPerCluster - 1) \div BytesPerCluster) - Total(fr, first, last)
    IN IF Little(fr[k].length - cut) THEN fr[k].length ELSE cut

Choice(fr, first, last, largest) ==
    LET row == [vcn |-> fr[first].vcn, length |-> Total(fr, first, last),
                n |-> last - first + 1, end |-> End(fr[last])]
        k == IF last < Len(fr) THEN last + 1 ELSE first - 1
        cut == Cut(fr, first, last, k)
    IN IF Enough(fr, first, last, largest) THEN row
       ELSE IF k > last
       THEN [row EXCEPT !.length = @ + cut, !.n = @ + 1, !.end = fr[k].vcn + cut]
       ELSE [row EXCEPT !.length = @ + cut, !.n = @ + 1, !.vcn = End(fr[k]) - cut]

\* One fragment alone is not worth a move.
Joinable(fr, largest) ==
    {c \in {Choice(fr, r[1], r[2], largest) :
              r \in {q \in (DOMAIN fr) \X (DOMAIN fr) : IsRow(fr, q[1], q[2], largest)}} : c.n >= 2}

\* The fragments left: neither processed nor behind max_vcn.
Remaining(m) ==
    Fragments(m, {v \in DOMAIN m : Begins(m, v) /\ v >= min_vcn /\ v + Length(m, v) <= max_vcn})

-----------------------------------------------------------------------------
Init ==
    /\ fs \in {"NTFS", "NTFS4", "FAT"}
    /\ \E s \in Scenarios : map = s.map /\ others = s.others /\ setting = s.setting
    /\ free = Released
    /\ failed = {} /\ stuck \in SUBSET Files /\ tried = {}
    /\ threshold = setting /\ pc = "sequence" /\ retried = FALSE
    /\ file = None /\ next = None /\ min_vcn = 0 /\ max_vcn = 0 /\ moved = FALSE
    /\ stopped = FALSE

\* defrag_sequence: there is nothing to do for another pass.
LeaveSequence ==
    /\ pc = "sequence" /\ (Listed = {} \/ stopped)
    /\ pc' = "left" /\ threshold' = setting
    /\ UNCHANGED <<volume, flags, pass, retried, stopped>>

\* A pass begins with the free space as it really is.
BeginPass ==
    /\ pc = "sequence" /\ Listed # {} /\ ~stopped
    /\ moved' = FALSE /\ tried' = {}
    /\ free' = Released
    /\ file' = FirstOf(Listed) /\ pc' = "files"
    /\ UNCHANGED <<fs, map, others, setting, failed, stuck, next, min_vcn, max_vcn,
                   threshold, retried, stopped>>

\* The end of a pass.  Passes follow while data are moved; after the last one
\* with the default threshold come the ones with the small threshold.
EndPass ==
    /\ pc = "files" /\ (file = None \/ stopped)
    /\ tried' = {} /\ file' = None
    /\ IF moved THEN pc' = "sequence" /\ UNCHANGED threshold
       ELSE IF threshold = Default THEN pc' = "sequence" /\ threshold' = Partial
       ELSE pc' = "left" /\ threshold' = setting
    /\ UNCHANGED <<volume, failed, stuck, next, min_vcn, max_vcn, moved, retried, stopped>>

\* The end of the work on a file.
Complete(f, following) ==
    /\ tried' = tried \cup {f} /\ file' = following
    /\ pc' = "files" /\ next' = None /\ min_vcn' = 0 /\ max_vcn' = 0

InFiles == pc = "files" /\ file # None /\ ~stopped

SkipFile ==
    /\ InFiles
    /\ ~CanDefragment(file) \/ (Entirely(file) /\ Targets(Size(map[file])) = {})
    /\ Complete(file, NextOf(file))
    /\ UNCHANGED <<volume, failed, stuck, moved, threshold, retried, stopped>>

MoveEntirely ==
    /\ InFiles /\ CanDefragment(file) /\ Entirely(file)
    /\ \E lcn \in Targets(Size(map[file])) :
        MoveFile(file, FirstVcn(map[file]), Size(map[file]), lcn)
    /\ Complete(file, NextOf(file))
    /\ UNCHANGED <<setting, threshold, retried, stopped>>

\* Eliminate little fragments.
EnterFile ==
    /\ InFiles /\ CanDefragment(file) /\ ~Entirely(file)
    /\ next' = NextOf(file) /\ pc' = "fragments"
    /\ min_vcn' = FirstVcn(map[file]) /\ max_vcn' = EndVcn(map[file])
    /\ UNCHANGED <<volume, flags, file, moved, threshold, retried, stopped>>

Unfinished ==
    /\ pc = "fragments" /\ min_vcn < max_vcn /\ CanDefragment(file)
    /\ Remaining(map[file]) # <<>> /\ free # {} /\ ~stopped

ToJoin == UNION {Joinable(fr, n) : fr \in {Remaining(map[file])}, n \in {Largest}}

\* Little fragments which cannot be joined are left as they are.
NothingToJoin ==
    /\ Unfinished /\ ToJoin = {}
    /\ min_vcn' = max_vcn
    /\ UNCHANGED <<volume, flags, file, next, max_vcn, moved, control, stopped>>

JoinFragments ==
    /\ Unfinished
    /\ \E c \in ToJoin :
        /\ IF Targets(c.length) = {}
           THEN UNCHANGED moves
           ELSE \E lcn \in Targets(c.length) : MoveFile(file, c.vcn, c.length, lcn)
        /\ min_vcn' = c.end
    /\ UNCHANGED <<setting, tried, file, next, max_vcn, control, stopped>>

LeaveFile ==
    /\ pc = "fragments" /\ ~Unfinished
    /\ Complete(file, next)
    /\ UNCHANGED <<volume, failed, stuck, moved, threshold, retried, stopped>>

\* defragment: files which could not be moved get another chance.
SecondAttempt ==
    /\ pc = "left" /\ ~retried /\ ~stopped /\ Listed \cap failed # {}
    /\ failed' = failed \ Listed
    /\ retried' = TRUE /\ pc' = "sequence"
    /\ UNCHANGED <<volume, stuck, tried, pass, threshold, stopped>>

Finish ==
    /\ pc = "left" /\ (retried \/ stopped \/ Listed \cap failed = {})
    /\ pc' = "done"
    /\ UNCHANGED <<volume, flags, pass, threshold, retried, stopped>>

StopJob ==
    /\ Stop(pc # "done")
    /\ UNCHANGED <<volume, flags, pass, control>>

Job == \/ LeaveSequence \/ BeginPass \/ EndPass \/ SkipFile \/ MoveEntirely \/ EnterFile
       \/ NothingToJoin \/ JoinFragments \/ LeaveFile \/ SecondAttempt \/ Finish

Done == pc = "done" /\ UNCHANGED vars

Next == Job \/ StopJob \/ Done

\* The algorithm goes on as long as it can; nobody has to stop it.
Spec == Init /\ [][Next]_vars /\ WF_vars(Job)

-----------------------------------------------------------------------------
(* Properties.                                                             *)

\* The files keep their clusters apart from each other and the free regions
\* never overlap a file.
TypeOK ==
    /\ FilesApart
    /\ failed \cup stuck \cup tried \subseteq Files /\ file \in Files \cup {None}
    /\ threshold \in {setting, Partial}
    /\ min_vcn \in Nat /\ max_vcn \in Nat

\* A move that succeeds never splits a file into more fragments and never
\* leaves more little ones, even where clusters are cut from a neighbour, and
\* it leaves fewer of the ones or of the others; and no move puts clusters on
\* those of another file.
JoiningHelps ==
    [][TypeOK' /\ \A f \in Files : map'[f] # map[f] /\ f \notin failed' =>
         /\ CountLittle(map'[f]) <= CountLittle(map[f]) /\ Count(map'[f]) <= Count(map[f])
         /\ CountLittle(map'[f]) < CountLittle(map[f]) \/ Count(map'[f]) < Count(map[f])]_vars

\* "so we'll never have infinite loops here" (defrag.c 499-501): the passes
\* end for files without holes, whether moves succeed, are refused, fail or stop
\* half way, and although the files that failed are tried again.
Terminates == <>(pc = "done")

\* A sequence of passes ends only when no file which is to be moved as a
\* whole fits into a free region.
PassesExhaust ==
    [][EndPass /\ ~moved /\ ~stopped =>
         \A f \in Listed \ (failed \cup stuck) :
            Entirely(f) => Targets(Size(map[f])) = {}]_vars
=============================================================================
