------------------------------- MODULE NtfsScan -------------------------------
(***************************************************************************)
(* The search for all files of an NTFS volume (dll/zenwinx/ftw_ntfs.c,     *)
(* winx_scan_disk of ftw.c): the file records are read one by one, from    *)
(* the last to the first, while others go on working with the volume.      *)
(* Each read shows a record as it is at that moment.  When all are read,   *)
(* the paths are built from what has been found.                           *)
(***************************************************************************)
EXTENDS Mft

CONSTANT MaxPath    \* how many names fit into MAX_PATH characters

ASSUME PathAssumption == MaxPath \in Nat \ {0}

NoName == <<"none">>

\* Every file has a name, and what it lies in has an index, in the base record.
ASSUME NamesAssumption ==
    \A t \in Tables : \A r \in Records : t[r].used /\ t[r].base = None =>
        /\ NamesIn(t[r].attrs) # {}
        /\ \A i \in NamesIn(t[r].attrs) :
            LET a == t[r].attrs[i]
                dir == t[a.parent]
            IN /\ a.name # NoName /\ a.type \in {"dos", "win32", "posix"}
               /\ dir.used /\ dir.base = None
               /\ \E j \in DOMAIN dir.attrs : Key(dir.attrs[j]) = IndexRoot

NoPath == <<>>
Missing == <<>>     \* the name of a directory which has not been found

VARIABLES
    mft_id,     \* of scan_mft: the next record
    mfi,        \* sp->mfi: what is known of the current file
    entries,    \* the rest of its attribute list
    filelist,   \* *sp->filelist, from its head on
    at,         \* the position in filelist
    child,      \* p->child: the part of the path gathered so far
    parent,     \* parent_mft_id of build_file_path
    full,       \* full_path_retrieved
    result,     \* what find_files makes of it
    unread,     \* files with a record that could not be read (history)
    stopped,    \* the terminator returns nonzero
    pc

file == <<mfi, entries>>
path == <<at, child, parent, full>>
vars == <<table, mft_id, file, filelist, path, result, unread, stopped, pc>>

NoFile == [id |-> None, parent |-> Root, name |-> NoName, type |-> "posix"]

-----------------------------------------------------------------------------
(* What is made of the attributes.                                         *)

DefaultNames ==
    [data |-> ":$DATA", root |-> ":$INDEX_ROOT", index |-> ":$INDEX_ALLOCATION",
     bitmap |-> ":$BITMAP", list |-> ":$ATTRIBUTE_LIST"]

\* get_attribute_name: an attribute without a name is called by its type; the
\* streams with a file's own name are those of the default data and, whatever
\* its type is, everything which has got the name of an index of files.
StreamName(key) ==
    LET name == IF key[2] = "" THEN DefaultNames[key[1]] ELSE key[2]
    IN IF name \in {":$DATA", "$I30", ":$INDEX_ALLOCATION"} THEN "" ELSE name

MutEntry(list, id, stream) ==
    {i \in DOMAIN list : \A j \in 1 .. i : list[j].id = id}

\* find_filelist_entry: the file list is searched from its head on, up to the
\* records which have been scanned before.
Entry(list, id, stream) ==
    {i \in DOMAIN list :
        /\ \A j \in 1 .. i : list[j].id <= id
        /\ list[i].id = id /\ list[i].stream = stream /\ list[i].name = NoName}

NewEntry(id, stream) ==
    [id |-> id, stream |-> stream, name |-> NoName, parent |-> Root,
     map |-> <<>>, fragments |-> 0, path |-> NoPath]

\* process_run_list: the clusters are added to the stream, which is entered at
\* the head of the list when it is new.
AddPiece(list, id, a) ==
    LET stream == StreamName(Key(a))
        found == Entry(list, id, stream)
        entered == IF found = {} THEN <<NewEntry(id, stream)>> \o list ELSE list
        i == IF found = {} THEN 1 ELSE Min(found)
    IN IF a.lcn = Resident THEN entered
       ELSE [entered EXCEPT ![i].map = Append(@, [vcn |-> a.vcn, lcn |-> a.lcn]),
                            ![i].fragments = @ + 1]

MutUpdateName(f, a) ==
    IF f.name = NoName \/ f.type = "dos" \/ (f.type = "win32" /\ a.type = "posix")
    THEN [f EXCEPT !.parent = a.parent, !.name = a.name, !.type = a.type]
    ELSE [f EXCEPT !.parent = a.parent]

\* update_file_name: the parent comes from the last name, the name from the
\* best one.
UpdateName(f, a) ==
    IF a.parent = f.id /\ f.id # Root THEN f
    ELSE IF \/ f.name = NoName \/ f.type = "dos"
            \/ f.type = "win32" /\ a.type = "posix"
    THEN [f EXCEPT !.parent = a.parent, !.name = a.name, !.type = a.type]
    ELSE [f EXCEPT !.parent = a.parent]

Analyze(id, s, a) ==
    IF a.kind = "name" THEN [s EXCEPT !.mfi = UpdateName(@, a)]
    ELSE [s EXCEPT !.list = AddPiece(@, id, a)]

\* enumerate_attributes; when it is stopped on the way no path is built any more
\* and the whole list is dropped.
Analyzed(id, s, attrs) ==
    LET upto[n \in 0 .. Len(attrs)] ==
            IF n = 0 THEN s ELSE Analyze(id, upto[n - 1], attrs[n])
    IN upto[Len(attrs)]

\* The attributes of a base record; the attribute list is itself a stream.
AnalyzeBase(r) ==
    LET rec == mft[r]
        own == Analyzed(r, [mfi |-> [NoFile EXCEPT !.id = r], list |-> filelist], rec.attrs)
    IN IF rec.list = <<>> THEN own
       ELSE Analyze(r, own, Data(<<"list", "">>, 0, IF rec.resident THEN Resident ELSE <<r, rec.seq, "list">>))

-----------------------------------------------------------------------------
Init ==
    /\ mft \in Tables /\ touched = {} /\ events = 0
    /\ mft_id = LastRecord /\ mfi = NoFile /\ entries = <<>> /\ filelist = <<>>
    /\ at = 1 /\ child = <<>> /\ parent = Root /\ full = FALSE
    /\ result = 0 /\ unread = {} /\ stopped = FALSE /\ pc = "scan"

-----------------------------------------------------------------------------
(* scan_mft                                                                *)

\* The record r is done: the next one to be asked for is the one before it.
GoOn(r) ==
    IF r = 0 \/ mft_id = 0
    THEN pc' = "paths" /\ UNCHANGED mft_id
    ELSE pc' = "scan" /\ mft_id' = r - 1

\* FSCTL_GET_NTFS_FILE_RECORD returns the next lower record in use.
Returned(id) == Max({r \in 0 .. id : mft[r].used})

\* Records of attributes are looked at with their base records.
SkipChild ==
    /\ pc = "scan" /\ ~stopped
    /\ mft[Returned(mft_id)].base # None
    /\ GoOn(Returned(mft_id))
    /\ UNCHANGED <<table, file, filelist, path, result, unread, stopped>>

\* analyze_file_record, up to the attribute list
ReadBase ==
    /\ pc = "scan" /\ ~stopped
    /\ LET r == Returned(mft_id)
           s == AnalyzeBase(r)
       IN /\ mft[r].base = None
          /\ mfi' = s.mfi /\ filelist' = s.list /\ entries' = mft[r].list
          /\ pc' = IF mft[r].resident THEN "children" ELSE "list"
    /\ UNCHANGED <<table, mft_id, path, result, unread, stopped>>

\* A list outside of the record is read from the clusters the record has
\* named: others may have changed it, or put something else there, at worst the
\* attribute list of another file.
ReadList ==
    /\ pc = "list" /\ pc' = "children"
    /\ entries' \in
        IF stopped THEN {<<>>}
        ELSE IF mfi.id \in touched THEN {<<>>} \cup {mft[r].list : r \in Records}
        ELSE {mft[mfi.id].list}
    /\ UNCHANGED <<table, mft_id, mfi, filelist, path, result, unread, stopped>>

\* analyze_attribute_from_mft_record: another record, which must be in use and
\* belong to a base record, to whichever it is.
Accepted(e) ==
    IF e.id # mfi.id /\ mft[e.id].used /\ mft[e.id].base # None
    THEN {i \in DOMAIN mft[e.id].attrs : Key(mft[e.id].attrs[i]) = e.key}
    ELSE {}

ReadChild ==
    /\ pc = "children" /\ entries # <<>> /\ ~stopped
    /\ LET e == Head(entries)
       IN IF Accepted(e) = {} THEN UNCHANGED <<mfi, filelist>>
          ELSE LET s == Analyze(mfi.id, [mfi |-> mfi, list |-> filelist],
                               mft[e.id].attrs[Min(Accepted(e))])
               IN mfi' = s.mfi /\ filelist' = s.list
    /\ entries' = Tail(entries)
    /\ UNCHANGED <<table, mft_id, path, result, unread, stopped, pc>>

\* What is known of the file at last is entered for all of its streams.
FinishFile ==
    /\ pc = "children" /\ (entries = <<>> \/ stopped)
    /\ entries' = <<>> /\ mfi' = NoFile
    /\ filelist' =
        [i \in DOMAIN filelist |->
            IF filelist[i].id = mfi.id /\ \A j \in 1 .. i : filelist[j].id <= mfi.id
            THEN [filelist[i] EXCEPT !.name = mfi.name, !.parent = mfi.parent]
            ELSE filelist[i]]
    /\ GoOn(mfi.id)
    /\ UNCHANGED <<table, path, result, unread, stopped>>

\* A record cannot be read.  Nothing is possible without the first one.
ReadFails ==
    /\ ~stopped /\ events < MaxEvents /\ events' = events + 1
    /\ \/ /\ pc = "scan" /\ mft_id > 0
          /\ unread' = unread \cup {mft_id} /\ mft_id' = mft_id - 1
          /\ UNCHANGED <<entries, result, pc>>
       \/ /\ pc = "scan" /\ mft_id = 0
          /\ unread' = unread \cup {0} /\ pc' = "remove"
          /\ UNCHANGED <<entries, mft_id, result>>
       \/ /\ pc = "children" /\ entries # <<>>
          /\ unread' = unread \cup {mfi.id} /\ entries' = Tail(entries)
          /\ UNCHANGED <<mft_id, result, pc>>
    /\ UNCHANGED <<mft, touched, mfi, filelist, path, stopped>>

StopScan ==
    /\ pc = "scan" /\ stopped /\ pc' = "paths"
    /\ UNCHANGED <<table, mft_id, file, filelist, path, result, unread, stopped>>

-----------------------------------------------------------------------------
(* build_full_paths: what does not fit is cut off at the end.              *)

Cut(p) == SubSeq(p, 1, Min({Len(p), MaxPath}))
PartOf(e) == <<e.name, e.stream>>

MutDirectory(id) == {i \in DOMAIN filelist : filelist[i].id = id}

\* find_directory_by_mft_id: a stream without a default name
ByDefault == {":$INDEX_ROOT", ":$BITMAP", ":$ATTRIBUTE_LIST"}
Directory(id) ==
    {i \in DOMAIN filelist : filelist[i].id = id /\ filelist[i].stream \notin ByDefault}

BeginPath ==
    /\ pc = "paths" /\ at <= Len(filelist) /\ ~stopped
    /\ child' = <<PartOf(filelist[at])>> /\ parent' = filelist[at].parent
    /\ full' = FALSE /\ pc' = "walk"
    /\ UNCHANGED <<table, mft_id, file, filelist, at, result, unread, stopped>>

\* get_directory_information: a parent whose path is known completes the path.
ToParent ==
    /\ pc = "walk" /\ parent # Root /\ ~full /\ ~stopped
    /\ IF Directory(parent) = {}
       THEN /\ child' = Cut(<<Missing>> \o child) /\ parent' = Root
            /\ UNCHANGED full
       ELSE LET d == filelist[Min(Directory(parent))]
            IN /\ parent' = d.parent /\ full' = (d.path # NoPath)
               /\ child' = Cut((IF d.path # NoPath THEN d.path ELSE <<PartOf(d)>>) \o child)
    /\ UNCHANGED <<table, mft_id, file, filelist, at, result, unread, stopped, pc>>

EndPath ==
    /\ pc = "walk" /\ (parent = Root \/ full)
    /\ filelist' = [filelist EXCEPT ![at].path = child]
    /\ child' = <<>> /\ parent' = Root /\ full' = FALSE
    /\ at' = at + 1 /\ pc' = "paths"
    /\ UNCHANGED <<table, mft_id, file, result, unread, stopped>>

\* The file keeps no path.
StopPath ==
    /\ pc = "walk" /\ parent # Root /\ ~full /\ stopped
    /\ child' = <<>> /\ parent' = Root /\ pc' = "paths"
    /\ UNCHANGED <<table, mft_id, file, filelist, at, full, result, unread, stopped>>

PathsBuilt ==
    /\ pc = "paths" /\ (at > Len(filelist) \/ stopped)
    /\ at' = 1 /\ pc' = "filter"
    /\ UNCHANGED <<table, mft_id, file, filelist, child, parent, full, result, unread, stopped>>

-----------------------------------------------------------------------------
(* The end of the scan.                                                    *)

\* validate_blockmap compares the first two blocks.
Invalid(map) == Len(map) > 1 /\ map[1].vcn = map[2].vcn

Validate ==
    /\ pc = "filter" /\ at <= Len(filelist) /\ ~stopped
    /\ filelist' = [filelist EXCEPT ![at].map = IF Invalid(@) THEN <<>> ELSE @]
    /\ at' = at + 1
    /\ UNCHANGED <<table, mft_id, file, child, parent, full, result, unread, stopped, pc>>

Filtered ==
    /\ pc = "filter" /\ (at > Len(filelist) \/ stopped)
    /\ at' = 1 /\ pc' = "remove"
    /\ UNCHANGED <<table, mft_id, file, filelist, child, parent, full, result, unread, stopped>>

\* ftw_remove_resident_streams, ftw_remove_invalid_streams; an empty list is a
\* failure unless the scan has been stopped.
Kept(list) ==
    FlattenSeq([i \in 1 .. Len(list) |->
        IF list[i].fragments > 0 /\ list[i].path # NoPath THEN <<list[i]>> ELSE <<>>])

RemoveStreams ==
    /\ pc = "remove" /\ pc' = "done"
    /\ filelist' = Kept(filelist)
    /\ result' = IF filelist' = <<>> /\ ~stopped THEN -1 ELSE 0
    /\ UNCHANGED <<table, mft_id, file, path, unread, stopped>>

-----------------------------------------------------------------------------
\* Only what happens before the last record is read makes a difference.
OthersWork ==
    /\ pc \in {"scan", "list", "children"} /\ Others
    /\ UNCHANGED <<mft_id, file, filelist, path, result, unread, stopped, pc>>

Stop ==
    /\ ~stopped /\ pc # "done" /\ stopped' = TRUE
    /\ UNCHANGED <<table, mft_id, file, filelist, path, result, unread, pc>>

Scan == \/ SkipChild \/ ReadBase \/ ReadList \/ ReadChild \/ FinishFile \/ StopScan
        \/ BeginPath \/ ToParent \/ EndPath \/ StopPath \/ PathsBuilt
        \/ Validate \/ Filtered \/ RemoveStreams

Done == pc = "done" /\ UNCHANGED vars

Next == Scan \/ ReadFails \/ OthersWork \/ Stop \/ Done

\* The worker thread goes on; nobody has to stop it or to change anything.
Spec == Init /\ [][Next]_vars /\ WF_vars(Scan)

-----------------------------------------------------------------------------
(* Properties.                                                             *)

TypeOK ==
    /\ mft_id \in Records /\ mfi.id \in Records \cup {None}
    /\ at \in 1 .. Len(filelist) + 1 /\ parent \in Records
    /\ touched \cup unread \subseteq Records /\ result \in {-1, 0}
    /\ Len(child) <= MaxPath

\* find_filelist_entry gives up at the first file which has been scanned
\* before, and the directories of a path are found by binary search: both need
\* a list in ascending order, with each stream of a file once.
Ascending ==
    \A i, j \in DOMAIN filelist : i < j =>
        /\ filelist[i].id <= filelist[j].id
        /\ filelist[i].id = filelist[j].id => filelist[i].stream # filelist[j].stream

\* Nothing has happened to the file while it was scanned.
Settled(r) == r \notin touched \cup unread /\ ChildrenOf(r) \cap (touched \cup unread) = {}

\* Two attributes of a file with clusters get the same name, as the bitmap of an
\* index and its nodes do: the list shows them as one stream.
Merged(r, key) ==
    \E other \in Keys \ {key} : StreamName(other) = StreamName(key) /\ Pieces(r, other) # <<>>

\* "Scans the entire MFT and adds all files found to the list of files"
\* (ftw_ntfs.c 1588): whatever others do meanwhile, each stream of a file
\* nobody touches is in the list once, with exactly its clusters, unless its
\* attribute is merged with another one.
ListExact ==
    /\ TypeOK /\ Ascending
    /\ pc = "done" /\ ~stopped /\ result = 0 =>
         \A r \in Records : IsBase(r) /\ Settled(r) =>
            \A key \in Keys :
                LET found == {i \in DOMAIN filelist :
                                filelist[i].id = r /\ filelist[i].stream = StreamName(key)}
                IN \/ IF Pieces(r, key) = <<>> THEN found = {}
                      ELSE \E i \in found : found = {i} /\ filelist[i].map = Pieces(r, key)
                   \/ Merged(r, key)

\* The path of a file, outermost directory first.
PathTo(r) ==
    LET up[n \in 0 .. LastRecord] ==
            IF n = 0 THEN <<r>>
            ELSE IF ParentOf(Head(up[n - 1])) = Root THEN up[n - 1]
            ELSE <<ParentOf(Head(up[n - 1]))>> \o up[n - 1]
    IN up[LastRecord]

\* A DOS name is taken for want of a better one only.
ProperNames(r) ==
    LET names(type) == {mft[r].attrs[i].name : i \in {j \in NamesOf(r) : mft[r].attrs[j].type = type}}
        proper == names("win32") \cup names("posix")
    IN IF proper = {} THEN names("dos") ELSE proper

\* Files with names in several directories get the name of one and the
\* directory of the other.  What lies in itself is taken for a part of the root.
Linked(r) ==
    \/ \E i, j \in NamesOf(r) : mft[r].attrs[i].parent # mft[r].attrs[j].parent
    \/ r # Root /\ ParentOf(r) = r

\* A named stream which is met after the index of its directory, as one in a
\* child record is, lies before it in the list and is taken for it.
Shadowed(r) ==
    LET attrs == mft[r].attrs
        shadows(key) == StreamName(key) \notin ByDefault \cup {""}
    IN \/ \E i \in DOMAIN mft[r].list : shadows(mft[r].list[i].key)
       \/ \E i, j \in DOMAIN attrs :
            /\ i < j /\ attrs[i].kind = "data" /\ StreamName(Key(attrs[i])) = ""
            /\ attrs[j].kind = "data" /\ shadows(Key(attrs[j]))

\* Whatever others do and whenever the job is stopped: a file gets the path it
\* really has, unless it or one of the directories it lies in has been touched.
PathsTrue ==
    pc = "done" => \A i \in DOMAIN filelist :
        LET e == filelist[i]
        IN (/\ IsBase(e.id) /\ Len(PathTo(e.id)) <= MaxPath
            /\ \A r \in Ancestors(e.id) : Settled(r) /\ ~Linked(r)
            /\ \A r \in Ancestors(e.id) \ {e.id} : ~Shadowed(r))
           => /\ Len(e.path) = Len(PathTo(e.id))
              /\ \A n \in DOMAIN e.path :
                    LET r == PathTo(e.id)[n]
                    IN e.path[n] \in ProperNames(r) \X {IF r = e.id THEN e.stream ELSE ""}

\* The directories have been read with a cycle among their parents.
Cyclic ==
    /\ pc = "walk"
    /\ \E S \in SUBSET {filelist[i].id : i \in DOMAIN filelist} :
        /\ parent \in S /\ Cardinality(S) > 1 /\ Root \notin S
        /\ \A r \in S : Directory(r) # {} /\ filelist[Min(Directory(r))].parent \in S

\* "The scanner should catch all errors and never hang/crash" (ftw_ntfs.c 33-34):
\* it ends, unless directories which have been moved meanwhile look like lying
\* in each other.
ScanEnds == <>(pc = "done" \/ Cyclic)
=============================================================================
