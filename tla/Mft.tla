---------------------------------- MODULE Mft ----------------------------------
(***************************************************************************)
(* The master file table of a mounted NTFS volume and what the system does *)
(* to it while it is scanned.  This is not code of the repository; what is *)
(* kept here is what the scanner reads (dll/zenwinx/ntfs.h, ftw_ntfs.c).   *)
(***************************************************************************)
EXTENDS Integers, Sequences, FiniteSets, FiniteSetsExt, SequencesExt

CONSTANTS
    LastRecord,  \* the number of the last file record
    Root,        \* FILE_root
    MaxEvents,   \* how often others change the table or a read fails
    Tables       \* what the scan may begin with

ASSUME MftAssumption ==
    LastRecord \in Nat /\ Root \in 0 .. LastRecord /\ MaxEvents \in Nat

Records == 0 .. LastRecord
None == -1
Resident == <<>>    \* the place of a stream which lies in its record

VARIABLES
    mft,       \* the file records
    touched,   \* those changed since the scan has begun (history)
    events     \* the number of changes and of failed reads so far

table == <<mft, touched, events>>

-----------------------------------------------------------------------------
(* A record is free, the base record of a file or directory, or it holds   *)
(* attributes which a base record has no room for; those are found by the  *)
(* attribute list of the base record, which is a part of it or lies        *)
(* outside of the table.                                                   *)

Name(parent, name, type) ==
    [kind |-> "name", parent |-> parent, name |-> name, type |-> type]

\* A piece of what an attribute holds.  The attributes of a file are told apart
\* by their types and names: its data, a named stream, the root of the index of
\* a directory with its nodes and their bitmap, and the bitmap of $Mft.
Data(key, vcn, lcn) ==
    [kind |-> "data", type |-> key[1], name |-> key[2], vcn |-> vcn, lcn |-> lcn]

Contents == <<"data", "">>
NamedStream == <<"data", "named">>
IndexRoot == <<"root", "$I30">>
Index == <<"index", "$I30">>
IndexBitmap == <<"bitmap", "$I30">>
Bitmap == <<"bitmap", "">>
Keys == {Contents, NamedStream, IndexRoot, Index, IndexBitmap, Bitmap}

Key(a) == IF a.kind = "name" THEN <<"name">> ELSE <<a.type, a.name>>

Record(used, seq, base, attrs) ==
    [used |-> used, seq |-> seq, base |-> base, attrs |-> attrs, list |-> <<>>,
     resident |-> TRUE]
Free(seq) == Record(FALSE, seq, None, <<>>)
Base(seq, attrs) == Record(TRUE, seq, None, attrs)
Child(seq, base, attrs) == Record(TRUE, seq, base, attrs)

IsBase(r) == mft[r].used /\ mft[r].base = None
IsDirectory(r) == IsBase(r) /\ \E i \in DOMAIN mft[r].attrs : Key(mft[r].attrs[i]) = IndexRoot
ChildrenOf(r) == {c \in Records : mft[c].used /\ mft[c].base = r}

\* The positions of the names of a file, and the directory its first name lies in.
NamesIn(attrs) == {i \in DOMAIN attrs : attrs[i].kind = "name"}
NamesOf(r) == NamesIn(mft[r].attrs)
ParentOf(r) == mft[r].attrs[Min(NamesOf(r))].parent

\* The directories a file lies in, beginning with the file itself.
Ancestors(r) ==
    LET up[n \in 0 .. LastRecord] ==
            IF n = 0 THEN {r} ELSE up[n - 1] \cup {ParentOf(s) : s \in up[n - 1]}
    IN up[LastRecord]

\* The pieces a file has of some of its attributes: those in its base record,
\* and those which the attribute list names.
PiecesIn(attrs, keys) ==
    FlattenSeq([i \in 1 .. Len(attrs) |->
        LET a == attrs[i]
        IN IF a.kind = "data" /\ Key(a) \in keys /\ a.lcn # Resident
           THEN <<[vcn |-> a.vcn, lcn |-> a.lcn]>> ELSE <<>>])
PiecesOf(t, r, keys) ==
    FlattenSeq([i \in 1 .. Len(t[r].list) + 1 |->
        IF i = 1 THEN PiecesIn(t[r].attrs, keys)
        ELSE LET e == t[r].list[i - 1]
             IN IF e.key \in keys THEN PiecesIn(t[e.id].attrs, {e.key}) ELSE <<>>])
Pieces(r, key) == PiecesOf(mft, r, {key})

-----------------------------------------------------------------------------
(* What a table consists of, and when an attribute list is right: it names *)
(* records of the file, each with one attribute of that key, and what an   *)
(* attribute holds does not begin with two pieces of the same place.       *)

IsSequence(s) == Len(s) \in Nat /\ s = [i \in 1 .. Len(s) |-> s[i]]
IsAttribute(a) ==
    \/ a.kind = "name" /\ a = Name(a.parent, a.name, a.type) /\ a.parent \in Records
    \/ a.kind = "data" /\ Key(a) \in Keys /\ a = Data(Key(a), a.vcn, a.lcn)
IsRecord(m) ==
    /\ m = [used |-> m.used, seq |-> m.seq, base |-> m.base, attrs |-> m.attrs,
            list |-> m.list, resident |-> m.resident]
    /\ m.used \in BOOLEAN /\ m.base \in Records \cup {None} /\ m.resident \in BOOLEAN
    /\ IsSequence(m.attrs) /\ \A i \in DOMAIN m.attrs : IsAttribute(m.attrs[i])
    /\ IsSequence(m.list)
    /\ \A i \in DOMAIN m.list :
        m.list[i] = [id |-> m.list[i].id, key |-> m.list[i].key] /\ m.list[i].id \in Records
Right(t, r) ==
    /\ \A i \in DOMAIN t[r].list :
        LET e == t[r].list[i]
            attrs == t[e.id].attrs
        IN /\ t[e.id].used /\ t[e.id].base = r
           /\ e.key \in Keys
           /\ \A j, k \in DOMAIN attrs : Key(attrs[j]) = e.key /\ Key(attrs[k]) = e.key => j = k
    /\ \A key \in Keys :
        LET all == PiecesOf(t, r, {key}) IN Len(all) > 1 => all[1].vcn # all[2].vcn

ASSUME TablesAssumption ==
    \A t \in Tables :
        /\ t = [r \in Records |-> t[r]] /\ \A r \in Records : IsRecord(t[r])
        /\ t[0].used /\ t[0].base = None
        /\ \A r \in Records : t[r].used /\ t[r].base = None => Right(t, r)

-----------------------------------------------------------------------------
(* The changes.  A record which is used again gets a new sequence number.  *)

Change(S) ==
    /\ events < MaxEvents /\ events' = events + 1
    /\ touched' = touched \cup S

\* A file or directory is moved to another directory.
MoveFile(r, parent) ==
    /\ IsBase(r) /\ r > Root /\ Cardinality(NamesOf(r)) = 1 /\ IsDirectory(parent)
    /\ r \notin Ancestors(parent) /\ parent # ParentOf(r)
    /\ Change({r})
    /\ mft' = [mft EXCEPT ![r].attrs =
                [i \in DOMAIN @ |->
                    IF @[i].kind = "name" THEN [@[i] EXCEPT !.parent = parent] ELSE @[i]]]

CreateFile(r, parent) ==
    /\ ~mft[r].used /\ IsDirectory(parent)
    /\ Change({r})
    /\ \E a \in {Data(Contents, 0, <<r, mft[r].seq>>), Data(IndexRoot, 0, Resident)} :
        mft' = [mft EXCEPT ![r] = Base(@.seq, <<Name(parent, <<r, @.seq>>, "win32"), a>>)]

\* Where the clusters of a file or of an index which grows are found.
Main(r) == IF IsDirectory(r) THEN Index ELSE Contents

\* What lies in no use any more is free at once.
DeleteFile(r) ==
    /\ IsBase(r) /\ r > Root
    /\ \A s \in Records : IsBase(s) => r \notin Ancestors(s) \ {s}
    /\ Change({r} \cup ChildrenOf(r))
    /\ mft' = [s \in Records |->
                IF s = r \/ s \in ChildrenOf(r) THEN Free(mft[s].seq + 1) ELSE mft[s]]

\* A file grows and needs another record.
AddChild(r, c) ==
    /\ IsBase(r) /\ r > Root /\ ~mft[c].used
    /\ Change({r, c})
    /\ mft' = [mft EXCEPT
                ![c] = Child(@.seq, r, <<Data(Main(r), Cardinality(ChildrenOf(r)) + 1, <<c, @.seq>>)>>),
                ![r].list = Append(@, [id |-> c, key |-> Main(r)])]

\* The first piece of a file has no room in its base record any more.
PushOut(r, c) ==
    /\ IsBase(r) /\ r > Root /\ ~mft[c].used
    /\ \E i \in DOMAIN mft[r].attrs :
        /\ Key(mft[r].attrs[i]) = Main(r) /\ mft[r].attrs[i].lcn # Resident
        /\ Change({r, c})
        /\ mft' = [mft EXCEPT
                    ![c] = Child(@.seq, r, <<mft[r].attrs[i]>>),
                    ![r].attrs = RemoveAt(@, i),
                    ![r].list = <<[id |-> c, key |-> Main(r)]>> \o @]

\* A file shrinks.
DropChildren(r) ==
    /\ IsBase(r) /\ ChildrenOf(r) # {}
    /\ Change({r} \cup ChildrenOf(r))
    /\ mft' = [s \in Records |->
                IF s \in ChildrenOf(r) THEN Free(mft[s].seq + 1)
                ELSE IF s = r THEN [mft[r] EXCEPT !.list = <<>>] ELSE mft[s]]

Others ==
    \E r, s \in Records :
        \/ MoveFile(r, s) \/ CreateFile(r, s) \/ AddChild(r, s) \/ PushOut(r, s)
        \/ r = s /\ (DeleteFile(r) \/ DropChildren(r))
=============================================================================
