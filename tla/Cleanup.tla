-------------------------------- MODULE Cleanup --------------------------------
(***************************************************************************)
(* Blocks of files and how the optimizer gets them out of the way          *)
(* (find_first_block of dll/udefrag/search.c, cleanup_space of             *)
(* dll/udefrag/optimize.c): a block goes to the end of the last free       *)
(* region, in pieces if it has to.                                         *)
(***************************************************************************)
EXTENDS Volume

VARIABLES
    fixed,     \* files whose first clusters stay: the MFT, directories on FAT
    excluded,  \* UD_FILE_CURRENTLY_EXCLUDED
    cleaning   \* of cleanup_space: what is left of the block to be moved

Idle == [file |-> None, vcn |-> 0, left |-> 0, lcn |-> 0, last |-> 0]

CanMove(f) == f \notin failed \cup stuck \cup excluded

\* Blocks are contiguous in the file and on the disk.
IsBlock(m, v) == v \in DOMAIN m /\ (v - 1 \in DOMAIN m => m[v] # m[v - 1] + 1)
BlockLength(m, v) ==
    Cardinality({u \in DOMAIN m : u >= v /\ \A w \in v + 1 .. u : w \in DOMAIN m /\ ~IsBlock(m, w)})
BlocksOf(f) ==
    {[file |-> f, vcn |-> v, lcn |-> map[f][v], length |-> BlockLength(map[f], v)] :
        v \in {u \in DOMAIN map[f] : IsBlock(map[f], u)}}

\* find_first_block: the first of the blocks given, at min_lcn or behind it.
FirstBlock(blocks, min_lcn) ==
    LET beyond == {b \in blocks : b.lcn >= min_lcn}
    IN IF stopped THEN {} ELSE {b \in beyond : \A c \in beyond : b.lcn <= c.lcn}

\* It tries to open the file; if that fails the block and all others of the
\* file are passed over from then on (is_file_locked).
FindLocked(blocks, min_lcn) ==
    /\ \E b \in FirstBlock(blocks, min_lcn) : stuck' = stuck \cup {b.file}
    /\ UNCHANGED <<disk, failed, moved>>

\* The space up to the end of the block is reserved.
Begin(block, n) ==
    cleaning' = [file |-> block.file, vcn |-> block.vcn, left |-> n,
                 lcn |-> block.lcn, last |-> block.lcn + block.length - 1]

\* The last free region outside of the reserved space, or none.
LastRegion(reserved_start, reserved_end) ==
    LET outside == {r \in Regions :
                      r.lcn > reserved_end \/ r.lcn + r.length <= reserved_start}
    IN {r \in outside : \A q \in outside : q.lcn <= r.lcn}

\* The result -1: there is nowhere to go.
NoSpace(reserved_start) == LastRegion(reserved_start, cleaning.last) = {}

\* The next piece of the block and its target, the end of the region.
Pieces(reserved_start) ==
    {LET n == Min({r.length, cleaning.left}) IN [lcn |-> r.lcn + r.length - n, length |-> n] :
        r \in LastRegion(reserved_start, cleaning.last)}

\* The piece gets to its place.
PieceMoved(reserved_start) ==
    \E p \in Pieces(reserved_start) :
        /\ Success(cleaning.file, cleaning.vcn, p.length, p.lcn)
        /\ cleaning' = [cleaning EXCEPT !.vcn = @ + p.length, !.left = @ - p.length]

\* The result -2.
PieceFails(reserved_start) ==
    /\ \E p \in Pieces(reserved_start) :
           MoveFails(cleaning.file, cleaning.vcn, p.length, p.lcn)
    /\ cleaning' = Idle
=============================================================================
