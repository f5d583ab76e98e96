------------------------------ MODULE MCNtfsScan ------------------------------
(***************************************************************************)
(* Small volumes for NtfsScan.  Record 0 is $Mft, record 1 the root.       *)
(***************************************************************************)
EXTENDS NtfsScan

Own(r, dir) == <<Name(dir, <<r, 1>>, "win32")>>
Clusters(r, key) == Data(key, 0, <<r, 1>> \o key)

\* A file, and directories with an index which lies in the record, outside of it,
\* and outside of it with its bitmap.
File(r, dir) == Base(1, Own(r, dir) \o <<Clusters(r, Contents)>>)
Small(r, dir) == Base(1, Own(r, dir) \o <<Data(IndexRoot, 0, Resident)>>)
WithIndex(r, dir, rest) ==
    Base(1, Own(r, dir) \o <<Data(IndexRoot, 0, Resident), Clusters(r, Index)>> \o rest)
Indexed(r, dir) == WithIndex(r, dir, <<Data(IndexBitmap, 0, Resident)>>)
Huge(r, dir) == WithIndex(r, dir, <<Clusters(r, IndexBitmap)>>)

\* A file or directory with a part in another record.
Large(base, c, key, resident) ==
    [base EXCEPT !.list = <<[id |-> c, key |-> key]>>, !.resident = resident]
Part(r, c, key) == Child(1, r, <<Data(key, IF key \in {Index, Contents} THEN 1 ELSE 0, <<c, 1>>)>>)

\* The names of a file: DOS and Win32, or in two directories.
Alias(r, dir) ==
    Base(1, <<Name(dir, <<r, 0>>, "dos"), Name(dir, <<r, 1>>, "win32"), Clusters(r, Contents)>>)
Link(r, p, q) ==
    Base(1, <<Name(p, <<r, 1>>, "posix"), Name(q, <<r, 0>>, "posix"), Clusters(r, Contents)>>)

System ==
    <<Base(1, Own(0, 1) \o <<Clusters(0, Contents), Clusters(0, Bitmap)>>), Small(1, 1)>>
Table(rest) == [r \in Records |-> (System \o rest)[r + 1]]

Volumes ==
    {Table(<<Small(2, 1), Indexed(3, 2), File(4, 3), Free(2)>>),
     Table(<<Indexed(2, 4), Huge(3, 2), Small(4, 1), File(5, 3)>>),
     Table(<<Small(2, 3), Small(3, 1), Large(File(4, 2), 5, Contents, TRUE), Part(4, 5, Contents)>>),
     Table(<<Large(File(2, 1), 3, Contents, FALSE), Part(2, 3, Contents), Small(4, 1), File(5, 4)>>),
     Table(<<Part(3, 2, NamedStream), Large(File(3, 4), 2, NamedStream, TRUE), Small(4, 5), Small(5, 1)>>),
     Table(<<Large(Indexed(2, 1), 4, NamedStream, FALSE), File(3, 2), Part(2, 4, NamedStream), File(5, 2)>>),
     Table(<<Part(5, 2, Index), Alias(3, 5), Link(4, 1, 5), Large(Indexed(5, 1), 2, Index, FALSE)>>),
     Table(<<Small(2, 2), File(3, 4), Small(4, 2), Link(5, 4, 2)>>),
     Table(<<File(2, 3), Large(WithIndex(3, 1, <<>>), 4, IndexBitmap, TRUE),
             Part(3, 4, IndexBitmap), Free(1)>>)}
=============================================================================
