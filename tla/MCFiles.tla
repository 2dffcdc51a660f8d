------------------------------ MODULE MCFiles -------------------------------
EXTENDS Files

\* Inodes of each type; 1 and 2 are regular files that differ in content only.
Inode(t, data) == [type |-> t, mode |-> 5, owner |-> 0, mtime |-> 1, data |-> data, xattrs |-> {}]
Dir == Inode("dir", <<>>)
FileInodes ==
    {Inode("reg", <<>>), Inode("reg", <<"x">>), Inode("reg", <<"y">>), [Inode("reg", <<"x">>) EXCEPT !.xattrs = {"cap"}],
     Inode("lnk", <<"to">>), Inode("chr", <<"1:3">>), Inode("fifo", <<>>)}

\* A directory with one name in it and two beside it; inodes 2 to 4 behind the three.
MCShadow == <<3>>
Leaves == {<<1, 1>>, <<2>>, <<3>>}
Tree(at, inodes) ==
    [number |-> [n \in {<<>>, <<1>>} \cup Leaves |-> IF n = <<>> THEN 0 ELSE IF n = <<1>> THEN 1 ELSE at[n]],
     inode |-> [k \in 0..4 |-> IF k < 2 THEN Dir ELSE inodes[k]]]
PlainInodes == [k \in 2..4 |-> Inode("reg", <<"x">>)]
MCTrees ==
    {Tree(at, PlainInodes) : at \in [Leaves -> 2..4]}
    \cup {Tree([n \in Leaves |-> IF n = <<2>> THEN 2 ELSE 3], [PlainInodes EXCEPT ![2] = f]) : f \in FileInodes}
    \cup {[number |-> [n \in {<<>>, <<2>>} |-> IF n = <<>> THEN 0 ELSE 2], inode |-> [k \in 0..4 |-> IF k < 2 THEN Dir ELSE PlainInodes[k]]]}
=============================================================================
