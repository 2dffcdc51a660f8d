----------------------------- MODULE MCGeometry -----------------------------
EXTENDS Geometry
K == 1024
M == 1024 * 1024

\* Offsets at the front table's last sector, around the seed's megabyte, off a sector and
\* off a block, and heads whose end is at the offset arithmetic's.
MCHeads ==
    {[method |-> "rkbin", idb |-> a, itb |-> b, root |-> c, kpart |-> 0, ksize |-> 0, slots |-> 1] :
        a \in {17408, 17407, 16896, 32 * K}, b \in {32 * K, 8 * M, 15 * M - 512, 15 * M},
        c \in {M, 16 * M, 16 * M - 512, 700 * M}}
    \cup
    {[method |-> "depthcharge", idb |-> 0, itb |-> 0, root |-> 0, kpart |-> a, ksize |-> b, slots |-> n] :
        a \in {M + 16896, M + 17408, M + 20 * K, 12 * M}, b \in {0, 512, 4 * K, 16 * M, 200 * M}, n \in {1, 2, 4}}

MCSizes ==
    {[kind |-> "fixed", n |-> n] : n \in {16 * M, 144 * M + 16896, 144 * M + 16384, 200 * M + 1, 256 * M, 700 * M}}
    \cup {[kind |-> "fit", n |-> n] : n \in {0, 64 * M, 64 * M + 1}}
    \cup {[kind |-> "share", n |-> n] : n \in {9000, 9001}}
    \cup {[kind |-> "none", n |-> 0]}

MCLengths == {0, 512, 8 * M - 512, 7 * M, 7 * M + 1, 16 * M}
MCFormatted == {4 * K, 100 * M, 600 * M}
=============================================================================
