------------------------------ MODULE MCPress -------------------------------
EXTENDS Press

\* The first four bytes of a partition GUID, as the table holds them.
MCGuids == {<<18, 52, 86, 120>>}

\* The orders TLC asks: every addition alone, and pairs that meet in one place.
MCOrders ==
    LET site == AddedFile(<<"etc", "site">>, "template", "none")
        stray == AddedFile(<<"etc", "site">>, "copy", "built")
        nested == {AddedFile(<<"srv", "a">>, "copy", "none"), AddedFile(<<"srv", "a", "b">>, "symlink", "built")}
        alone == {{AddedFile(d, "copy", "none")} : d \in Dests}
                   \cup {{AddedFile(<<"etc", "site">>, c, "none")} : c \in {"node", "misspelt", "symlink"}}
        asked == {{}, {site}, {stray}, {AddedFile(FSTAB, "template", "none")}, {site, stray}, nested} \cup alone
        named == {<<p>> : p \in Places \ {"card two"}}
                   \cup {<<"card one", "card two">>, <<"rootfs", "card one">>, <<"card one", "card one">>, <<"card one", "boot">>}
        Order(l, os, k, a, f, e) ==
            [layout |-> l, outs |-> os, keys |-> k, adds |-> a, fresh |-> f, embed |-> e] IN
    {Order(l, os, k, {}, FALSE, FALSE) : l \in {"combined", "split", "bootloader"}, os \in named, k \in BOOLEAN}
    \cup {Order(l, os, FALSE, {}, TRUE, FALSE) : l \in {"combined", "split", "bootloader"}, os \in named}
    \cup {Order(l, <<"card one", "card two">>, k, {site}, f, e) :
              l \in {"split", "bootloader"}, k \in BOOLEAN, f \in BOOLEAN, e \in BOOLEAN}
    \cup {Order("combined", <<"card one">>, FALSE, a, f, e) : a \in asked, f \in BOOLEAN, e \in BOOLEAN}
=============================================================================
