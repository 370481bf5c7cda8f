----------------------------- MODULE MCListing ------------------------------
EXTENDS Listing

\* Three levels, with a hidden entry and with a link back to the top.
MCPath == {<<"d">>, <<"d", "x">>, <<"d", "y">>, <<"d", "y", "x">>}

MCHidden == {<<"d", "x">>}

MCLinks == {<<"d", "y", "x">>}

MCTo == [l \in MCLinks |-> <<"d">>]

\* The top or the directory in it, at most, is not open.
MCModes ==
    {[p \in MCPath |-> IF p = q THEN m ELSE "open"] :
        q \in {<<"d">>, <<"d", "y">>}, m \in Mode}
=============================================================================
