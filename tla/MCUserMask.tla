----------------------------- MODULE MCUserMask -----------------------------
EXTENDS UserMask

Letter == {"a", "b"}
MCMask == {<<"a">>, <<"b", "a">>, <<"*">>, <<"a", "*">>, <<"?", "b">>, <<"*", "b">>}
MCUserHost == UNION {[1 .. n -> Letter] : n \in 1 .. 3}
=============================================================================
