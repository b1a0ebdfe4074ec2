----------------------------- MODULE MCMatchers -----------------------------
(***************************************************************************)
(* Names of two letters, some with a slash, addresses of three numbers,    *)
(* one of which begins with another, and patterns that overlap in all      *)
(* ways.                                                                   *)
(***************************************************************************)
EXTENDS Integers, Sequences, Matchers

MCStrings(n) == UNION {[1..k -> {"a", "b", "."}] : k \in 1..n}

\* Names have no empty labels.
MCNames == {s \in MCStrings(5) : /\ s[1] # "." /\ s[Len(s)] # "."
                                 /\ \A k \in 1..(Len(s) - 1) : s[k] # "." \/ s[k + 1] # "."}
           \cup {<<"a", "/", "b">>, <<"b", "a", "/", "b">>, <<"a", ".", "a", "/", "b">>}

MCPatterns == {<<"*", ".", "b">>, <<"a", ".", "b">>, <<"=", "a", ".", "b">>, <<"a", "*">>, <<"a", ".", "*">>,
               <<"*", "b", ".", "*">>, <<"a", "*", "b">>, <<"*", "b">>, <<".", "b">>, <<"=", "a", "?">>,
               <<"*", "a", "?", "b">>, <<"*">>, <<"*", "*">>, <<"=">>}

MCNumbers == {<<"1">>, <<"1", "2">>}

MCAddresses == {a \o <<s>> \o b \o <<s>> \o c : a, b, c \in MCNumbers, s \in {".", ":"}}

MCLines == {<<"1", ".", "*">>, <<"1", "*">>, <<"1", ".", "1", ".", "*">>, <<"1", "2", ".", "1", "*">>,
            <<"1", "2", ":", "*">>, <<"1", ".", "1", ".", "1", ".">>, <<"1", ".", "*", ".", "1">>, <<"*">>, <<".", "*">>,
            <<"1", "2", ".", "1", ".", "1", "2">>, <<"1", ".", "1", ".", "1", ".", "*">>}
=============================================================================
