---------------------------- MODULE MCResponse ----------------------------
(***************************************************************************)
(* Instances of Response for TLC: English, German, Finnish, Filipino.      *)
(***************************************************************************)
EXTENDS Response

de  == <<"d", "e">>
fi  == <<"f", "i">>
fil == <<"f", "i", "l">>

\* Up to two of these languages, with both texts, one of them or none, or broken.
TwoLanguages ==
    UNION {[langs -> (SUBSET Keys) \cup {Malformed}] :
              langs \in {{}, {de}, {en, de}, {en, fi}, {fi, fil}}}

Entry(primary, rest, padded) == [primary |-> primary, rest |-> rest, padded |-> padded]

Entries ==
    {Entry(p, r, b) : p \in {<<>>, <<"*">>, de, <<"D", "E">>, <<"F", "i">>, fil},
                      r \in {<<>>, <<"A", "T">>}, b \in BOOLEAN}

\* No tag, one, or a German one after it.
OneOrTwo ==
    {<<>>} \cup {<<e>> : e \in Entries}
      \cup {<<e, Entry(de, <<>>, TRUE)>> : e \in {f \in Entries : f.rest = <<>>}}

BoardTags == {de, fil, <<"d", "e", "-", "A", "T">>}
=============================================================================
