-------------------------------- MODULE Slug --------------------------------
(***************************************************************************)
(* internal/slug/slug.go: Slugify, which makes the readable part of a      *)
(* board's address from the name of the client, and the anchors of a       *)
(* board's tabs from the names of its categories.                          *)
(*                                                                         *)
(* A text is a sequence of characters, of which a few stand for all:       *)
(* letters, a capital, digits, an umlaut in both cases, a dash, and a      *)
(* character that a URL cannot have.                                       *)
(***************************************************************************)
EXTENDS Naturals, Sequences, SequencesExt

CONSTANT maxSlugifiedLen

ASSUME LengthAssumption == maxSlugifiedLen \in Nat \ {0}

Digits == <<"1", "2", "3", "4", "5", "6", "7", "8", "9">>
Letters == {"a", "e", "0"} \cup ToSet(Digits)
umlaut == "ä"
Umlaut == "Ä"
Characters == Letters \cup {"A", umlaut, Umlaut, "-", "!"}

\* The word an empty result is replaced with; it is not made of characters.
board == <<"board">>

ToLower(s) ==
    [i \in DOMAIN s |-> IF s[i] = "A" THEN "a" ELSE IF s[i] = Umlaut THEN umlaut ELSE s[i]]

\* umlautReplacer: one character becomes two.
Transliterate(s) ==
    FlattenSeq([i \in DOMAIN s |-> IF s[i] = umlaut THEN <<"a", "e">> ELSE <<s[i]>>])

\* Every other character becomes a dash.
Clean(s) == [i \in DOMAIN s |-> IF s[i] \in Letters THEN s[i] ELSE "-"]

\* collapseDashes: the first of a run of dashes stays.
CollapseDashes(s) ==
    LET kept[i \in 0 .. Len(s)] ==
            IF i = 0 THEN <<>>
            ELSE IF i > 1 /\ s[i] = "-" /\ s[i - 1] = "-" THEN kept[i - 1]
            ELSE Append(kept[i - 1], s[i])
    IN  kept[Len(s)]

\* strings.Trim(s, "-").
TrimDashes(s) ==
    LET letters == {i \in DOMAIN s : s[i] # "-"} IN
    IF letters = {} THEN <<>>
    ELSE SubSeq(s, CHOOSE i \in letters : \A j \in letters : i <= j,
                   CHOOSE i \in letters : \A j \in letters : i >= j)

\* MUTANT of Truncate: a dash at the cut stays.
TruncateOnly(s) == SubSeq(s, 1, IF Len(s) > maxSlugifiedLen THEN maxSlugifiedLen ELSE Len(s))

Truncate(s) ==
    IF Len(s) > maxSlugifiedLen THEN TrimDashes(SubSeq(s, 1, maxSlugifiedLen)) ELSE s

\* MUTANT of Slugify: umlauts are replaced in the text as it was typed.
SlugifyUmlautsFirst(s) ==
    LET slug == Truncate(TrimDashes(CollapseDashes(Clean(ToLower(Transliterate(s)))))) IN
    IF slug = <<>> THEN board ELSE slug

Slugify(s) ==
    LET slug == Truncate(TrimDashes(CollapseDashes(Clean(Transliterate(ToLower(s)))))) IN
    IF slug = <<>> THEN board ELSE slug

base62Alphabet ==
    <<"0">> \o Digits \o
    <<"a", "b", "c", "d", "e", "f", "g", "h", "i", "j", "k", "l", "m",
      "n", "o", "p", "q", "r", "s", "t", "u", "v", "w", "x", "y", "z",
      "A", "B", "C", "D", "E", "F", "G", "H", "I", "J", "K", "L", "M",
      "N", "O", "P", "Q", "R", "S", "T", "U", "V", "W", "X", "Y", "Z">>

suffix(bytes) ==
    [i \in DOMAIN bytes |-> base62Alphabet[1 + (bytes[i] % Len(base62Alphabet))]]

\* Generator.For: a board's address, from six random bytes.
For(clientName, bytes) == Slugify(clientName) \o <<"-">> \o suffix(bytes)
=============================================================================
