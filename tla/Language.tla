------------------------------ MODULE Language ------------------------------
(***************************************************************************)
(* Which language a text is in: a theme's translations (internal/i18n) and *)
(* the language a browser asks for (acceptLanguage in                      *)
(* internal/httpapi/board.go).                                             *)
(*                                                                         *)
(* A language is a sequence of letters.  An entry of an Accept-Language    *)
(* header is a primary subtag, what follows it after a hyphen, and whether *)
(* blanks and a weight stand around it; the header is cut at its commas.   *)
(***************************************************************************)
EXTENDS Naturals, Sequences

CONSTANTS
    Malformed,    \* a file that is no JSON object of texts
    RawKey        \* the key itself is shown

en == <<"e", "n">>
Capitals == [c \in {"D", "E", "F"} |-> CASE c = "D" -> "d" [] c = "E" -> "e" [] c = "F" -> "f"]

\* i18n.Load on a theme's translation files, each a set of keys: one malformed
\* file, or none at all, fails the theme.
Loads(files) == DOMAIN files # {} /\ \A lang \in DOMAIN files : files[lang] # Malformed

\* MUTANT of T: a language the theme has is used for all texts.
TNoFallback(files, lang, key) ==
    IF lang \in DOMAIN files THEN (IF key \in files[lang] THEN lang ELSE RawKey)
    ELSE IF en \in DOMAIN files /\ key \in files[en] THEN en ELSE RawKey

\* Bundle.T: the language a text is found in.
T(files, lang, key) ==
    LET with == {l \in {lang, en} \cap DOMAIN files : key \in files[l]} IN
    IF lang \in with THEN lang ELSE IF en \in with THEN en ELSE RawKey

ToLower(s) == [i \in DOMAIN s |-> IF s[i] \in DOMAIN Capitals THEN Capitals[s[i]] ELSE s[i]]

\* The characters of an entry, up to its weight, without the blanks around it.
Tag(entry) == entry.primary \o (IF entry.rest = <<>> THEN <<>> ELSE <<"-">> \o entry.rest)

\* MUTANT of acceptLanguage: the tag is not trimmed.
acceptUntrimmed(header) ==
    IF header = <<>> THEN en
    ELSE LET tag == (IF header[1].padded THEN <<" ">> ELSE <<>>) \o Tag(header[1]) IN
         IF Len(tag) >= 2 THEN ToLower(SubSeq(tag, 1, 2)) ELSE en

\* The first two characters of the first tag.
acceptLanguage(header) ==
    IF header = <<>> \/ Len(Tag(header[1])) < 2 THEN en
    ELSE ToLower(SubSeq(Tag(header[1]), 1, 2))
=============================================================================
