-------------------------- MODULE MCThemeRegistry --------------------------
(***************************************************************************)
(* Instances of ThemeRegistry for TLC: the embedded theme, two custom ones *)
(* and three static paths.  Both custom themes have a style sheet of their *)
(* own name, the second shares "shared" with the embedded theme and has a  *)
(* plain file where the first has a directory.                             *)
(***************************************************************************)
EXTENDS ThemeRegistry

CONSTANTS plain, frost, slate, shared, frostCSS, slateCSS

ThemeFiles == [n \in {plain, frost, slate} |->
    CASE n = plain -> {shared}
      [] n = frost -> {frostCSS}
      [] n = slate -> {shared, slateCSS}]

ThemeBlocks == [n \in {plain, frost, slate} |-> IF n = slate THEN {frostCSS} ELSE {}]
=============================================================================
