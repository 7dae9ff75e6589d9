------------------------------ MODULE MCHttpApi ------------------------------
(***************************************************************************)
(* Instances of HttpApi for TLC.                                           *)
(***************************************************************************)
EXTENDS HttpApi

Config(production, internal, failClosed) ==
    [production |-> production, internal |-> internal, failClosed |-> failClosed]

\* The strict and the relaxed end of every setting.
StrictAndRelaxed == {Config(TRUE, TRUE, TRUE), Config(FALSE, FALSE, FALSE)}

\* Empty, as large as allowed and one block larger; an image, an archive and a
\* text, each claimed to be itself, something else or nothing.
SmallFiles == [size : {0, 1, 2, 3}, content : {PNG, ZIP, Text}, claimed : {PNG, Text, Unset},
               ext : {".png", ".docx"}]
=============================================================================
