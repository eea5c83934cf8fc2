------------------------- MODULE MCMagicStringDetector -------------------------
(***************************************************************************)
(* MagicStringDetector for TLC.  Both strings begin with the same          *)
(* character, so that the magic string can follow a beginning of itself,   *)
(* or come while the login pattern is half met.                            *)
(***************************************************************************)
EXTENDS MagicStringDetector

MCMagicString == <<"a", "b">>
MCLoginPattern == <<"a", "a">>
===============================================================================
