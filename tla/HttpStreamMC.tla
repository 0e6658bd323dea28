---------------------------- MODULE HttpStreamMC ----------------------------
EXTENDS HttpStream, TLC

CONSTANTS Start, Moved

(* A redirection that leads to another, which has no Location.             *)
Redirects == (Start :> Moved) @@ (Moved :> NoUrl)

(* Metadata of two bytes, of five, more than a sector, and of none.        *)
Icy ==
  <<Audio(0), Audio(1), <<"length", 2>>, <<"meta", 0>>, <<"meta", 1>>,
    Audio(2), Audio(3), <<"length", 5>>, <<"meta", 0>>, <<"meta", 1>>, <<"meta", 2>>,
    <<"meta", 3>>, <<"meta", 4>>, Audio(4), Audio(5), <<"length", 0>>, Audio(6)>>

ASSUME IcyBlocks(<<0, 5, 13, 16>>)
==============================================================================
