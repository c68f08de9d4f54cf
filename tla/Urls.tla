-------------------------------- MODULE Urls --------------------------------
(***************************************************************************)
(* The urls of modules: a relative one is resolved against the url of the  *)
(* module that imports it, by its segments alone.  Some are of the runtime *)
(* itself: their functions are there without a text to compile.            *)
(***************************************************************************)
EXTENDS Integers, Sequences, SequencesExt

Segments(url) ==
  FoldLeft(LAMBDA s, ch : IF ch = "/" THEN Append(s, "") ELSE Append(Front(s), Last(s) \o ch),
           <<"">>, [k \in 1..Len(url) |-> SubSeq(url, k, k)])
IsRelative(url) == Len(Segments(url)) > 1 /\ Head(Segments(url)) \in {".", ".."}
(* normalise_segments: the segments left, and how many levels above where it starts *)
Normal(segments) ==
  FoldLeft(LAMBDA s, g :
      CASE g \in {"", "."} -> s
        [] g = ".." /\ s.down = <<>> -> [s EXCEPT !.up = @ + 1]
        [] g = ".." /\ s.down # <<>> -> [s EXCEPT !.down = Front(@)]
        [] OTHER -> [s EXCEPT !.down = Append(@, g)],
    [up |-> 0, down |-> <<>>], segments)
(* canonicalise_url *)
Canonical(importer, url) ==
  LET n == Normal(Front(Segments(importer)) \o Segments(url))
      start == IF n.up = 0 THEN <<"./">> ELSE [j \in 1..n.up |-> "../"]
      path == FoldLeft(LAMBDA t, g : IF t = "" THEN g ELSE t \o "/" \o g, "", n.down)
  IN IF ~IsRelative(url) THEN url ELSE FoldRight(LAMBDA s, t : s \o t, start, path)

(* What the modules of the runtime that are imported here let a program call *)
Natives == [u \in {"rt/apply.wat", "rt/opaque.wat"} |->
              IF u = "rt/opaque.wat" THEN {"opaque"} ELSE {"suspend", "get_ctx", "set_ctx"}]
=============================================================================
