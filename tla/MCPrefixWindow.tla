--------------------------- MODULE MCPrefixWindow ---------------------------
(* Instances of PrefixWindow: a handful of code points that cover every    *)
(* class of the tables, and batches of short texts made of them.           *)
EXTENDS PrefixWindow

MCWidth ==
  [c \in {"a", "b", " ", ",", "^", "[", "]"} |-> 1] @@
  [c \in {"U", "e", "m", "g", "J", "s", "n"} |-> 2]
MCLower == "U" :> <<"a">>
MCNfd == ("e" :> <<"a", "m">>) @@ ("g" :> <<",">>)
MCAdded == <<"[", "a", "]">> :> "mask"
MCVocab == {<<"a">>, <<",">>, <<"J">>}
MCContVocab == {<<"b">>}

(* Texts are made of whole code points, or of a stray continuation byte. *)
Chunk(c) == IF c = "~" THEN <<"~">> ELSE IF MCWidth[c] = 1 THEN <<c>> ELSE <<c, "~">>
Made(chars, n) ==
  UNION {{FlattenSeq([k \in 1 .. m |-> Chunk(f[k])]) : f \in [1 .. m -> chars]} : m \in 0 .. n}

MCBatches ==
  {<<t>> : t \in Made({"a", "b", " ", ",", "^", "U", "e", "g", "J", "s", "~"}, 3)}
  \cup {<<t>> : t \in Made({"a", " ", "[", "]"}, 6)}
  \cup {<<t, u>> : t, u \in Made({"a", " ", "J", "~"}, 3)}

(* Texts with U+0085, a control that is white space, and texts that open   *)
(* with nothing to embed.                                                  *)
MCNelBatches == {<<t>> : t \in Made({"a", "b", " ", "n"}, 4)}
MCBlankBatches == {<<t>> : t \in Made({"a", "b", " "}, 5)}
=============================================================================
