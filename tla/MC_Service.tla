----------------------------- MODULE MC_Service -----------------------------
(* A small process, and every short text of a configuration file. *)
EXTENDS Service, Json5

(* The panel changes a node of the first of the machines started first,    *)
(* and asks the first one of the first reload to be pulled.                *)
FirstChanging == {<<1, 1>>}
SecondPulled  == {<<2, 1>>}

(* A reload under way has a configuration that is what its file says: the  *)
(* file and its includes reach the parser without their comments and       *)
(* trailing commas, and with everything else; texts in strings, escapes,   *)
(* and comments that end nowhere included.  (A star inside a block comment *)
(* is outside of it: json5.go blanks too little, or overlooks the end.)    *)
CommentsTrimmed == Active # {} => Misread = {}

=============================================================================
