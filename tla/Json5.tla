------------------------------- MODULE Json5 -------------------------------
(***************************************************************************)
(* common/json5: what the reader of configuration files does to a text     *)
(* before it is parsed.  prep goes over the bytes once and blanks comments *)
(* and the commas before a closing bracket, in place; here it yields the   *)
(* positions it blanks.                                                    *)
(*                                                                         *)
(* Prep is the code.  Trimmed says what is meant: it first tells which     *)
(* characters are in strings and comments, and then what goes.             *)
(***************************************************************************)
EXTENDS Naturals, Sequences, FiniteSets

CONSTANT MaxLength   \* of the texts (bounds the model)

Newline    == "\n"
ClosingBracket == {"}"}
White      == {" ", Newline}
Characters == {"\"", "\\", "/", "*", ",", "x", Newline} \cup ClosingBracket

(* Characters up to the newline, from i on. *)
RestOfLine(s, i) == {j \in i..Len(s) : \A k \in i..j : s[k] # Newline}

(* A block comment from i on, up to its closing slash.  Where a star ends  *)
(* nothing, the character after it is passed over, and stays.              *)
Block(s) ==
  LET f[i \in Nat] ==
    IF i > Len(s)      THEN [blank |-> {}, at |-> i]
    ELSE IF s[i] # "*" THEN [f[i + 1] EXCEPT !.blank = @ \cup {i}]
    ELSE IF i < Len(s) /\ s[i + 1] = "/"
                       THEN [blank |-> {i, i + 1}, at |-> i + 1]
    ELSE [f[i + 2] EXCEPT !.blank = @ \cup {i}]
  IN f

(* Mutant of ConsumeComment: the star that opens a comment may close it. *)
ConsumeCommentShort(s, i) ==
  IF i > Len(s) THEN [blank |-> {}, at |-> i]
  ELSE CASE s[i] = "/" -> [blank |-> {i - 1} \cup RestOfLine(s, i),
                           at |-> i + Cardinality(RestOfLine(s, i))]
         [] s[i] = "*" -> [Block(s)[i] EXCEPT !.blank = @ \cup {i - 1}]
         [] OTHER      -> [blank |-> {}, at |-> i]

(* consumeComment, at the character after a slash: what it blanks, and     *)
(* where it ends: on the newline, on the closing slash, or where it was.   *)
ConsumeComment(s, i) ==
  IF i > Len(s) THEN [blank |-> {}, at |-> i]
  ELSE CASE s[i] = "/" -> [blank |-> {i - 1} \cup RestOfLine(s, i),
                           at |-> i + Cardinality(RestOfLine(s, i))]
         [] s[i] = "*" -> [Block(s)[i + 1] EXCEPT !.blank = @ \cup {i - 1, i}]
         [] OTHER      -> [blank |-> {}, at |-> i]

(* Past a string: the position i is after its opening quote. *)
AfterString(s) ==
  LET f[i \in Nat] == IF i > Len(s) THEN i
                      ELSE IF s[i] = "\"" THEN i + 1
                      ELSE IF s[i] = "\\" THEN f[i + 2] ELSE f[i + 1]
  IN f

(* What follows a comma, from i on: whether it is a closing bracket, and   *)
(* the comments passed on the way.                                         *)
AfterComma(s) ==
  LET f[i \in Nat] ==
    IF i > Len(s)             THEN [blank |-> {}, at |-> i, last |-> FALSE]
    ELSE IF s[i] \in ClosingBracket  THEN [blank |-> {}, at |-> i, last |-> TRUE]
    ELSE IF s[i] = "/"        THEN
      LET c == ConsumeComment(s, i + 1)
      IN [f[c.at + 1] EXCEPT !.blank = @ \cup c.blank]
    ELSE IF s[i] \notin White THEN [blank |-> {}, at |-> i, last |-> FALSE]
    ELSE f[i + 1]
  IN f

(* A comment's closing slash has been blanked when prep comes to it. *)
Prep(s) ==
  LET f[i \in Nat] ==
    IF i > Len(s) THEN {}
    ELSE CASE s[i] = "\"" -> f[AfterString(s)[i + 1]]
           [] s[i] = "/"  ->
                LET c == ConsumeComment(s, i + 1)
                IN c.blank \cup f[IF c.at \in c.blank THEN c.at + 1 ELSE c.at]
           [] s[i] = ","  ->
                LET a == AfterComma(s)[i + 1]
                IN a.blank \cup (IF a.last THEN {i} ELSE {}) \cup f[a.at]
           [] OTHER       -> f[i + 1]
  IN f[1]

-----------------------------------------------------------------------------
(* What each character belongs to, told from the one before it.            *)
Part(s) ==
  LET next(i) == IF i < Len(s) THEN s[i + 1] ELSE " "
      fresh(i) == CASE s[i] = "\""                  -> "string"
                    [] s[i] = "/" /\ next(i) = "/"  -> "line"
                    [] s[i] = "/" /\ next(i) = "*"  -> "open"
                    [] OTHER                        -> "code"
      f[i \in Nat] ==
        IF i = 0 THEN "code"
        ELSE LET p == f[i - 1] IN
             CASE p = "string"  -> IF s[i] = "\"" THEN "quote"
                                   ELSE IF s[i] = "\\" THEN "escape" ELSE "string"
               [] p = "escape"  -> "string"
               [] p = "line"    -> IF s[i] = Newline THEN "code" ELSE "line"
               [] p = "open"    -> "star"
               [] p \in {"star", "inside"} ->
                    IF s[i] = "*" /\ next(i) = "/" THEN "end" ELSE "inside"
               [] p = "end"     -> "close"
               [] OTHER         -> fresh(i)
  IN [i \in DOMAIN s |-> f[i]]

Comment == {"line", "open", "star", "inside", "end", "close"}

(* A text with no slash of its own, and no star inside a comment.          *)
Plain(s) ==
  LET part == Part(s) IN
  \A i \in DOMAIN s : /\ part[i] = "code" => s[i] # "/"
                      /\ part[i] = "inside" => s[i] # "*"

Trimmed(s) ==
  LET part == Part(s)
      comments == {i \in DOMAIN s : part[i] \in Comment}
      trailing(i) == /\ part[i] = "code" /\ s[i] = ","
                     /\ \E j \in i + 1..Len(s) :
                          /\ part[j] = "code" /\ s[j] \in ClosingBracket
                          /\ \A k \in i + 1..j - 1 :
                               k \in comments \/ (part[k] = "code" /\ s[k] \in White)
  IN comments \cup {i \in DOMAIN s : trailing(i)}

(* The texts that prep reads otherwise than meant. *)
Misread == UNION {{s \in [1..n -> Characters] : Plain(s) /\ Prep(s) # Trimmed(s)} :
                    n \in 0..MaxLength}

=============================================================================
