------------------------------ MODULE ConfigLines ------------------------------
(***************************************************************************)
(* The configuration file line by line: what the two passes of the scanner *)
(* of ConfigStore come to, one token at a time and without looking ahead,  *)
(* in a file whose lines are comments, fields, or words that no one reads. *)
(* What the theorems on ConfigStore suppose of the user's file is stated   *)
(* here, and their proofs go over this reader.                             *)
(***************************************************************************)
EXTENDS ConfigStore

(* Where in a line the reader is, and what it has read: the field's name,  *)
(* its value so far, and what the complete values have set. A bare line is *)
(* a field without "=", as the power may leave it; the next field follows. *)
Unread ==
  [place |-> "start", elem |-> "none", value |-> <<>>, settings |-> Default, given |-> {},
   empty |-> FALSE,   \* a field of no element had no value
   clean |-> TRUE]    \* no such field, no bare line, no element given twice

AtStart(c, x) ==
  [c EXCEPT !.place = CASE x = "#" -> "comment" [] x = "." -> "dot" [] x = "nl" -> "start"
                        [] OTHER -> "stray"]

AtDot(c, x) ==
  IF x \in Marks THEN [c EXCEPT !.place = "bad"]
  ELSE [c EXCEPT !.place = "name", !.elem = x, !.clean = @ /\ x \notin c.given]

AtName(c, x) ==
  CASE x = "=" -> [c EXCEPT !.place = "spaces", !.value = <<>>]
    [] x = "nl" -> [c EXCEPT !.place = "bare", !.clean = FALSE]
    [] x \in {"#", "."} -> [c EXCEPT !.place = "bad"]
    [] OTHER -> c

EndOfValue(c) ==
  IF c.elem \in ElementNames
  THEN [c EXCEPT !.place = "start", !.settings[c.elem] = IntegerOf(c.value),
          !.given = @ \union {c.elem}]
  ELSE IF c.value = <<>>
    THEN [c EXCEPT !.place = "start", !.empty = TRUE, !.clean = FALSE]
    ELSE [c EXCEPT !.place = "start"]

AtValue(c, x) ==
  CASE x = "nl" -> EndOfValue(c)
    [] x = "sp" /\ c.place = "spaces" -> c
    [] x \in Marks \ {"nl"} -> [c EXCEPT !.place = "bad"]
    [] x = "-" /\ c.elem \in ElementNames -> [c EXCEPT !.place = "bad"]
    [] OTHER -> [c EXCEPT !.place = "value", !.value = Append(@, x)]

ReadToken(c, x) ==
  CASE c.place = "start" -> AtStart(c, x)
    [] c.place = "comment" -> IF x = "nl" THEN [c EXCEPT !.place = "start"] ELSE c
    [] c.place = "stray" ->
         [c EXCEPT !.place = CASE x = "nl" -> "start" [] x \in {"#", "."} -> "bad"
                               [] OTHER -> "stray"]
    [] c.place = "bare" -> [c EXCEPT !.place = IF x = "." THEN "dot" ELSE "bad"]
    [] c.place = "dot" -> AtDot(c, x)
    [] c.place = "name" -> AtName(c, x)
    [] c.place \in {"spaces", "value"} -> AtValue(c, x)
    [] OTHER -> c

Reading(f) ==
  LET after[n \in 0 .. Len(f)] == IF n = 0 THEN Unread ELSE ReadToken(after[n - 1], f[n])
  IN after

Read(f) == Reading(f)[Len(f)]

(* A file as the user should write it, and as store() leaves it when the   *)
(* power does not fail: whole lines, each element at most once, a value    *)
(* for each field of no element.                                           *)
Whole(f) == f \in Seq(Tokens) /\ Read(f).place = "start" /\ Read(f).clean

(* What the theorems suppose: settings are never negative, and the user's  *)
(* file is as it should be.                                                *)
Regular ==
  /\ NewValues \subseteq Nat
  /\ Default \in [ElementNames -> Nat]
  /\ \A f \in UserFiles : Whole(f)

-----------------------------------------------------------------------------
(* What the writer makes of it, when the settings are v: the text so far,  *)
(* where the line's own value follows when the line ends, and the text of  *)
(* the lines before. A bare line is dropped.                               *)
Unwritten == [text |-> <<>>, base |-> <<>>]

Copies(c, x) ==
  CASE c.place \in {"start", "bare"} -> x \in {"#", ".", "nl"}
    [] c.place = "stray" -> x = "nl"
    [] c.place \in {"spaces", "value"} -> c.elem \notin ElementNames \/ (c.place = "spaces" /\ x = "sp")
    [] OTHER -> TRUE

TextAfter(v, c, x, t) ==
  CASE c.place \in {"spaces", "value"} /\ c.elem \in ElementNames /\ x = "nl" ->
         t.text \o IntegerText(v[c.elem]) \o <<"nl">>
    [] c.place = "name" /\ x = "nl" -> Append(t.base, "nl")
    [] OTHER -> IF Copies(c, x) THEN Append(t.text, x) ELSE t.text

WriteToken(v, c, x, t) ==
  LET text == TextAfter(v, c, x, t) IN
    [text |-> text,
     base |-> IF ReadToken(c, x).place \in {"start", "bare"} THEN text ELSE t.base]

Writing(f, v) ==
  LET after[n \in 0 .. Len(f)] ==
        IF n = 0 THEN Unwritten ELSE WriteToken(v, Reading(f)[n - 1], f[n], after[n - 1])
  IN after

Rewritten(f, v) == Writing(f, v)[Len(f)]
==============================================================================
