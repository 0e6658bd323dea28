------------------------------ MODULE ConfigStore ------------------------------
(***************************************************************************)
(* The configuration (config.cpp): load() at the start of the program,     *)
(* store() at its end, and what may happen to the file in between. A file  *)
(* is a sequence of tokens: the punctuation the scanner looks at, digits,  *)
(* names of elements, and any other text. A missing file and an empty one  *)
(* are treated alike by load() and store(): both are <<>>.                 *)
(***************************************************************************)
EXTENDS Integers, SequencesExt

CONSTANTS
  Tokens,     \* what a file consists of
  Elements,   \* names of configElements, in their order; integers, all
  Default,    \* m_default
  UserFiles,  \* what the user may have written before the first session
  NewValues,  \* values that a session may give a setting
  MaxLosses   \* how often the power fails at most

(* findConfigElement() compares with compareStringNocase(), which looks at *)
(* every second character, ignores case and stops with the shorter name:   *)
(* a token is a name as it sees it, and other text is unlike all of them.  *)
ElementNames == {Elements[i] : i \in DOMAIN Elements}

(* The punctuation that the scanner looks at, the end of a line included.  *)
Marks == {"#", ".", "=", "nl"}
DigitTokens == <<"0", "1", "2", "3", "4", "5", "6", "7", "8", "9">>

ASSUME ConfigAssumption ==
  /\ Marks \union {"sp", "-"} \union Range(DigitTokens) \subseteq Tokens
  /\ Elements \in Seq(Tokens \ Marks) /\ IsInjective(Elements)
  /\ Default \in [ElementNames -> Int]
  /\ UserFiles \subseteq Seq(Tokens)
  /\ NewValues \subseteq Int
  /\ MaxLosses \in Nat

VARIABLES
  file,      \* what is on the disk
  settings,  \* *m_val of each element; of the last session while off
  phase,     \* "off", "running", "storing", "hung"
  pending,   \* "storing": what the store goes to leave, and how it ends
  meant,     \* history: the values each setting was given or had by default
  complete,  \* history: the last session ended with a complete store
  original,  \* history: the file before the first session
  intact,    \* history: no store was cut short or could not read the file
  losses     \* power losses so far

vars == <<file, settings, phase, pending, meant, complete, original, intact, losses>>

-----------------------------------------------------------------------------
(* Integers as text.                                                       *)

IsDigit(c) == \E d \in 0 .. 9 : c = DigitTokens[d + 1]
DigitValue(c) == CHOOSE d \in 0 .. 9 : c = DigitTokens[d + 1]

Digits[n \in Nat] ==
  (IF n < 10 THEN <<>> ELSE Digits[n \div 10]) \o <<DigitTokens[(n % 10) + 1]>>

(* integerToString(): the length it returns does not count the sign, so    *)
(* that the caller, who goes by the length, loses the last digit.          *)
IntegerText(n) == IF n < 0 THEN <<"-">> \o Front(Digits[-n]) ELSE Digits[n]

(* stringToInteger(): up to the first character that is none of these.     *)
Numeric(text) ==
  {n \in 1 .. Len(text) : \A i \in 1 .. n : IsDigit(text[i]) \/ text[i] \in {"-", "sp"}}

Number(text) ==
  LET number[n \in 0 .. Len(text)] ==
        IF n = 0 THEN 0
        ELSE IF n \in Numeric(text) /\ IsDigit(text[n])
          THEN 10 * number[n - 1] + DigitValue(text[n])
          ELSE number[n - 1]
  IN number

IntegerOf(text) ==
  LET number == Number(text)[Len(text)] IN
    IF \E n \in Numeric(text) : text[n] = "-" THEN -number ELSE number

-----------------------------------------------------------------------------
(* The scanner that parseConfig() and writeConfig() share. Its state holds *)
(* what the one has read and what the other has written: the settings, or  *)
(* the text and the elements saved in it. out says how the writer goes on: *)
(* "ok", "failed" when it gives up, "fault" when it writes a text of       *)
(* negative, that is huge, length.                                         *)

Start ==
  [resume |-> 1,        \* the positions before it have been skipped
   state |-> "inited", fieldBegin |-> 1, elem |-> "none", valueBegin |-> 1, valueEnd |-> 1,
   settings |-> Default, stuck |-> FALSE,
   text |-> <<>>, saved |-> {}, out |-> "ok"]

Put(s, text) == IF s.out = "ok" THEN [s EXCEPT !.text = @ \o text] ELSE s

(* Where skipLine() and skipSpaces() stop: at worst at the last character. *)
Stop(f, found) == Min(found \union {Len(f)})

(* Mutant: skipLine() stops before the end of the line. *)
LineEndBefore(f, i) == Stop(f, {n \in i .. Len(f) : f[n] = "nl"}) - 1

LineEnd(f, i) == Stop(f, {n \in i .. Len(f) : f[n] = "nl"})
ValueStart(f, i) == Stop(f, {n \in i .. Len(f) : f[n] # "sp"})

(* Mutant: a value also ends where the file does. *)
ValueEndsWithFile(f, i) == f[i] = "nl" \/ i = Len(f)

(* isValueTokenEnd(): the character before a comment ends the value.       *)
ValueEnds(f, i) == f[i] = "nl" \/ (i < Len(f) /\ f[i + 1] = "#")

(* A # that ends the file: skipLine() comes back to it, the parser stays   *)
(* there, and the writer has nothing to write, which is an error.          *)
ReadComment(f, n, s) ==
  LET e == LineEnd(f, n) IN
    IF e = n THEN [s EXCEPT !.stuck = TRUE, !.out = IF @ = "ok" THEN "failed" ELSE @]
    ELSE [Put(s, SubSeq(f, n, e - 1)) EXCEPT !.resume = e]

ReadField(f, n, s) ==
  LET b == ValueStart(f, n + 1) IN
    [Put(s, SubSeq(f, s.fieldBegin, b - 1))
       EXCEPT !.resume = b, !.state = "begin_value", !.valueBegin = b]

(* Mutant: a field that is no element is kept without its value. *)
ReadValueOfElements(f, v, s) ==
  LET text == SubSeq(f, s.valueBegin, s.valueEnd) IN
    IF s.elem \in ElementNames
    THEN [Put(s, IntegerText(v[s.elem])) EXCEPT !.settings[s.elem] = IntegerOf(text),
            !.saved = @ \union {s.elem}, !.state = "got_value"]
    ELSE [s EXCEPT !.state = "got_value"]

(* The value's text runs up to the last character that was skipped as part *)
(* of any value, so that it can end before it begins.                      *)
ReadValue(f, v, s) ==
  LET text == SubSeq(f, s.valueBegin, s.valueEnd) IN
    IF s.elem \in ElementNames
    THEN [Put(s, IntegerText(v[s.elem])) EXCEPT !.settings[s.elem] = IntegerOf(text),
            !.saved = @ \union {s.elem}, !.state = "got_value"]
    ELSE IF text = <<>>
      THEN [s EXCEPT !.out = IF @ = "ok" THEN "fault" ELSE @, !.state = "got_value"]
      ELSE [Put(s, text) EXCEPT !.state = "got_value"]

(* One turn of the loop over the file f, when the settings are v.          *)
ScanStep(f, v, n, s) ==
  LET newline == IF f[n] = "nl" THEN <<"nl">> ELSE <<>> IN
    CASE n < s.resume -> s
      [] n >= s.resume /\ f[n] = "#" -> ReadComment(f, n, s)
      [] n >= s.resume /\ f[n] = "." -> [s EXCEPT !.state = "begin_field", !.fieldBegin = n]
      [] n >= s.resume /\ f[n] = "=" -> IF s.state = "got_field" THEN ReadField(f, n, s) ELSE s
      [] OTHER ->
           CASE s.state = "begin_field" ->
                  Put([s EXCEPT !.state = "got_field", !.elem = f[n]], newline)
             [] s.state = "begin_value" ->
                  IF ValueEnds(f, n) THEN Put(ReadValue(f, v, s), newline)
                  ELSE [s EXCEPT !.valueEnd = n]
             [] OTHER -> Put(s, newline)

Scan(f, v) ==
  LET after[n \in 0 .. Len(f)] ==
        IF n = 0 THEN Start ELSE ScanStep(f, v, n, after[n - 1])
  IN after

-----------------------------------------------------------------------------
(* load() and store() as functions of the file.                            *)

(* Mutant: what the file gives is read where it is written, too late. *)
LoadedBefore(f) == Scan(f, Default)[IF f = <<>> THEN 0 ELSE Len(f) - 1].settings

(* parseConfig(), then reserveDefaultValues() for what no value was set.   *)
Loaded(f) == Scan(f, Default)[Len(f)].settings
Stuck(f) == Scan(f, Default)[Len(f)].stuck

(* writeDefaultValues(): the elements that are not in the file; m_comment  *)
(* is set by no caller.                                                    *)
DefaultLine(e, v) == <<".", e, "sp", "=", "sp">> \o IntegerText(v[e]) \o <<"nl">>

DefaultLines(saved, v) ==
  LET lines[n \in 0 .. Len(Elements)] ==
        IF n = 0 THEN <<>>
        ELSE IF Elements[n] \in saved THEN lines[n - 1]
        ELSE (IF lines[n - 1] = <<>> THEN <<"nl">> ELSE lines[n - 1])
               \o DefaultLine(Elements[n], v)
  IN lines

(* Mutant: what was found in the file is appended as well. *)
WrittenAgain(f, v) ==
  LET s == Scan(f, v)[Len(f)] IN
    [text |-> s.text \o (IF s.out = "ok" THEN DefaultLines({}, v)[Len(Elements)] ELSE <<>>), end |-> s.out]

Written(f, v) ==
  LET s == Scan(f, v)[Len(f)] IN
    [text |-> s.text \o (IF s.out = "ok" THEN DefaultLines(s.saved, v)[Len(Elements)] ELSE <<>>),
     end |-> s.out]

-----------------------------------------------------------------------------
Nothing == [text |-> <<>>, end |-> "ok"]

Init ==
  /\ file \in UserFiles
  /\ original = file
  /\ settings = Default
  /\ phase = "off"
  /\ pending = Nothing
  /\ meant = [e \in ElementNames |-> {Default[e], Loaded(file)[e]}]
  /\ complete = FALSE
  /\ intact = TRUE
  /\ losses = 0

(* Mutant: what the file does not give gets no default. *)
LoadNoDefaults ==
  /\ phase = "off"
  /\ phase' = "running"
  /\ settings' = [e \in Scan(file, Default)[Len(file)].saved |-> Loaded(file)[e]]
  /\ complete' = FALSE
  /\ UNCHANGED <<file, pending, meant, original, intact, losses>>

(* load(); a # at the end of the file holds it for ever.                   *)
Load ==
  /\ phase = "off"
  /\ IF Stuck(file)
     THEN phase' = "hung" /\ UNCHANGED settings
     ELSE phase' = "running" /\ settings' = Loaded(file)
  /\ complete' = FALSE
  /\ UNCHANGED <<file, pending, meant, original, intact, losses>>

(* load() when the file cannot be opened.                                  *)
LoadDefaults ==
  /\ phase = "off"
  /\ phase' = "running"
  /\ settings' = Default
  /\ complete' = FALSE
  /\ UNCHANGED <<file, pending, meant, original, intact, losses>>

(* The session gives a setting a value, as onSetVolume() does.             *)
Change(e, v) ==
  /\ phase = "running"
  /\ settings' = [settings EXCEPT ![e] = v]
  /\ meant' = [meant EXCEPT ![e] = @ \union {v}]
  /\ UNCHANGED <<file, phase, pending, complete, original, intact, losses>>

(* store() reads the file, empties it by opening it for writing, and       *)
(* writes to a buffer of the C library.                                    *)
StoreBegin ==
  /\ phase = "running"
  /\ phase' = "storing"
  /\ pending' = Written(file, settings)
  /\ file' = <<>>
  /\ UNCHANGED <<settings, meant, complete, original, intact, losses>>

(* store() when the file cannot be opened for reading: it is written anew. *)
StoreAnew ==
  /\ phase = "running"
  /\ phase' = "storing"
  /\ pending' = Written(<<>>, settings)
  /\ file' = <<>>
  /\ intact' = FALSE
  /\ UNCHANGED <<settings, meant, complete, original, losses>>

(* store() when the file cannot be opened for writing.                     *)
StoreFails ==
  /\ phase = "running"
  /\ phase' = "off"
  /\ UNCHANGED <<file, settings, pending, meant, complete, original, intact, losses>>

(* The file is closed. Where the writer gave up, what it wrote so far      *)
(* stays: Filestream::Close() keeps fd, so that the second open() for the  *)
(* defaults fails. Where the writer ran out of its buffer, the file is     *)
(* taken for lost: fwrite() of the huge length first flushes the text, but *)
(* what it writes behind it is memory up to where none can be read. A file *)
(* of whole lines comes to that only after a power loss.                   *)
StoreEnd ==
  /\ phase = "storing"
  /\ phase' = "off"
  /\ file' = IF pending.end = "fault" THEN file ELSE pending.text
  /\ pending' = Nothing
  /\ complete' = (pending.end = "ok")
  /\ UNCHANGED <<settings, meant, original, intact, losses>>

(* The program is killed. The text is shorter than the buffer of the C     *)
(* library: what is being stored has not reached the file.                 *)
Kill ==
  /\ phase # "off"
  /\ phase' = "off"
  /\ pending' = Nothing
  /\ intact' = (intact /\ phase # "storing")
  /\ UNCHANGED <<file, settings, meant, complete, original, losses>>

(* The machine stops, or the disk is full, in the middle of the text.      *)
PowerLoss ==
  /\ phase = "storing" /\ losses < MaxLosses
  /\ \E torn \in Prefixes(pending.text) : file' = torn
  /\ phase' = "off"
  /\ pending' = Nothing
  /\ losses' = losses + 1
  /\ intact' = FALSE
  /\ UNCHANGED <<settings, meant, complete, original>>

Next ==
  \/ Load \/ LoadDefaults
  \/ \E e \in ElementNames, v \in NewValues : Change(e, v)
  \/ StoreBegin \/ StoreAnew \/ StoreFails \/ StoreEnd
  \/ Kill \/ PowerLoss

Spec == Init /\ [][Next]_vars

-----------------------------------------------------------------------------
TypeOK ==
  /\ settings \in [ElementNames -> Int]
  /\ phase \in {"off", "running", "storing", "hung"}
  /\ pending.end \in {"ok", "failed", "fault"}
  /\ complete \in BOOLEAN
  /\ intact \in BOOLEAN
  /\ losses \in 0 .. MaxLosses

(* A complete store keeps the settings: the next load() gives back those   *)
(* that the session ended with, whatever else is in the file, though the   *)
(* power once cut it anywhere. (A second cut can leave a line with an      *)
(* empty value behind the line that counts.)                               *)
Survives == phase = "off" /\ complete /\ losses <= 1 => Loaded(file) = settings

(* No session sees half a value: each setting is its default or a value    *)
(* that it was given once, though the power once cut the file anywhere.    *)
NeverTorn ==
  phase = "running" /\ losses <= 1 => \A e \in ElementNames : settings[e] \in meant[e]

(* As long as each store ran to its end, a complete store that follows one *)
(* changes nothing: the file does not grow, or lose a line, with every     *)
(* session.                                                                *)
Settled ==
  phase = "off" /\ complete /\ intact =>
    Written(file, settings) = [text |-> file, end |-> "ok"]

(* The lines that are the user's: comments and fields of no element.       *)
IsUserLine(line) ==
  line[1] = "#" \/ (line[1] = "." /\ line[2] \notin ElementNames)

LineToken(l, c) ==
  LET line == Append(l.line, c) IN
    IF c = "nl"
    THEN [kept |-> l.kept \union (IF IsUserLine(line) THEN {line} ELSE {}), line |-> <<>>]
    ELSE [l EXCEPT !.line = line]

Lines(f) ==
  LET after[n \in 0 .. Len(f)] ==
        IF n = 0 THEN [kept |-> {}, line |-> <<>>] ELSE LineToken(after[n - 1], f[n])
  IN after

UserLines(f) == Lines(f)[Len(f)].kept

(* "make comment transparent", "make field transparent": as long as each   *)
(* store ran to its end, the user's lines are in the file.                 *)
UserLinesKept == phase = "off" /\ intact => UserLines(file) = UserLines(original)

(* A file that no interrupted store has left never holds load() for ever,  *)
(* nor makes the writer give up or run out of its buffer.                  *)
NeverStuck == intact => phase # "hung" /\ pending.end = "ok"
==============================================================================
