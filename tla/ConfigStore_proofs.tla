-------------------------- MODULE ConfigStore_proofs --------------------------
(***************************************************************************)
(* Proofs about the configuration file. The scanner of config.cpp looks    *)
(* ahead, skips and goes back; in a file that the line reader of           *)
(* ConfigLines understands it does, token by token, what that reader does, *)
(* and the writer copies what the line writer copies (ScanMatches,         *)
(* LoadedIsRead, WrittenIsCopied). From there:                             *)
(*   - a store over a file of whole lines leaves whole lines, each element *)
(*     once with its setting, and the user's lines (WholeWritten);         *)
(*   - a store over such a text does not change it (SureIsKept);           *)
(*   - such a text cut anywhere gives each setting its value or its        *)
(*     default (SureIsKept), and a store over it leaves a file that gives  *)
(*     the settings, or gives up with one that gives them or the defaults  *)
(*     (TornWritten).                                                      *)
(* What is in the file after any number of sessions is the invariant       *)
(* StoreInv; the properties of ConfigStore follow from it.                 *)
(***************************************************************************)
EXTENDS ConfigLines, DataInduction, TLAPS

-----------------------------------------------------------------------------
(* The tokens that the conversion of integers writes.                      *)

LEMMA TokensType ==
  /\ Marks \subseteq Tokens /\ "sp" \in Tokens /\ "-" \in Tokens
  /\ "nl" \in Tokens /\ "#" \in Tokens /\ "." \in Tokens /\ "=" \in Tokens
<1>1. Marks \union {"sp", "-"} \union Range(DigitTokens) \subseteq Tokens
  BY ConfigAssumption
<1>2. Marks \subseteq Tokens /\ "sp" \in Tokens /\ "-" \in Tokens
  <2> DEFINE R == Range(DigitTokens)
  <2> HIDE DEF R
  <2> QED
    BY <1>1
<1> QED
  BY <1>2 DEF Marks

LEMMA ElementsType ==
  /\ Elements \in Seq(Tokens) /\ Len(Elements) \in Nat
  /\ DOMAIN Elements = 1 .. Len(Elements)
  /\ ElementNames \subseteq Tokens /\ \A e \in ElementNames : e \notin Marks
  /\ \A i, j \in 1 .. Len(Elements) : Elements[i] = Elements[j] => i = j
<1>1. Elements \in Seq(Tokens \ Marks) /\ IsInjective(Elements)
  BY ConfigAssumption
<1>2. Len(Elements) \in Nat /\ DOMAIN Elements = 1 .. Len(Elements)
  BY <1>1
<1>3. \A i \in DOMAIN Elements : Elements[i] \in Tokens \ Marks
  BY <1>1
<1>4. Elements \in Seq(Tokens)
  BY <1>1
<1> QED
  BY <1>1, <1>2, <1>3, <1>4 DEF ElementNames, IsInjective

LEMMA DigitTokensType ==
  ASSUME NEW d \in 0 .. 9
  PROVE  /\ DigitTokens[d + 1] \in Tokens
         /\ IsDigit(DigitTokens[d + 1])
         /\ DigitValue(DigitTokens[d + 1]) = d
         /\ DigitTokens[d + 1] \notin Marks \union {"-", "sp"}
<1>1. /\ DigitTokens[1] = "0" /\ DigitTokens[2] = "1" /\ DigitTokens[3] = "2"
      /\ DigitTokens[4] = "3" /\ DigitTokens[5] = "4" /\ DigitTokens[6] = "5"
      /\ DigitTokens[7] = "6" /\ DigitTokens[8] = "7" /\ DigitTokens[9] = "8"
      /\ DigitTokens[10] = "9"
  BY DEF DigitTokens
<1>2. \A c \in 0 .. 9 : DigitTokens[c + 1] = DigitTokens[d + 1] => c = d
  <2> SUFFICES ASSUME NEW c \in 0 .. 9, DigitTokens[c + 1] = DigitTokens[d + 1]
               PROVE  c = d
    OBVIOUS
  <2> QED
    BY <1>1
<1>3. DigitTokens[d + 1] \in Tokens /\ DigitTokens[d + 1] \notin Marks \union {"-", "sp"}
  <2>1. DigitTokens[d + 1] \in {"0", "1", "2", "3", "4", "5", "6", "7", "8", "9"}
    BY <1>1
  <2>2. DigitTokens[d + 1] \notin Marks \union {"-", "sp"}
    BY <2>1 DEF Marks
  <2>3. DOMAIN DigitTokens = 1 .. 10
    BY DEF DigitTokens
  <2>4. DigitTokens[d + 1] \in Range(DigitTokens)
    <3>1. d + 1 \in 1 .. 10
      OBVIOUS
    <3> QED
      BY <2>3, <3>1 DEF Range
  <2>5. Range(DigitTokens) \subseteq Tokens
    BY ConfigAssumption
  <2> QED
    BY <2>2, <2>4, <2>5
<1>4. DigitValue(DigitTokens[d + 1]) = d
  <2> DEFINE t == DigitTokens[d + 1]
  <2>1. \A c \in 0 .. 9 : t = DigitTokens[c + 1] <=> c = d
    BY <1>2
  <2>2. (CHOOSE c \in 0 .. 9 : t = DigitTokens[c + 1]) = d
    <3> HIDE DEF t
    <3> QED
      BY <2>1
  <2> QED
    BY <2>2 DEF DigitValue
<1> QED
  BY <1>3, <1>4 DEF IsDigit

LEMMA DigitValueType ==
  ASSUME NEW c, IsDigit(c)
  PROVE  DigitValue(c) \in 0 .. 9
BY DEF IsDigit, DigitValue

LEMMA DigitsDef ==
  /\ \A n \in Nat : Digits[n] =
       (IF n < 10 THEN <<>> ELSE Digits[n \div 10]) \o <<DigitTokens[(n % 10) + 1]>>
  /\ \A n \in Nat : Digits[n] \in Seq(Tokens)
<1> DEFINE last == [n \in Nat |-> <<DigitTokens[(n % 10) + 1]>>]
           pred == [n \in Nat |-> n \div 10]
           step == [p \in Nat \X Seq(Tokens) |->
                      (IF p[1] < 10 THEN <<>> ELSE p[2]) \o last[p[1]]]
           a == <<DigitTokens[1]>>
<1>1. \A n \in Nat : last[n] \in Seq(Tokens)
  <2> SUFFICES ASSUME NEW n \in Nat
               PROVE  last[n] \in Seq(Tokens)
    OBVIOUS
  <2>1. n % 10 \in 0 .. 9
    OBVIOUS
  <2>2. DigitTokens[(n % 10) + 1] \in Tokens
    BY <2>1, DigitTokensType
  <2> QED
    BY <2>2
<1>2. pred \in [Nat -> Nat] /\ \A n \in Nat : n # 0 => pred[n] < n
  OBVIOUS
<1>3. step \in [Nat \X Seq(Tokens) -> Seq(Tokens)]
  <2>1. ASSUME NEW p \in Nat \X Seq(Tokens)
        PROVE  (IF p[1] < 10 THEN <<>> ELSE p[2]) \o last[p[1]] \in Seq(Tokens)
    <3>1. p[1] \in Nat /\ p[2] \in Seq(Tokens) /\ last[p[1]] \in Seq(Tokens)
      <4> HIDE DEF last
      <4> QED
        BY <1>1
    <3>2. \A s, t \in Seq(Tokens) : s \o t \in Seq(Tokens)
      OBVIOUS
    <3>3. <<>> \in Seq(Tokens)
      OBVIOUS
    <3> HIDE DEF last
    <3> QED
      BY <3>1, <3>2, <3>3
  <2> HIDE DEF last
  <2> QED
    BY <2>1
<1>4. a \in Seq(Tokens)
  <2>1. PICK d \in 0 .. 9 : d = 0
    OBVIOUS
  <2>2. DigitTokens[d + 1] \in Tokens
    BY DigitTokensType
  <2> QED
    BY <2>1, <2>2
<1>5. PICK h \in [Nat -> Seq(Tokens)] :
        \A n \in Nat : h[n] = IF n = 0 THEN a ELSE step[<<n, h[pred[n]]>>]
  <2> HIDE DEF step, pred, a
  <2>1. Descends(Nat, Seq(Tokens), a, pred, step)
    BY <1>2, <1>3, <1>4 DEF Descends
  <2> QED
    BY <2>1, Recursion DEF Solution
<1>6. ASSUME NEW n \in Nat
      PROVE  h[n] = (IF n < 10 THEN <<>> ELSE h[n \div 10]) \o <<DigitTokens[(n % 10) + 1]>>
  <2>1. CASE n = 0
    <3>1. n < 10 /\ (n % 10) + 1 = 1
      BY <2>1
    <3>2. <<>> \o a = a
      <4> HIDE DEF a
      <4> QED
        BY <1>4
    <3>3. h[n] = a
      <4> HIDE DEF a, step, pred
      <4> QED
        BY <1>5, <2>1
    <3> QED
      BY <3>1, <3>2, <3>3
  <2>2. CASE n # 0
    <3>1. pred[n] = n \div 10 /\ n \div 10 \in Nat /\ h[n \div 10] \in Seq(Tokens)
      OBVIOUS
    <3>2. h[n] = step[<<n, h[n \div 10]>>]
      <4> HIDE DEF step, pred
      <4> QED
        BY <1>5, <2>2, <3>1
    <3>3. <<n, h[n \div 10]>> \in Nat \X Seq(Tokens)
      BY <3>1
    <3>4. step[<<n, h[n \div 10]>>] = (IF n < 10 THEN <<>> ELSE h[n \div 10]) \o last[n]
      <4> HIDE DEF last
      <4> QED
        BY <3>3
    <3> QED
      BY <3>2, <3>4
  <2> QED
    BY <2>1, <2>2
<1>7. \E g : g = [n \in Nat |->
        (IF n < 10 THEN <<>> ELSE g[n \div 10]) \o <<DigitTokens[(n % 10) + 1]>>]
  <2>1. h = [n \in Nat |-> h[n]]
    OBVIOUS
  <2>2. h = [n \in Nat |-> (IF n < 10 THEN <<>> ELSE h[n \div 10]) \o <<DigitTokens[(n % 10) + 1]>>]
    BY <2>1, <1>6
  <2> QED
    BY <2>2
<1>8. Digits = [n \in Nat |->
        (IF n < 10 THEN <<>> ELSE Digits[n \div 10]) \o <<DigitTokens[(n % 10) + 1]>>]
  BY <1>7 DEF Digits
<1>9. \A n \in Nat : Digits[n] =
        (IF n < 10 THEN <<>> ELSE Digits[n \div 10]) \o <<DigitTokens[(n % 10) + 1]>>
  BY <1>8
<1>10. \A n \in Nat : Digits[n] \in Seq(Tokens)
  <2> DEFINE S == {n \in Nat : Digits[n] \notin Seq(Tokens)}
  <2>1. SUFFICES ASSUME S # {}
                 PROVE  FALSE
    OBVIOUS
  <2>2. S \in SUBSET Nat
    OBVIOUS
  <2>3. PICK n \in S : \A k \in S : n <= k
    <3> HIDE DEF S
    <3> QED
      BY <2>1, <2>2, LeastElement
  <2>4. n \in Nat /\ Digits[n] \notin Seq(Tokens)
    BY <2>3
  <2>5. last[n] \in Seq(Tokens) /\ last[n] = <<DigitTokens[(n % 10) + 1]>>
    BY <2>4, <1>1
  <2>6. CASE n < 10
    <3>1. Digits[n] = <<>> \o last[n]
      BY <2>4, <2>5, <2>6, <1>9
    <3> QED
      BY <3>1, <2>4, <2>5
  <2>7. CASE ~(n < 10)
    <3>1. n \div 10 \in Nat /\ n \div 10 < n
      BY <2>4, <2>7
    <3>2. n \div 10 \notin S
      <4> HIDE DEF S
      <4> QED
        BY <3>1, <2>3, <2>4
    <3>3. Digits[n \div 10] \in Seq(Tokens)
      BY <3>1, <3>2
    <3>4. Digits[n] = Digits[n \div 10] \o last[n]
      BY <2>4, <2>5, <2>7, <1>9
    <3> QED
      BY <3>3, <3>4, <2>4, <2>5
  <2> QED
    BY <2>6, <2>7
<1> QED
  BY <1>9, <1>10

-----------------------------------------------------------------------------
(* stringToInteger().                                                      *)

LEMMA NumberDef ==
  ASSUME NEW t \in Seq(Tokens)
  PROVE  /\ Number(t) \in [0 .. Len(t) -> Nat]
         /\ Number(t)[0] = 0
         /\ \A n \in 1 .. Len(t) :
              Number(t)[n] = IF n \in Numeric(t) /\ IsDigit(t[n])
                             THEN 10 * Number(t)[n - 1] + DigitValue(t[n])
                             ELSE Number(t)[n - 1]
<1> DEFINE N == Len(t)
           step == [p \in (1 .. N) \X Nat |->
                      IF p[1] \in Numeric(t) /\ IsDigit(t[p[1]])
                      THEN 10 * p[2] + DigitValue(t[p[1]]) ELSE p[2]]
<1>1. Counts(N, Nat, 0, step)
  <2>1. ASSUME NEW p \in (1 .. N) \X Nat
        PROVE  (IF p[1] \in Numeric(t) /\ IsDigit(t[p[1]])
                THEN 10 * p[2] + DigitValue(t[p[1]]) ELSE p[2]) \in Nat
    <3>1. p[2] \in Nat
      OBVIOUS
    <3>2. CASE IsDigit(t[p[1]])
      <4>1. DigitValue(t[p[1]]) \in Nat
        BY <3>2, DigitValueType
      <4> QED
        BY <3>1, <4>1
    <3> QED
      BY <3>1, <3>2
  <2>2. step \in [(1 .. N) \X Nat -> Nat]
    BY <2>1
  <2>3. N \in Nat /\ 0 \in Nat
    OBVIOUS
  <2> HIDE DEF step, N
  <2> QED
    BY <2>2, <2>3 DEF Counts
<1>2. PICK h : h \in [0 .. N -> Nat] /\ h = [n \in 0 .. N |-> IF n = 0 THEN 0 ELSE step[<<n, h[n - 1]>>]]
  <2> HIDE DEF step, N
  <2> QED
    BY <1>1, CountedRecursion
<1>3. h = [n \in 0 .. N |-> IF n = 0 THEN 0
             ELSE IF n \in Numeric(t) /\ IsDigit(t[n]) THEN 10 * h[n - 1] + DigitValue(t[n]) ELSE h[n - 1]]
  <2>1. ASSUME NEW n \in 0 .. N, n # 0
        PROVE  step[<<n, h[n - 1]>>] =
                 IF n \in Numeric(t) /\ IsDigit(t[n]) THEN 10 * h[n - 1] + DigitValue(t[n]) ELSE h[n - 1]
    <3>1. n - 1 \in 0 .. N
      BY <2>1
    <3>2. h[n - 1] \in Nat
      BY <1>2, <3>1
    <3>3. <<n, h[n - 1]>> \in (1 .. N) \X Nat
      BY <2>1, <3>2
    <3> QED
      BY <3>3
  <2> HIDE DEF step, N
  <2> QED
    BY <1>2, <2>1
<1>4. Number(t) = [n \in 0 .. N |-> IF n = 0 THEN 0
             ELSE IF n \in Numeric(t) /\ IsDigit(t[n])
               THEN 10 * Number(t)[n - 1] + DigitValue(t[n]) ELSE Number(t)[n - 1]]
  BY <1>3 DEF Number
<1>5. \A n \in 1 .. N : /\ n - 1 \in 0 .. N
                        /\ Number(t)[n] = IF n \in Numeric(t) /\ IsDigit(t[n])
                             THEN 10 * Number(t)[n - 1] + DigitValue(t[n])
                             ELSE Number(t)[n - 1]
  BY <1>4
<1>6. Number(t)[0] = 0
  <2>1. 0 \in 0 .. N
    OBVIOUS
  <2> QED
    BY <1>4, <2>1
<1>7. \A n \in 0 .. N : Number(t)[n] \in Nat
  <2> DEFINE S == {n \in 0 .. N : Number(t)[n] \in Nat}
  <2>1. 0 \in S
    BY <1>6
  <2>2. ASSUME NEW n \in 1 .. N, n - 1 \in S
        PROVE  n \in S
    <3>1. Number(t)[n - 1] \in Nat
      BY <2>2
    <3>2. CASE n \in Numeric(t) /\ IsDigit(t[n])
      <4>1. DigitValue(t[n]) \in Nat
        BY <3>2, DigitValueType
      <4>2. Number(t)[n] = 10 * Number(t)[n - 1] + DigitValue(t[n])
        BY <1>5, <3>2
      <4> QED
        BY <3>1, <4>1, <4>2
    <3>3. CASE ~(n \in Numeric(t) /\ IsDigit(t[n]))
      <4>1. Number(t)[n] = Number(t)[n - 1]
        BY <1>5, <3>3
      <4> QED
        BY <3>1, <4>1
    <3> QED
      BY <3>2, <3>3
  <2>3. 0 .. N \subseteq S
    <3>1. N \in Nat
      OBVIOUS
    <3> HIDE DEF S, N
    <3> QED
      BY <2>1, <2>2, <3>1, Bounded
  <2> QED
    BY <2>3
<1>8. Number(t) \in [0 .. N -> Nat]
  <2> HIDE DEF N
  <2> QED
    BY <1>4, <1>7
<1> QED
  BY <1>5, <1>6, <1>8

LEMMA IntegerOfType ==
  ASSUME NEW t \in Seq(Tokens)
  PROVE  /\ IntegerOf(t) \in Int
         /\ (\A i \in 1 .. Len(t) : t[i] # "-") => IntegerOf(t) \in Nat
<1>1. Number(t)[Len(t)] \in Nat
  <2>1. Len(t) \in 0 .. Len(t)
    OBVIOUS
  <2> QED
    BY <2>1, NumberDef
<1>2. Numeric(t) \subseteq 1 .. Len(t)
  BY DEF Numeric
<1> QED
  BY <1>1, <1>2 DEF IntegerOf

AllDigits(t) == \A i \in 1 .. Len(t) : IsDigit(t[i])

LEMMA AllDigitsNumeric ==
  ASSUME NEW t \in Seq(Tokens), AllDigits(t)
  PROVE  /\ Numeric(t) = 1 .. Len(t)
         /\ IntegerOf(t) = Number(t)[Len(t)]
<1>1. Numeric(t) = 1 .. Len(t)
  <2>1. ASSUME NEW n \in 1 .. Len(t), NEW i \in 1 .. n
        PROVE  IsDigit(t[i])
    <3>1. i \in 1 .. Len(t)
      OBVIOUS
    <3> QED
      BY <3>1 DEF AllDigits
  <2> QED
    BY <2>1 DEF Numeric
<1>2. \A i \in 1 .. Len(t) : t[i] # "-"
  <2> SUFFICES ASSUME NEW i \in 1 .. Len(t)
               PROVE  t[i] # "-"
    OBVIOUS
  <2>1. PICK d \in 0 .. 9 : t[i] = DigitTokens[d + 1]
    BY DEF AllDigits, IsDigit
  <2> QED
    BY <2>1, DigitTokensType
<1> QED
  BY <1>1, <1>2 DEF IntegerOf

LEMMA NumberAppend ==
  ASSUME NEW t \in Seq(Tokens), AllDigits(t), NEW d \in 0 .. 9
  PROVE  /\ AllDigits(Append(t, DigitTokens[d + 1]))
         /\ IntegerOf(Append(t, DigitTokens[d + 1])) = 10 * IntegerOf(t) + d
<1> DEFINE x == DigitTokens[d + 1]
           u == Append(t, x)
<1>1. x \in Tokens /\ IsDigit(x) /\ DigitValue(x) = d
  BY DigitTokensType
<1>2. /\ u \in Seq(Tokens) /\ Len(u) = Len(t) + 1 /\ u[Len(t) + 1] = x
      /\ \A i \in 1 .. Len(t) : u[i] = t[i]
  <2> HIDE DEF x
  <2> QED
    BY <1>1
<1>3. AllDigits(u)
  <2> HIDE DEF x, u
  <2> QED
    BY <1>1, <1>2 DEF AllDigits
<1>4. \A n \in 0 .. Len(t) : Number(u)[n] = Number(t)[n]
  <2> DEFINE S == {n \in 0 .. Len(t) : Number(u)[n] = Number(t)[n]}
  <2>1. 0 \in S
    <3> HIDE DEF u
    <3> QED
      BY <1>2, NumberDef
  <2>2. ASSUME NEW n \in 1 .. Len(t), n - 1 \in S
        PROVE  n \in S
    <3>1. n \in 1 .. Len(u) /\ u[n] = t[n] /\ IsDigit(t[n])
      <4> HIDE DEF u
      <4> QED
        BY <1>2 DEF AllDigits
    <3>2. n \in Numeric(u) /\ n \in Numeric(t)
      <4> HIDE DEF u
      <4> QED
        BY <1>2, <1>3, <3>1, AllDigitsNumeric
    <3>3. Number(u)[n] = 10 * Number(u)[n - 1] + DigitValue(u[n])
      <4> HIDE DEF u
      <4> QED
        BY <1>2, <3>1, <3>2, NumberDef
    <3>4. Number(t)[n] = 10 * Number(t)[n - 1] + DigitValue(t[n])
      BY <3>1, <3>2, NumberDef
    <3> HIDE DEF u
    <3> QED
      BY <2>2, <3>1, <3>3, <3>4
  <2>3. 0 .. Len(t) \subseteq S
    <3>1. Len(t) \in Nat
      OBVIOUS
    <3> HIDE DEF S
    <3> QED
      BY <2>1, <2>2, <3>1, Bounded
  <2> QED
    BY <2>3
<1>5. Number(u)[Len(u)] = 10 * Number(u)[Len(t)] + d
  <2>1. Len(u) \in Numeric(u) /\ Len(u) \in 1 .. Len(u) /\ Len(u) - 1 = Len(t)
    <3> HIDE DEF u
    <3> QED
      BY <1>2, <1>3, AllDigitsNumeric
  <2> HIDE DEF u, x
  <2> QED
    BY <1>1, <1>2, <2>1, NumberDef
<1>6. Number(u)[Len(t)] = Number(t)[Len(t)]
  <2>1. Len(t) \in 0 .. Len(t)
    OBVIOUS
  <2> QED
    BY <1>4, <2>1
<1>7. AllDigits(u) /\ IntegerOf(u) = 10 * IntegerOf(t) + d
  <2> HIDE DEF u
  <2> QED
    BY <1>2, <1>3, <1>5, <1>6, AllDigitsNumeric
<1> QED
  BY <1>7

(* What integerToString() writes of a number that is not negative,         *)
(* stringToInteger() reads back.                                           *)
LEMMA IntegerOfDigits ==
  ASSUME NEW n \in Nat
  PROVE  AllDigits(Digits[n]) /\ IntegerOf(Digits[n]) = n
<1> DEFINE S == {m \in Nat : ~(AllDigits(Digits[m]) /\ IntegerOf(Digits[m]) = m)}
<1>1. SUFFICES ASSUME S # {}
               PROVE  FALSE
  OBVIOUS
<1>2. S \in SUBSET Nat
  OBVIOUS
<1>3. PICK m \in S : \A k \in S : m <= k
  <2> HIDE DEF S
  <2> QED
    BY <1>1, <1>2, LeastElement
<1>4. m \in Nat /\ ~(AllDigits(Digits[m]) /\ IntegerOf(Digits[m]) = m)
  BY <1>3
<1> DEFINE d == m % 10
           p == IF m < 10 THEN <<>> ELSE Digits[m \div 10]
<1>5. d \in 0 .. 9 /\ m = 10 * (m \div 10) + d /\ (m < 10 => m \div 10 = 0)
  BY <1>4
<1>6. p \in Seq(Tokens) /\ AllDigits(p) /\ IntegerOf(p) = m \div 10
  <2>1. CASE m < 10
    <3>1. <<>> \in Seq(Tokens) /\ Len(<<>>) = 0 /\ Len(<<>>) \in Nat
      OBVIOUS
    <3>2. AllDigits(<<>>)
      BY <3>1 DEF AllDigits
    <3>3. IntegerOf(<<>>) = 0
      BY <3>1, <3>2, AllDigitsNumeric, NumberDef
    <3> QED
      BY <2>1, <3>1, <3>2, <3>3, <1>5
  <2>2. CASE ~(m < 10)
    <3>1. m \div 10 \in Nat /\ m \div 10 < m
      BY <1>4, <2>2
    <3>2. m \div 10 \notin S
      <4> HIDE DEF S
      <4> QED
        BY <3>1, <1>3, <1>4
    <3>3. AllDigits(Digits[m \div 10]) /\ IntegerOf(Digits[m \div 10]) = m \div 10
      BY <3>1, <3>2
    <3> QED
      BY <2>2, <3>1, <3>3, DigitsDef
  <2> QED
    BY <2>1, <2>2
<1>7. Digits[m] = Append(p, DigitTokens[d + 1])
  <2>1. Digits[m] = p \o <<DigitTokens[d + 1]>>
    BY <1>4, DigitsDef
  <2>2. DigitTokens[d + 1] \in Tokens
    BY <1>5, DigitTokensType
  <2> HIDE DEF p, d
  <2> QED
    BY <2>1, <2>2, <1>6
<1> HIDE DEF p, d
<1> QED
  BY <1>4, <1>5, <1>6, <1>7, NumberAppend

(* Any number that is not negative comes back when stringToInteger() reads *)
(* what integerToString() wrote.                                           *)
THEOREM IntegerTextIsRead ==
  ASSUME NEW n \in Nat
  PROVE  IntegerOf(IntegerText(n)) = n
BY IntegerOfDigits DEF IntegerText

LEMMA IntegerTextType ==
  ASSUME NEW n \in Int
  PROVE  IntegerText(n) \in Seq(Tokens)
<1>1. CASE n < 0
  <2>1. -n \in Nat /\ "-" \in Tokens
    <3>1. -n \in Nat
      BY <1>1
    <3>2. "-" \in Tokens
      BY TokensType
    <3> QED
      BY <3>1, <3>2
  <2>2. Digits[-n] \in Seq(Tokens) /\ Len(Digits[-n]) \in Nat
    BY <2>1, DigitsDef
  <2>3. Digits[-n] # <<>>
    <3>1. Digits[-n] = (IF -n < 10 THEN <<>> ELSE Digits[(-n) \div 10]) \o <<DigitTokens[((-n) % 10) + 1]>>
      BY <2>1, DigitsDef
    <3>2. (IF -n < 10 THEN <<>> ELSE Digits[(-n) \div 10]) \in Seq(Tokens)
      <4>1. (-n) \div 10 \in Nat
        BY <2>1
      <4> QED
        BY <4>1, DigitsDef
    <3>3. (-n) % 10 \in 0 .. 9
      BY <2>1
    <3>4. DigitTokens[((-n) % 10) + 1] \in Tokens
      BY <3>3, DigitTokensType
    <3>5. \A s \in Seq(Tokens) : \A x \in Tokens : s \o <<x>> # <<>>
      OBVIOUS
    <3> QED
      BY <3>1, <3>2, <3>4, <3>5
  <2>4. Front(Digits[-n]) \in Seq(Tokens)
    BY <2>2, <2>3 DEF Front
  <2> QED
    BY <1>1, <2>1, <2>4 DEF IntegerText
<1>2. CASE ~(n < 0)
  BY <1>2, DigitsDef DEF IntegerText
<1> QED
  BY <1>1, <1>2

-----------------------------------------------------------------------------
(* The line reader.                                                        *)

Places == {"start", "comment", "stray", "dot", "name", "spaces", "value", "bare", "bad"}

ReaderStates ==
  [place : Places, elem : Tokens \union {"none"}, value : Seq(Tokens),
   settings : [ElementNames -> Int], given : SUBSET ElementNames,
   empty : BOOLEAN, clean : BOOLEAN]

LEMMA EmptyText == <<>> \in Seq(Tokens) /\ Len(<<>>) = 0
OBVIOUS

LEMMA NewlineType == <<"nl">> \in Seq(Tokens)
<1>1. \A x \in Tokens : <<x>> \in Seq(Tokens)
  OBVIOUS
<1>2. "nl" \in Tokens
  BY TokensType
<1> QED
  BY <1>1, <1>2

LEMMA AppendFacts ==
  ASSUME NEW f \in Seq(Tokens), NEW x \in Tokens
  PROVE  /\ Append(f, x) \in Seq(Tokens)
         /\ Len(f) \in Nat /\ Len(Append(f, x)) = Len(f) + 1
         /\ \A n \in 1 .. Len(f) : Append(f, x)[n] = f[n]
         /\ Append(f, x)[Len(f) + 1] = x
OBVIOUS

LEMMA UnreadType == Unread \in ReaderStates
<1>1. <<>> \in Seq(Tokens) /\ Default \in [ElementNames -> Int]
  <2>1. Default \in [ElementNames -> Int]
    BY ConfigAssumption
  <2> QED
    BY <2>1, EmptyText
<1> QED
  BY <1>1 DEF Unread, ReaderStates, Places

LEMMA EndOfValueType ==
  ASSUME NEW c \in ReaderStates
  PROVE  EndOfValue(c) \in ReaderStates
<1>1. IntegerOf(c.value) \in Int
  BY IntegerOfType DEF ReaderStates
<1> QED
  BY <1>1 DEF EndOfValue, ReaderStates, Places

LEMMA ReadTokenType ==
  ASSUME NEW c \in ReaderStates, NEW x \in Tokens
  PROVE  ReadToken(c, x) \in ReaderStates
<1> USE DEF ReaderStates, Places
<1>1. \A p \in Places : [c EXCEPT !.place = p] \in ReaderStates
  OBVIOUS
<1>2. AtStart(c, x) \in ReaderStates
  BY DEF AtStart
<1>3. AtDot(c, x) \in ReaderStates
  BY DEF AtDot
<1>4. AtName(c, x) \in ReaderStates
  <2>1. <<>> \in Seq(Tokens)
    BY EmptyText
  <2> QED
    BY <2>1 DEF AtName
<1>5. AtValue(c, x) \in ReaderStates
  <2>1. EndOfValue(c) \in ReaderStates
    BY EndOfValueType
  <2>2. [c EXCEPT !.place = "value", !.value = Append(@, x)] \in ReaderStates
    <3>1. Append(c.value, x) \in Seq(Tokens)
      <4>1. c.value \in Seq(Tokens)
        OBVIOUS
      <4> QED
        BY <4>1, AppendFacts
    <3> QED
      BY <3>1
  <2>3. [c EXCEPT !.place = "bad"] \in ReaderStates
    OBVIOUS
  <2> HIDE DEF ReaderStates, Places
  <2> QED
    BY <2>1, <2>2, <2>3 DEF AtValue
<1>6. [c EXCEPT !.place = CASE x = "nl" -> "start" [] x \in {"#", "."} -> "bad" [] OTHER -> "stray"]
        \in ReaderStates
  OBVIOUS
<1>7. [c EXCEPT !.place = IF x = "." THEN "dot" ELSE "bad"] \in ReaderStates
  OBVIOUS
<1>8. [c EXCEPT !.place = "start"] \in ReaderStates
  OBVIOUS
<1> HIDE DEF ReaderStates, Places
<1> QED
  BY <1>2, <1>3, <1>4, <1>5, <1>6, <1>7, <1>8 DEF ReadToken

LEMMA ReadingDef ==
  ASSUME NEW f \in Seq(Tokens)
  PROVE  /\ Reading(f)[0] = Unread
         /\ \A n \in 0 .. Len(f) : Reading(f)[n] \in ReaderStates
         /\ \A n \in 1 .. Len(f) : Reading(f)[n] = ReadToken(Reading(f)[n - 1], f[n])
<1> DEFINE step == [p \in ReaderStates \X Tokens |-> ReadToken(p[1], p[2])]
<1>1. Steps(Tokens, ReaderStates, Unread, step)
  <2>1. \A p \in ReaderStates \X Tokens : ReadToken(p[1], p[2]) \in ReaderStates
    BY ReadTokenType
  <2>2. step \in [ReaderStates \X Tokens -> ReaderStates]
    BY <2>1
  <2> QED
    BY <2>2, UnreadType DEF Steps
<1>2. PICK h : Along(h, f, Unread, step) /\ h \in [0 .. Len(f) -> ReaderStates]
  <2> HIDE DEF step
  <2> QED
    BY <1>1, AlongExists
<1>3. h = [n \in 0 .. Len(f) |-> IF n = 0 THEN Unread ELSE ReadToken(h[n - 1], f[n])]
  <2>1. ASSUME NEW n \in 0 .. Len(f), n # 0
        PROVE  step[<<h[n - 1], f[n]>>] = ReadToken(h[n - 1], f[n])
    <3>1. n - 1 \in 0 .. Len(f) /\ f[n] \in Tokens
      BY <2>1
    <3>2. <<h[n - 1], f[n]>> \in ReaderStates \X Tokens
      BY <1>2, <3>1
    <3> QED
      BY <3>2
  <2> HIDE DEF step
  <2> QED
    BY <1>2, <2>1 DEF Along
<1>4. Reading(f) = [n \in 0 .. Len(f) |->
                      IF n = 0 THEN Unread ELSE ReadToken(Reading(f)[n - 1], f[n])]
  BY <1>3 DEF Reading
<1>5. Len(f) \in Nat /\ 0 \in 0 .. Len(f)
  OBVIOUS
<1>6. Reading(f)[0] = Unread
  BY <1>4, <1>5
<1>7. \A n \in 1 .. Len(f) : Reading(f)[n] = ReadToken(Reading(f)[n - 1], f[n])
  BY <1>4, <1>5
<1> DEFINE S == {n \in 0 .. Len(f) : Reading(f)[n] \in ReaderStates}
<1>8. 0 \in S
  BY <1>5, <1>6, UnreadType
<1>9. ASSUME NEW n \in 1 .. Len(f), n - 1 \in S
      PROVE  n \in S
  <2>1. Reading(f)[n - 1] \in ReaderStates /\ f[n] \in Tokens
    BY <1>9
  <2> QED
    BY <2>1, <1>7, ReadTokenType
<1>10. 0 .. Len(f) \subseteq S
  <2> HIDE DEF S
  <2> QED
    BY <1>5, <1>8, <1>9, Bounded
<1> QED
  BY <1>6, <1>7, <1>10

LEMMA ReadingPrefix ==
  ASSUME NEW f \in Seq(Tokens), NEW g \in Seq(Tokens), NEW m \in Nat, m <= Len(f), m <= Len(g),
         \A n \in 1 .. m : f[n] = g[n]
  PROVE  Reading(f)[m] = Reading(g)[m]
<1>1. Len(f) \in Nat /\ Len(g) \in Nat
  OBVIOUS
<1> DEFINE S == {n \in 0 .. m : Reading(f)[n] = Reading(g)[n]}
<1>2. 0 \in S
  BY ReadingDef
<1>3. ASSUME NEW n \in 1 .. m, n - 1 \in S
      PROVE  n \in S
  <2>1. n \in 1 .. Len(f) /\ n \in 1 .. Len(g)
    BY <1>1
  <2>2. Reading(f)[n] = ReadToken(Reading(f)[n - 1], f[n])
    BY <2>1, ReadingDef
  <2>3. Reading(g)[n] = ReadToken(Reading(g)[n - 1], g[n])
    BY <2>1, ReadingDef
  <2>4. f[n] = g[n] /\ Reading(f)[n - 1] = Reading(g)[n - 1]
    BY <1>3
  <2> QED
    BY <2>2, <2>3, <2>4
<1>4. 0 .. m \subseteq S
  <2> HIDE DEF S
  <2> QED
    BY <1>2, <1>3, Bounded
<1> QED
  BY <1>4

LEMMA ReadEmpty == Read(<<>>) = Unread
<1>1. <<>> \in Seq(Tokens) /\ Len(<<>>) = 0
  OBVIOUS
<1> QED
  BY <1>1, ReadingDef DEF Read

LEMMA ReadType ==
  ASSUME NEW f \in Seq(Tokens)
  PROVE  Read(f) \in ReaderStates
<1>1. Len(f) \in 0 .. Len(f)
  OBVIOUS
<1> QED
  BY <1>1, ReadingDef DEF Read

LEMMA ReadAppend ==
  ASSUME NEW f \in Seq(Tokens), NEW x \in Tokens
  PROVE  Read(Append(f, x)) = ReadToken(Read(f), x)
<1> DEFINE g == Append(f, x)
<1>1. /\ g \in Seq(Tokens) /\ Len(f) \in Nat /\ Len(g) = Len(f) + 1
      /\ \A n \in 1 .. Len(f) : g[n] = f[n]
      /\ g[Len(f) + 1] = x
  BY AppendFacts
<1> HIDE DEF g
<1>2. Reading(g)[Len(f)] = Reading(f)[Len(f)]
  <2>1. Len(f) <= Len(g) /\ Len(f) <= Len(f)
    BY <1>1
  <2> QED
    BY <1>1, <2>1, ReadingPrefix
<1>3. Reading(g)[Len(f) + 1] = ReadToken(Reading(g)[Len(f)], x)
  <2>1. Len(f) + 1 \in 1 .. Len(g) /\ (Len(f) + 1) - 1 = Len(f)
    BY <1>1
  <2> QED
    BY <1>1, <2>1, ReadingDef
<1>4. Read(g) = ReadToken(Read(f), x)
  BY <1>1, <1>2, <1>3 DEF Read
<1> QED
  BY <1>4 DEF g

LEMMA ReadingIsRead ==
  ASSUME NEW f \in Seq(Tokens), NEW n \in 0 .. Len(f)
  PROVE  Reading(f)[n] = Read(SubSeq(f, 1, n))
<1> DEFINE g == SubSeq(f, 1, n)
<1>1. /\ g \in Seq(Tokens) /\ Len(g) = n /\ n \in Nat /\ n <= Len(f)
      /\ \A i \in 1 .. n : f[i] = g[i]
  OBVIOUS
<1> HIDE DEF g
<1>2. Reading(f)[n] = Reading(g)[n]
  BY <1>1, ReadingPrefix
<1> QED
  BY <1>1, <1>2 DEF Read, g

-----------------------------------------------------------------------------
(* The line writer.                                                        *)

Values == [ElementNames -> Int]
WriterStates == [text : Seq(Tokens), base : Seq(Tokens)]

LEMMA TextAfterType ==
  ASSUME NEW v \in Values, NEW c \in ReaderStates, NEW x \in Tokens, NEW t \in WriterStates
  PROVE  TextAfter(v, c, x, t) \in Seq(Tokens)
<1>1. t.text \in Seq(Tokens) /\ t.base \in Seq(Tokens)
  BY DEF WriterStates
<1>2. Append(t.text, x) \in Seq(Tokens) /\ Append(t.base, "nl") \in Seq(Tokens)
  BY <1>1, AppendFacts, TokensType
<1>3. CASE c.place \in {"spaces", "value"} /\ c.elem \in ElementNames /\ x = "nl"
  <2>1. IntegerText(v[c.elem]) \in Seq(Tokens)
    BY <1>3, IntegerTextType DEF Values
  <2>2. <<"nl">> \in Seq(Tokens)
    BY NewlineType
  <2>3. t.text \o IntegerText(v[c.elem]) \o <<"nl">> \in Seq(Tokens)
    BY <1>1, <2>1, <2>2
  <2> QED
    BY <1>3, <2>3 DEF TextAfter
<1>4. CASE ~(c.place \in {"spaces", "value"} /\ c.elem \in ElementNames /\ x = "nl")
  BY <1>1, <1>2, <1>4 DEF TextAfter
<1> QED
  BY <1>3, <1>4

LEMMA WriteTokenType ==
  ASSUME NEW v \in Values, NEW c \in ReaderStates, NEW x \in Tokens, NEW t \in WriterStates
  PROVE  WriteToken(v, c, x, t) \in WriterStates
BY TextAfterType DEF WriteToken, WriterStates

LEMMA WritingDef ==
  ASSUME NEW f \in Seq(Tokens), NEW v \in Values
  PROVE  /\ Writing(f, v)[0] = Unwritten
         /\ \A n \in 0 .. Len(f) : Writing(f, v)[n] \in WriterStates
         /\ \A n \in 1 .. Len(f) :
              Writing(f, v)[n] = WriteToken(v, Reading(f)[n - 1], f[n], Writing(f, v)[n - 1])
<1> DEFINE step == [p \in (1 .. Len(f)) \X WriterStates |->
                      WriteToken(v, Reading(f)[p[1] - 1], f[p[1]], p[2])]
<1>1. Unwritten \in WriterStates
  BY EmptyText DEF Unwritten, WriterStates
<1>2. \A n \in 1 .. Len(f) : n - 1 \in 0 .. Len(f) /\ f[n] \in Tokens /\ Reading(f)[n - 1] \in ReaderStates
  <2> SUFFICES ASSUME NEW n \in 1 .. Len(f)
               PROVE  n - 1 \in 0 .. Len(f) /\ f[n] \in Tokens /\ Reading(f)[n - 1] \in ReaderStates
    OBVIOUS
  <2>1. n - 1 \in 0 .. Len(f) /\ f[n] \in Tokens
    OBVIOUS
  <2> QED
    BY <2>1, ReadingDef
<1>3. Counts(Len(f), WriterStates, Unwritten, step)
  <2>1. ASSUME NEW p \in (1 .. Len(f)) \X WriterStates
        PROVE  WriteToken(v, Reading(f)[p[1] - 1], f[p[1]], p[2]) \in WriterStates
    <3>1. p[1] \in 1 .. Len(f) /\ p[2] \in WriterStates
      OBVIOUS
    <3> QED
      BY <3>1, <1>2, WriteTokenType
  <2>2. step \in [(1 .. Len(f)) \X WriterStates -> WriterStates]
    BY <2>1
  <2>3. Len(f) \in Nat
    OBVIOUS
  <2> QED
    BY <2>2, <2>3, <1>1 DEF Counts
<1>4. PICK h : /\ h \in [0 .. Len(f) -> WriterStates]
               /\ h = [n \in 0 .. Len(f) |-> IF n = 0 THEN Unwritten ELSE step[<<n, h[n - 1]>>]]
  <2> HIDE DEF step
  <2> QED
    BY <1>3, CountedRecursion
<1>5. h = [n \in 0 .. Len(f) |-> IF n = 0 THEN Unwritten
             ELSE WriteToken(v, Reading(f)[n - 1], f[n], h[n - 1])]
  <2>1. ASSUME NEW n \in 0 .. Len(f), n # 0
        PROVE  step[<<n, h[n - 1]>>] = WriteToken(v, Reading(f)[n - 1], f[n], h[n - 1])
    <3>1. n \in 1 .. Len(f) /\ n - 1 \in 0 .. Len(f)
      BY <2>1
    <3>2. h[n - 1] \in WriterStates
      BY <1>4, <3>1
    <3>3. <<n, h[n - 1]>> \in (1 .. Len(f)) \X WriterStates
      BY <3>1, <3>2
    <3> QED
      BY <3>3
  <2> HIDE DEF step
  <2> QED
    BY <1>4, <2>1
<1>6. Writing(f, v) = [n \in 0 .. Len(f) |-> IF n = 0 THEN Unwritten
             ELSE WriteToken(v, Reading(f)[n - 1], f[n], Writing(f, v)[n - 1])]
  BY <1>5 DEF Writing
<1>7. Len(f) \in Nat /\ 0 \in 0 .. Len(f)
  OBVIOUS
<1>8. Writing(f, v)[0] = Unwritten
  BY <1>6, <1>7
<1>9. \A n \in 1 .. Len(f) :
        Writing(f, v)[n] = WriteToken(v, Reading(f)[n - 1], f[n], Writing(f, v)[n - 1])
  BY <1>6, <1>7
<1> DEFINE S == {n \in 0 .. Len(f) : Writing(f, v)[n] \in WriterStates}
<1>10. 0 \in S
  BY <1>1, <1>7, <1>8
<1>11. ASSUME NEW n \in 1 .. Len(f), n - 1 \in S
       PROVE  n \in S
  <2>1. Writing(f, v)[n - 1] \in WriterStates
    BY <1>11
  <2> QED
    BY <2>1, <1>2, <1>9, WriteTokenType
<1>12. 0 .. Len(f) \subseteq S
  <2> HIDE DEF S
  <2> QED
    BY <1>7, <1>10, <1>11, Bounded
<1> QED
  BY <1>8, <1>9, <1>12

LEMMA WritingPrefix ==
  ASSUME NEW f \in Seq(Tokens), NEW g \in Seq(Tokens), NEW m \in Nat, m <= Len(f), m <= Len(g),
         \A n \in 1 .. m : f[n] = g[n], NEW v \in Values
  PROVE  Writing(f, v)[m] = Writing(g, v)[m]
<1>1. Len(f) \in Nat /\ Len(g) \in Nat
  OBVIOUS
<1> DEFINE S == {n \in 0 .. m : Writing(f, v)[n] = Writing(g, v)[n]}
<1>2. 0 \in S
  BY WritingDef
<1>3. ASSUME NEW n \in 1 .. m, n - 1 \in S
      PROVE  n \in S
  <2>1. n \in 1 .. Len(f) /\ n \in 1 .. Len(g)
    BY <1>1
  <2>2. Writing(f, v)[n] = WriteToken(v, Reading(f)[n - 1], f[n], Writing(f, v)[n - 1])
    BY <2>1, WritingDef
  <2>3. Writing(g, v)[n] = WriteToken(v, Reading(g)[n - 1], g[n], Writing(g, v)[n - 1])
    BY <2>1, WritingDef
  <2>4. f[n] = g[n] /\ Writing(f, v)[n - 1] = Writing(g, v)[n - 1]
    BY <1>3
  <2>5. Reading(f)[n - 1] = Reading(g)[n - 1]
    <3>1. n - 1 \in Nat /\ n - 1 <= Len(f) /\ n - 1 <= Len(g) /\ \A i \in 1 .. n - 1 : f[i] = g[i]
      BY <1>1
    <3> QED
      BY <3>1, ReadingPrefix
  <2> QED
    BY <2>2, <2>3, <2>4, <2>5
<1>4. 0 .. m \subseteq S
  <2> HIDE DEF S
  <2> QED
    BY <1>2, <1>3, Bounded
<1> QED
  BY <1>4

LEMMA RewrittenEmpty ==
  ASSUME NEW v \in Values
  PROVE  Rewritten(<<>>, v) = Unwritten
<1>1. <<>> \in Seq(Tokens) /\ Len(<<>>) = 0
  OBVIOUS
<1> QED
  BY <1>1, WritingDef DEF Rewritten

LEMMA RewrittenType ==
  ASSUME NEW f \in Seq(Tokens), NEW v \in Values
  PROVE  Rewritten(f, v) \in WriterStates
<1>1. Len(f) \in 0 .. Len(f)
  OBVIOUS
<1> QED
  BY <1>1, WritingDef DEF Rewritten

LEMMA RewrittenAppend ==
  ASSUME NEW f \in Seq(Tokens), NEW x \in Tokens, NEW v \in Values
  PROVE  Rewritten(Append(f, x), v) = WriteToken(v, Read(f), x, Rewritten(f, v))
<1> DEFINE g == Append(f, x)
<1>1. /\ g \in Seq(Tokens) /\ Len(f) \in Nat /\ Len(g) = Len(f) + 1
      /\ \A n \in 1 .. Len(f) : g[n] = f[n]
      /\ g[Len(f) + 1] = x
  BY AppendFacts
<1> HIDE DEF g
<1>2. /\ Writing(g, v)[Len(f)] = Writing(f, v)[Len(f)]
      /\ Reading(g)[Len(f)] = Reading(f)[Len(f)]
  <2>1. Len(f) <= Len(g) /\ Len(f) <= Len(f)
    BY <1>1
  <2> QED
    BY <1>1, <2>1, WritingPrefix, ReadingPrefix
<1>3. Writing(g, v)[Len(f) + 1] = WriteToken(v, Reading(g)[Len(f)], x, Writing(g, v)[Len(f)])
  <2>1. Len(f) + 1 \in 1 .. Len(g) /\ (Len(f) + 1) - 1 = Len(f)
    BY <1>1
  <2> QED
    BY <1>1, <2>1, WritingDef
<1>4. Rewritten(g, v) = WriteToken(v, Read(f), x, Rewritten(f, v))
  BY <1>1, <1>2, <1>3 DEF Read, Rewritten
<1> QED
  BY <1>4 DEF g

LEMMA WritingIsRewritten ==
  ASSUME NEW f \in Seq(Tokens), NEW n \in 0 .. Len(f), NEW v \in Values
  PROVE  Writing(f, v)[n] = Rewritten(SubSeq(f, 1, n), v)
<1> DEFINE g == SubSeq(f, 1, n)
<1>1. /\ g \in Seq(Tokens) /\ Len(g) = n /\ n \in Nat /\ n <= Len(f)
      /\ \A i \in 1 .. n : f[i] = g[i]
  OBVIOUS
<1> HIDE DEF g
<1>2. Writing(f, v)[n] = Writing(g, v)[n]
  BY <1>1, WritingPrefix
<1> QED
  BY <1>1, <1>2 DEF Rewritten, g

-----------------------------------------------------------------------------
(* The lines of a file.                                                    *)

LineStates == [kept : SUBSET Seq(Tokens), line : Seq(Tokens)]
NoLine == [kept |-> {}, line |-> <<>>]

LEMMA LineTokenType ==
  ASSUME NEW l \in LineStates, NEW x \in Tokens
  PROVE  LineToken(l, x) \in LineStates
<1>1. l.line \in Seq(Tokens) /\ l.kept \in SUBSET Seq(Tokens)
  BY DEF LineStates
<1>2. Append(l.line, x) \in Seq(Tokens)
  BY <1>1, AppendFacts
<1> QED
  BY <1>1, <1>2, EmptyText DEF LineToken, LineStates

LEMMA LinesDef ==
  ASSUME NEW f \in Seq(Tokens)
  PROVE  /\ Lines(f)[0] = NoLine
         /\ \A n \in 0 .. Len(f) : Lines(f)[n] \in LineStates
         /\ \A n \in 1 .. Len(f) : Lines(f)[n] = LineToken(Lines(f)[n - 1], f[n])
<1> DEFINE step == [p \in LineStates \X Tokens |-> LineToken(p[1], p[2])]
<1>0. NoLine \in LineStates
  BY EmptyText DEF NoLine, LineStates
<1>1. Steps(Tokens, LineStates, NoLine, step)
  <2>1. \A p \in LineStates \X Tokens : LineToken(p[1], p[2]) \in LineStates
    BY LineTokenType
  <2>2. step \in [LineStates \X Tokens -> LineStates]
    BY <2>1
  <2> QED
    BY <2>2, <1>0 DEF Steps
<1>2. PICK h : Along(h, f, NoLine, step) /\ h \in [0 .. Len(f) -> LineStates]
  <2> HIDE DEF step
  <2> QED
    BY <1>1, AlongExists
<1>3. h = [n \in 0 .. Len(f) |-> IF n = 0 THEN NoLine ELSE LineToken(h[n - 1], f[n])]
  <2>1. ASSUME NEW n \in 0 .. Len(f), n # 0
        PROVE  step[<<h[n - 1], f[n]>>] = LineToken(h[n - 1], f[n])
    <3>1. n - 1 \in 0 .. Len(f) /\ f[n] \in Tokens
      BY <2>1
    <3>2. <<h[n - 1], f[n]>> \in LineStates \X Tokens
      BY <1>2, <3>1
    <3> QED
      BY <3>2
  <2> HIDE DEF step
  <2> QED
    BY <1>2, <2>1 DEF Along
<1>4. Lines(f) = [n \in 0 .. Len(f) |-> IF n = 0 THEN NoLine ELSE LineToken(Lines(f)[n - 1], f[n])]
  BY <1>3 DEF Lines, NoLine
<1>5. Len(f) \in Nat /\ 0 \in 0 .. Len(f)
  OBVIOUS
<1>6. Lines(f)[0] = NoLine
  BY <1>4, <1>5
<1>7. \A n \in 1 .. Len(f) : Lines(f)[n] = LineToken(Lines(f)[n - 1], f[n])
  BY <1>4, <1>5
<1> DEFINE S == {n \in 0 .. Len(f) : Lines(f)[n] \in LineStates}
<1>8. 0 \in S
  BY <1>0, <1>5, <1>6
<1>9. ASSUME NEW n \in 1 .. Len(f), n - 1 \in S
      PROVE  n \in S
  <2>1. Lines(f)[n - 1] \in LineStates /\ f[n] \in Tokens
    BY <1>9
  <2> QED
    BY <2>1, <1>7, LineTokenType
<1>10. 0 .. Len(f) \subseteq S
  <2> HIDE DEF S
  <2> QED
    BY <1>5, <1>8, <1>9, Bounded
<1> QED
  BY <1>6, <1>7, <1>10

LEMMA LinesPrefix ==
  ASSUME NEW f \in Seq(Tokens), NEW g \in Seq(Tokens), NEW m \in Nat, m <= Len(f), m <= Len(g),
         \A n \in 1 .. m : f[n] = g[n]
  PROVE  Lines(f)[m] = Lines(g)[m]
<1>1. Len(f) \in Nat /\ Len(g) \in Nat
  OBVIOUS
<1> DEFINE S == {n \in 0 .. m : Lines(f)[n] = Lines(g)[n]}
<1>2. 0 \in S
  BY LinesDef
<1>3. ASSUME NEW n \in 1 .. m, n - 1 \in S
      PROVE  n \in S
  <2>1. n \in 1 .. Len(f) /\ n \in 1 .. Len(g)
    BY <1>1
  <2>2. Lines(f)[n] = LineToken(Lines(f)[n - 1], f[n])
    BY <2>1, LinesDef
  <2>3. Lines(g)[n] = LineToken(Lines(g)[n - 1], g[n])
    BY <2>1, LinesDef
  <2>4. f[n] = g[n] /\ Lines(f)[n - 1] = Lines(g)[n - 1]
    BY <1>3
  <2> QED
    BY <2>2, <2>3, <2>4
<1>4. 0 .. m \subseteq S
  <2> HIDE DEF S
  <2> QED
    BY <1>2, <1>3, Bounded
<1> QED
  BY <1>4

LinesOf(f) == Lines(f)[Len(f)]

LEMMA LinesAppend ==
  ASSUME NEW f \in Seq(Tokens), NEW x \in Tokens
  PROVE  /\ LinesOf(f) \in LineStates
         /\ LinesOf(Append(f, x)) = LineToken(LinesOf(f), x)
<1> DEFINE g == Append(f, x)
<1>1. /\ g \in Seq(Tokens) /\ Len(f) \in Nat /\ Len(g) = Len(f) + 1
      /\ \A n \in 1 .. Len(f) : g[n] = f[n]
      /\ g[Len(f) + 1] = x
  BY AppendFacts
<1> HIDE DEF g
<1>2. Lines(g)[Len(f)] = Lines(f)[Len(f)]
  <2>1. Len(f) <= Len(g) /\ Len(f) <= Len(f)
    BY <1>1
  <2> QED
    BY <1>1, <2>1, LinesPrefix
<1>3. Lines(g)[Len(f) + 1] = LineToken(Lines(g)[Len(f)], x)
  <2>1. Len(f) + 1 \in 1 .. Len(g) /\ (Len(f) + 1) - 1 = Len(f)
    BY <1>1
  <2> QED
    BY <1>1, <2>1, LinesDef
<1>4. LinesOf(f) \in LineStates
  <2>1. Len(f) \in 0 .. Len(f)
    BY <1>1
  <2> QED
    BY <2>1, LinesDef DEF LinesOf
<1>5. LinesOf(g) = LineToken(LinesOf(f), x)
  BY <1>1, <1>2, <1>3 DEF LinesOf
<1> QED
  BY <1>4, <1>5 DEF g

LEMMA LinesEmpty == LinesOf(<<>>) = NoLine
BY EmptyText, LinesDef DEF LinesOf

-----------------------------------------------------------------------------
(* The scanner.                                                            *)

LEMMA StopFacts ==
  ASSUME NEW f \in Seq(Tokens), f # <<>>, NEW found, found \subseteq 1 .. Len(f)
  PROVE  /\ Stop(f, found) \in found \union {Len(f)}
         /\ Stop(f, found) \in 1 .. Len(f)
         /\ \A k \in found \union {Len(f)} : Stop(f, found) <= k
<1> DEFINE S == found \union {Len(f)}
<1>1. S \in SUBSET Nat /\ S \subseteq 1 .. Len(f) /\ S # {}
  <2>1. Len(f) \in Nat /\ Len(f) >= 1
    OBVIOUS
  <2>2. Len(f) \in 1 .. Len(f) /\ 1 .. Len(f) \subseteq Nat
    BY <2>1
  <2> QED
    BY <2>2
<1>2. \E m \in S : \A k \in S : m <= k
  <2> HIDE DEF S
  <2> QED
    BY <1>1, LeastElement
<1>3. Min(S) \in S /\ \A k \in S : Min(S) <= k
  BY <1>2 DEF Min
<1> QED
  BY <1>1, <1>3 DEF Stop

LEMMA LineEndFacts ==
  ASSUME NEW f \in Seq(Tokens), NEW n \in 1 .. Len(f)
  PROVE  /\ LineEnd(f, n) \in n .. Len(f)
         /\ f[LineEnd(f, n)] = "nl" \/ LineEnd(f, n) = Len(f)
         /\ \A i \in n .. LineEnd(f, n) - 1 : f[i] # "nl"
<1> DEFINE found == {i \in n .. Len(f) : f[i] = "nl"}
           e == Stop(f, found)
<1>1. f # <<>> /\ Len(f) \in Nat /\ found \subseteq 1 .. Len(f)
  OBVIOUS
<1>2. e \in found \union {Len(f)} /\ e \in 1 .. Len(f) /\ \A k \in found \union {Len(f)} : e <= k
  <2> HIDE DEF found
  <2> QED
    BY <1>1, StopFacts
<1>3. LineEnd(f, n) = e
  BY DEF LineEnd
<1> HIDE DEF e
<1> QED
  BY <1>1, <1>2, <1>3

LEMMA ValueStartFacts ==
  ASSUME NEW f \in Seq(Tokens), NEW n \in 1 .. Len(f)
  PROVE  /\ ValueStart(f, n + 1) \in n .. Len(f)
         /\ n < Len(f) => ValueStart(f, n + 1) \in n + 1 .. Len(f)
         /\ f[ValueStart(f, n + 1)] # "sp" \/ ValueStart(f, n + 1) = Len(f)
         /\ \A i \in n + 1 .. ValueStart(f, n + 1) - 1 : f[i] = "sp"
<1> DEFINE found == {i \in n + 1 .. Len(f) : f[i] # "sp"}
           e == Stop(f, found)
<1>1. f # <<>> /\ Len(f) \in Nat /\ n \in Nat /\ n >= 1 /\ n <= Len(f)
  OBVIOUS
<1>2. found \subseteq 1 .. Len(f)
  <2>1. found \subseteq n + 1 .. Len(f)
    OBVIOUS
  <2>2. n + 1 .. Len(f) \subseteq 1 .. Len(f)
    BY <1>1
  <2> QED
    BY <2>1, <2>2
<1>3. e \in found \union {Len(f)} /\ e \in 1 .. Len(f) /\ \A k \in found \union {Len(f)} : e <= k
  <2> HIDE DEF found
  <2> QED
    BY <1>1, <1>2, StopFacts
<1>4. ValueStart(f, n + 1) = e
  BY DEF ValueStart
<1> HIDE DEF e
<1>5. e \in n .. Len(f) /\ (n < Len(f) => e \in n + 1 .. Len(f))
  <2>1. e \in n + 1 .. Len(f) \/ e = Len(f)
    <3>1. found \subseteq n + 1 .. Len(f)
      OBVIOUS
    <3> HIDE DEF found
    <3> QED
      BY <1>3, <3>1
  <2> QED
    BY <1>1, <2>1
<1>6. f[e] # "sp" \/ e = Len(f)
  BY <1>3
<1>7. ASSUME NEW i \in n + 1 .. e - 1
      PROVE  f[i] = "sp"
  <2>1. i \in n + 1 .. Len(f) /\ i \in Int /\ ~(e <= i)
    BY <1>1, <1>5
  <2>2. i \notin found
    <3> HIDE DEF found
    <3> QED
      BY <1>3, <2>1
  <2> QED
    BY <2>1, <2>2
<1> QED
  BY <1>4, <1>5, <1>6, <1>7

ScanStates(f) ==
  [resume : Nat,
   state : {"inited", "begin_field", "got_field", "begin_value", "got_value"},
   fieldBegin : Nat \ {0}, elem : Tokens \union {"none"},
   valueBegin : Nat \ {0}, valueEnd : 1 .. Len(f) \union {1},
   settings : Values, stuck : BOOLEAN,
   text : Seq(Tokens), saved : SUBSET ElementNames, out : {"ok", "failed", "fault"}]

LEMMA SubSeqType ==
  ASSUME NEW f \in Seq(Tokens), NEW a \in Nat \ {0}, NEW b \in Int, b <= Len(f)
  PROVE  SubSeq(f, a, b) \in Seq(Tokens)
OBVIOUS

LEMMA PutType ==
  ASSUME NEW f \in Seq(Tokens), NEW s \in ScanStates(f), NEW t \in Seq(Tokens)
  PROVE  Put(s, t) \in ScanStates(f)
<1>1. s.text \o t \in Seq(Tokens)
  <2>1. s.text \in Seq(Tokens)
    BY DEF ScanStates
  <2> QED
    BY <2>1
<1> QED
  BY <1>1 DEF Put, ScanStates

LEMMA ReadCommentType ==
  ASSUME NEW f \in Seq(Tokens), NEW n \in 1 .. Len(f), NEW s \in ScanStates(f)
  PROVE  ReadComment(f, n, s) \in ScanStates(f)
<1> DEFINE e == LineEnd(f, n)
<1>1. e \in n .. Len(f) /\ Len(f) \in Nat
  BY LineEndFacts
<1> HIDE DEF e
<1>2. SubSeq(f, n, e - 1) \in Seq(Tokens)
  BY <1>1, SubSeqType
<1>3. Put(s, SubSeq(f, n, e - 1)) \in ScanStates(f)
  BY <1>2, PutType
<1>4. [Put(s, SubSeq(f, n, e - 1)) EXCEPT !.resume = e] \in ScanStates(f)
  <2> DEFINE u == Put(s, SubSeq(f, n, e - 1))
  <2> HIDE DEF u
  <2>1. u \in ScanStates(f) /\ e \in Nat
    BY <1>1, <1>3 DEF u
  <2>2. [u EXCEPT !.resume = e] \in ScanStates(f)
    BY <2>1 DEF ScanStates
  <2> QED
    BY <2>2 DEF u
<1>5. [s EXCEPT !.stuck = TRUE, !.out = IF @ = "ok" THEN "failed" ELSE @] \in ScanStates(f)
  BY DEF ScanStates
<1> QED
  BY <1>4, <1>5 DEF ReadComment, e

LEMMA ReadFieldType ==
  ASSUME NEW f \in Seq(Tokens), NEW n \in 1 .. Len(f), NEW s \in ScanStates(f)
  PROVE  ReadField(f, n, s) \in ScanStates(f)
<1> DEFINE b == ValueStart(f, n + 1)
           u == Put(s, SubSeq(f, s.fieldBegin, b - 1))
<1>1. b \in n .. Len(f) /\ Len(f) \in Nat
  <2>1. Len(f) \in Nat
    OBVIOUS
  <2> QED
    BY <2>1, ValueStartFacts
<1>2. SubSeq(f, s.fieldBegin, b - 1) \in Seq(Tokens)
  <2>1. s.fieldBegin \in Nat \ {0}
    BY DEF ScanStates
  <2> HIDE DEF b
  <2> QED
    BY <1>1, <2>1, SubSeqType
<1>3. u \in ScanStates(f)
  BY <1>2, PutType
<1>4. [u EXCEPT !.resume = b, !.state = "begin_value", !.valueBegin = b] \in ScanStates(f)
  <2>1. b \in Nat \ {0}
    BY <1>1
  <2> HIDE DEF b, u
  <2> QED
    BY <1>3, <2>1 DEF ScanStates
<1> QED
  BY <1>4 DEF ReadField

LEMMA ReadValueType ==
  ASSUME NEW f \in Seq(Tokens), NEW v \in Values, NEW s \in ScanStates(f), f # <<>>
  PROVE  ReadValue(f, v, s) \in ScanStates(f)
<1> DEFINE text == SubSeq(f, s.valueBegin, s.valueEnd)
<1>1. text \in Seq(Tokens)
  <2>1. s.valueBegin \in Nat \ {0} /\ s.valueEnd \in 1 .. Len(f) \union {1}
    BY DEF ScanStates
  <2>2. Len(f) \in Nat /\ Len(f) >= 1
    OBVIOUS
  <2>3. s.valueEnd \in Int /\ s.valueEnd <= Len(f)
    BY <2>1, <2>2
  <2> QED
    BY <2>1, <2>3, SubSeqType
<1> HIDE DEF text
<1>2. CASE s.elem \in ElementNames
  <2> DEFINE u == Put(s, IntegerText(v[s.elem]))
  <2>1. IntegerText(v[s.elem]) \in Seq(Tokens) /\ IntegerOf(text) \in Int
    BY <1>1, <1>2, IntegerTextType, IntegerOfType DEF Values
  <2>2. u \in ScanStates(f)
    BY <2>1, PutType
  <2>3. [u EXCEPT !.settings[s.elem] = IntegerOf(text), !.saved = @ \union {s.elem}, !.state = "got_value"]
          \in ScanStates(f)
    <3> HIDE DEF u
    <3> QED
      BY <1>2, <2>1, <2>2 DEF ScanStates, Values
  <2> QED
    BY <1>2, <2>3 DEF ReadValue, text
<1>3. CASE s.elem \notin ElementNames
  <2> DEFINE u == Put(s, text)
  <2>1. u \in ScanStates(f)
    BY <1>1, PutType
  <2>2. [u EXCEPT !.state = "got_value"] \in ScanStates(f)
    <3> HIDE DEF u
    <3> QED
      BY <2>1 DEF ScanStates
  <2>3. [s EXCEPT !.out = IF @ = "ok" THEN "fault" ELSE @, !.state = "got_value"] \in ScanStates(f)
    BY DEF ScanStates
  <2> QED
    BY <1>3, <2>2, <2>3 DEF ReadValue, text
<1> QED
  BY <1>2, <1>3

LEMMA ScanStepType ==
  ASSUME NEW f \in Seq(Tokens), NEW v \in Values, NEW n \in 1 .. Len(f), NEW s \in ScanStates(f)
  PROVE  ScanStep(f, v, n, s) \in ScanStates(f)
<1> DEFINE newline == IF f[n] = "nl" THEN <<"nl">> ELSE <<>>
<1>1. newline \in Seq(Tokens)
  BY NewlineType, EmptyText
<1> HIDE DEF newline
<1>0. n \in Nat \ {0} /\ f[n] \in Tokens /\ f # <<>>
  OBVIOUS
<1>2. ReadComment(f, n, s) \in ScanStates(f) /\ ReadField(f, n, s) \in ScanStates(f)
  BY ReadCommentType, ReadFieldType
<1>3. [s EXCEPT !.state = "begin_field", !.fieldBegin = n] \in ScanStates(f)
  BY <1>0 DEF ScanStates
<1>4. Put([s EXCEPT !.state = "got_field", !.elem = f[n]], newline) \in ScanStates(f)
  <2>1. [s EXCEPT !.state = "got_field", !.elem = f[n]] \in ScanStates(f)
    BY <1>0 DEF ScanStates
  <2> QED
    BY <1>1, <2>1, PutType
<1>5. Put(ReadValue(f, v, s), newline) \in ScanStates(f)
  <2>1. ReadValue(f, v, s) \in ScanStates(f)
    BY <1>0, ReadValueType
  <2> QED
    BY <1>1, <2>1, PutType
<1>6. [s EXCEPT !.valueEnd = n] \in ScanStates(f)
  BY <1>0 DEF ScanStates
<1>7. Put(s, newline) \in ScanStates(f)
  BY <1>1, PutType
<1> QED
  BY <1>2, <1>3, <1>4, <1>5, <1>6, <1>7 DEF ScanStep, newline

LEMMA ScanDef ==
  ASSUME NEW f \in Seq(Tokens), NEW v \in Values
  PROVE  /\ Scan(f, v)[0] = Start
         /\ \A n \in 0 .. Len(f) : Scan(f, v)[n] \in ScanStates(f)
         /\ \A n \in 1 .. Len(f) : Scan(f, v)[n] = ScanStep(f, v, n, Scan(f, v)[n - 1])
<1> DEFINE step == [p \in (1 .. Len(f)) \X ScanStates(f) |-> ScanStep(f, v, p[1], p[2])]
<1>1. Start \in ScanStates(f)
  <2>1. Default \in Values
    BY ConfigAssumption DEF Values
  <2> QED
    BY <2>1, EmptyText DEF Start, ScanStates
<1>2. Counts(Len(f), ScanStates(f), Start, step)
  <2>1. ASSUME NEW p \in (1 .. Len(f)) \X ScanStates(f)
        PROVE  ScanStep(f, v, p[1], p[2]) \in ScanStates(f)
    <3>1. p[1] \in 1 .. Len(f) /\ p[2] \in ScanStates(f)
      OBVIOUS
    <3> QED
      BY <3>1, ScanStepType
  <2>2. step \in [(1 .. Len(f)) \X ScanStates(f) -> ScanStates(f)]
    BY <2>1
  <2>3. Len(f) \in Nat
    OBVIOUS
  <2> QED
    BY <2>2, <2>3, <1>1 DEF Counts
<1>3. PICK h : /\ h \in [0 .. Len(f) -> ScanStates(f)]
               /\ h = [n \in 0 .. Len(f) |-> IF n = 0 THEN Start ELSE step[<<n, h[n - 1]>>]]
  <2> HIDE DEF step
  <2> QED
    BY <1>2, CountedRecursion
<1>4. h = [n \in 0 .. Len(f) |-> IF n = 0 THEN Start ELSE ScanStep(f, v, n, h[n - 1])]
  <2>1. ASSUME NEW n \in 0 .. Len(f), n # 0
        PROVE  step[<<n, h[n - 1]>>] = ScanStep(f, v, n, h[n - 1])
    <3>1. n \in 1 .. Len(f) /\ n - 1 \in 0 .. Len(f)
      BY <2>1
    <3>2. h[n - 1] \in ScanStates(f)
      BY <1>3, <3>1
    <3>3. <<n, h[n - 1]>> \in (1 .. Len(f)) \X ScanStates(f)
      BY <3>1, <3>2
    <3> QED
      BY <3>3
  <2> HIDE DEF step
  <2> QED
    BY <1>3, <2>1
<1>5. Scan(f, v) = [n \in 0 .. Len(f) |->
                      IF n = 0 THEN Start ELSE ScanStep(f, v, n, Scan(f, v)[n - 1])]
  BY <1>4 DEF Scan
<1>6. Len(f) \in Nat /\ 0 \in 0 .. Len(f)
  OBVIOUS
<1>7. Scan(f, v)[0] = Start
  BY <1>5, <1>6
<1>8. \A n \in 1 .. Len(f) : Scan(f, v)[n] = ScanStep(f, v, n, Scan(f, v)[n - 1])
  BY <1>5, <1>6
<1> DEFINE S == {n \in 0 .. Len(f) : Scan(f, v)[n] \in ScanStates(f)}
<1>9. 0 \in S
  BY <1>1, <1>6, <1>7
<1>10. ASSUME NEW n \in 1 .. Len(f), n - 1 \in S
       PROVE  n \in S
  <2>1. Scan(f, v)[n - 1] \in ScanStates(f)
    BY <1>10
  <2> QED
    BY <2>1, <1>8, ScanStepType
<1>11. 0 .. Len(f) \subseteq S
  <2> HIDE DEF S
  <2> QED
    BY <1>6, <1>9, <1>10, Bounded
<1> QED
  BY <1>7, <1>8, <1>11

-----------------------------------------------------------------------------
(* writeDefaultValues().                                                   *)

LEMMA FiveTokens ==
  ASSUME NEW a \in Tokens, NEW b \in Tokens, NEW c \in Tokens, NEW d \in Tokens, NEW e \in Tokens
  PROVE  <<a, b, c, d, e>> \in Seq(Tokens)
OBVIOUS

LEMMA DefaultLineType ==
  ASSUME NEW e \in ElementNames, NEW v \in Values
  PROVE  DefaultLine(e, v) \in Seq(Tokens)
<1>1. /\ e \in Tokens /\ "." \in Tokens /\ "sp" \in Tokens /\ "=" \in Tokens
  BY ElementsType, TokensType
<1>3. <<".", e, "sp", "=", "sp">> \in Seq(Tokens)
  BY <1>1, FiveTokens
<1>4. IntegerText(v[e]) \in Seq(Tokens)
  BY IntegerTextType DEF Values
<1>5. \A p, q, r \in Seq(Tokens) : p \o q \o r \in Seq(Tokens)
  OBVIOUS
<1> QED
  BY <1>3, <1>4, <1>5, NewlineType DEF DefaultLine

LEMMA DefaultLinesDef ==
  ASSUME NEW saved, NEW v \in Values
  PROVE  /\ DefaultLines(saved, v)[0] = <<>>
         /\ \A n \in 0 .. Len(Elements) : DefaultLines(saved, v)[n] \in Seq(Tokens)
         /\ \A n \in 1 .. Len(Elements) : DefaultLines(saved, v)[n] =
              IF Elements[n] \in saved THEN DefaultLines(saved, v)[n - 1]
              ELSE (IF DefaultLines(saved, v)[n - 1] = <<>> THEN <<"nl">>
                    ELSE DefaultLines(saved, v)[n - 1]) \o DefaultLine(Elements[n], v)
<1> DEFINE Next1(t, e) == IF e \in saved THEN t
                          ELSE (IF t = <<>> THEN <<"nl">> ELSE t) \o DefaultLine(e, v)
           step == [p \in Seq(Tokens) \X ElementNames |-> Next1(p[1], p[2])]
<1>1. ASSUME NEW t \in Seq(Tokens), NEW e \in ElementNames
      PROVE  Next1(t, e) \in Seq(Tokens)
  <2>1. (IF t = <<>> THEN <<"nl">> ELSE t) \in Seq(Tokens)
    BY NewlineType
  <2>2. \A p, q \in Seq(Tokens) : p \o q \in Seq(Tokens)
    OBVIOUS
  <2> QED
    BY <2>1, <2>2, DefaultLineType
<1>2. Elements \in Seq(ElementNames)
  BY ElementsType DEF ElementNames
<1>3. Steps(ElementNames, Seq(Tokens), <<>>, step)
  <2>1. \A p \in Seq(Tokens) \X ElementNames : Next1(p[1], p[2]) \in Seq(Tokens)
    <3> HIDE DEF Next1
    <3> QED
      BY <1>1
  <2>2. step \in [Seq(Tokens) \X ElementNames -> Seq(Tokens)]
    <3> HIDE DEF Next1
    <3> QED
      BY <2>1
  <2> HIDE DEF step
  <2> QED
    BY <2>2, EmptyText DEF Steps
<1>4. PICK h : Along(h, Elements, <<>>, step) /\ h \in [0 .. Len(Elements) -> Seq(Tokens)]
  <2> HIDE DEF step
  <2> QED
    BY <1>2, <1>3, AlongExists
<1>5. h = [n \in 0 .. Len(Elements) |-> IF n = 0 THEN <<>> ELSE Next1(h[n - 1], Elements[n])]
  <2>1. ASSUME NEW n \in 0 .. Len(Elements), n # 0
        PROVE  step[<<h[n - 1], Elements[n]>>] = Next1(h[n - 1], Elements[n])
    <3>1. n - 1 \in 0 .. Len(Elements) /\ Elements[n] \in ElementNames
      BY <1>2, <2>1, ElementsType DEF ElementNames
    <3>2. <<h[n - 1], Elements[n]>> \in Seq(Tokens) \X ElementNames
      BY <1>4, <3>1
    <3> HIDE DEF Next1
    <3> QED
      BY <3>2
  <2> HIDE DEF step, Next1
  <2> QED
    BY <1>4, <2>1 DEF Along
<1>6. DefaultLines(saved, v) = [n \in 0 .. Len(Elements) |->
        IF n = 0 THEN <<>> ELSE Next1(DefaultLines(saved, v)[n - 1], Elements[n])]
  BY <1>5 DEF DefaultLines
<1>7. Len(Elements) \in Nat /\ 0 \in 0 .. Len(Elements)
  BY ElementsType
<1>8. DefaultLines(saved, v)[0] = <<>>
  BY <1>6, <1>7
<1>9. \A n \in 1 .. Len(Elements) :
        DefaultLines(saved, v)[n] = Next1(DefaultLines(saved, v)[n - 1], Elements[n])
  <2> HIDE DEF Next1
  <2> QED
    BY <1>6, <1>7
<1> DEFINE S == {n \in 0 .. Len(Elements) : DefaultLines(saved, v)[n] \in Seq(Tokens)}
<1>10. 0 \in S
  BY <1>7, <1>8, EmptyText
<1>11. ASSUME NEW n \in 1 .. Len(Elements), n - 1 \in S
       PROVE  n \in S
  <2>1. DefaultLines(saved, v)[n - 1] \in Seq(Tokens) /\ Elements[n] \in ElementNames
    BY <1>11, <1>2, ElementsType DEF ElementNames
  <2> HIDE DEF Next1
  <2> QED
    BY <2>1, <1>1, <1>9
<1>12. 0 .. Len(Elements) \subseteq S
  <2> HIDE DEF S
  <2> QED
    BY <1>7, <1>10, <1>11, Bounded
<1> QED
  BY <1>8, <1>9, <1>12

LEMMA NothingMore ==
  ASSUME NEW t \in Seq(Tokens)
  PROVE  t \o <<>> = t
OBVIOUS

LEMMA NoPart ==
  ASSUME NEW f \in Seq(Tokens), NEW n \in Int
  PROVE  SubSeq(f, n, n - 1) = <<>>
OBVIOUS

LEMMA OneToken ==
  ASSUME NEW t \in Seq(Tokens), NEW x \in Tokens
  PROVE  t \o <<x>> = Append(t, x) /\ <<x>> \in Seq(Tokens)
OBVIOUS

LEMMA PartAppend ==
  ASSUME NEW f \in Seq(Tokens), NEW n \in 1 .. Len(f), NEW a \in 1 .. n
  PROVE  SubSeq(f, a, n) = Append(SubSeq(f, a, n - 1), f[n])
OBVIOUS

LEMMA AppendCat ==
  ASSUME NEW t \in Seq(Tokens), NEW p \in Seq(Tokens), NEW x \in Tokens
  PROVE  t \o Append(p, x) = Append(t \o p, x)
OBVIOUS

LEMMA LongerPart ==
  ASSUME NEW f \in Seq(Tokens), NEW t \in Seq(Tokens), NEW n \in 1 .. Len(f), NEW a \in 1 .. n
  PROVE  t \o SubSeq(f, a, n) = Append(t \o SubSeq(f, a, n - 1), f[n])
<1>1. SubSeq(f, a, n - 1) \in Seq(Tokens) /\ f[n] \in Tokens
  OBVIOUS
<1>2. SubSeq(f, a, n) = Append(SubSeq(f, a, n - 1), f[n])
  BY PartAppend
<1> QED
  BY <1>1, <1>2, AppendCat

LEMMA NextOfPart ==
  ASSUME NEW f \in Seq(Tokens), NEW t \in Seq(Tokens), NEW n \in 1 .. Len(f), NEW k \in n .. Len(f)
  PROVE  t \o SubSeq(f, n, k) = Append(t, f[n]) \o SubSeq(f, n + 1, k)
<1>1. SubSeq(f, n, k) \in Seq(Tokens) /\ SubSeq(f, n + 1, k) \in Seq(Tokens) /\ f[n] \in Tokens
  OBVIOUS
<1>2. SubSeq(f, n, k) = <<f[n]>> \o SubSeq(f, n + 1, k)
  OBVIOUS
<1>3. \A p \in Seq(Tokens) : t \o (<<f[n]>> \o p) = Append(t, f[n]) \o p
  BY <1>1
<1> QED
  BY <1>1, <1>2, <1>3

LEMMA TwoParts ==
  ASSUME NEW f \in Seq(Tokens), NEW t \in Seq(Tokens), NEW n \in 1 .. Len(f), NEW a \in 1 .. n, NEW k \in n .. Len(f)
  PROVE  t \o SubSeq(f, a, k) = (t \o SubSeq(f, a, n)) \o SubSeq(f, n + 1, k)
<1>1. SubSeq(f, a, n) \in Seq(Tokens) /\ SubSeq(f, n + 1, k) \in Seq(Tokens)
  OBVIOUS
<1>2. SubSeq(f, a, k) = SubSeq(f, a, n) \o SubSeq(f, n + 1, k)
  OBVIOUS
<1>3. \A p, q \in Seq(Tokens) : t \o (p \o q) = (t \o p) \o q
  OBVIOUS
<1> QED
  BY <1>1, <1>2, <1>3

-----------------------------------------------------------------------------
(* The scanner reads a file as the line reader does, as long as its lines  *)
(* are lines that the reader knows.                                        *)

Idle(s) == s.state \in {"inited", "got_value"}

(* At the position m, s had written its text, and no value has ended since. *)
Since(f, v, m, places, r, s) ==
  /\ s.text = Writing(f, v)[m].text
  /\ Reading(f)[m].place \in places /\ Reading(f)[m].given = r.given
  /\ Reading(f)[m].place \in {"name", "spaces"} => Reading(f)[m].elem = r.elem

Between(f, n, r, w, s) ==
  /\ IF r.place = "bare" THEN s.state = "got_field" ELSE Idle(s)
  /\ s.resume <= n + 1
  /\ ~r.empty => s.text = w.text /\ w.base = w.text

InComment(f, n, r, w, s) ==
  /\ Idle(s)
  /\ s.resume \in n + 1 .. Len(f)
  /\ f[s.resume] = "nl" \/ s.resume = Len(f)
  /\ \A i \in n + 1 .. s.resume - 1 : f[i] # "nl"
  /\ ~r.empty => s.text = w.text \o SubSeq(f, n + 1, s.resume - 1)

InField(f, v, n, r, w, s) ==
  /\ s.state = IF r.place = "dot" THEN "begin_field" ELSE "got_field"
  /\ r.place = "name" => s.elem = r.elem
  /\ s.resume <= n + 1
  /\ s.fieldBegin \in 1 .. n
  /\ ~r.empty => /\ w.base = s.text
                 /\ w.text = s.text \o SubSeq(f, s.fieldBegin, n)
                 /\ Since(f, v, s.fieldBegin - 1, {"start", "bare"}, r, s)

BeforeValue(f, n, r, w, s) ==
  /\ s.state = "begin_value"
  /\ s.elem = r.elem
  /\ s.resume \in n + 1 .. Len(f)
  /\ s.valueBegin = s.resume /\ s.valueEnd < s.valueBegin
  /\ f[s.resume] # "sp" \/ s.resume = Len(f)
  /\ \A i \in n + 1 .. s.resume - 1 : f[i] = "sp"
  /\ r.value = <<>>
  /\ ~r.empty => s.text = w.text \o SubSeq(f, n + 1, s.resume - 1)

InValue(f, v, n, r, w, s) ==
  /\ s.state = "begin_value"
  /\ s.elem = r.elem
  /\ s.resume <= n + 1
  /\ s.valueBegin \in 1 .. n
  /\ s.valueEnd = n
  /\ r.value = SubSeq(f, s.valueBegin, n)
  /\ ~r.empty => /\ s.elem \in ElementNames => w.text = s.text
                 /\ s.elem \notin ElementNames => w.text = s.text \o r.value
                 /\ Since(f, v, s.valueBegin - 1, {"spaces"}, r, s)

(* At the end of the file a comment and the spaces before a value leave    *)
(* the scanner one token behind.                                           *)
Behind(f, v, n, r, s) ==
  /\ s.out = "fault" <=> r.empty
  /\ s.out = "failed" => r.place = "comment"
  /\ ~r.empty => Since(f, v, n - 1,
                       IF r.place = "comment" THEN {"start", "comment"} ELSE {"name", "spaces"}, r, s)

Going(n, r, s) ==
  /\ s.out = IF r.empty THEN "fault" ELSE "ok"
  /\ s.stuck = FALSE
  /\ s.valueEnd <= n + 1

Match(f, v, n, r, w, s) ==
  /\ s.settings = r.settings /\ s.saved = r.given
  /\ IF n = Len(f) /\ r.place \in {"comment", "spaces"} THEN Behind(f, v, n, r, s)
     ELSE /\ Going(n, r, s)
          /\ r.place \in {"start", "stray", "bare"} => Between(f, n, r, w, s)
          /\ r.place = "comment" => InComment(f, n, r, w, s)
          /\ r.place \in {"dot", "name"} => InField(f, v, n, r, w, s)
          /\ r.place = "spaces" => BeforeValue(f, n, r, w, s)
          /\ r.place = "value" => InValue(f, v, n, r, w, s)

(* One turn of the loop: s at the position n - 1 is as the reader r and    *)
(* the writer w.                                                           *)
Turn(f, v, n, r, w, s) ==
  /\ r = Reading(f)[n - 1] /\ w = Writing(f, v)[n - 1]
  /\ r \in ReaderStates /\ w \in WriterStates /\ s \in ScanStates(f)
  /\ Match(f, v, n - 1, r, w, s)
  /\ r.place # "bad" /\ ReadToken(r, f[n]).place # "bad"

MatchNext(f, v, n, r, w, s) ==
  Match(f, v, n, ReadToken(r, f[n]), WriteToken(v, r, f[n], w), ScanStep(f, v, n, s))

LEMMA PutFacts ==
  ASSUME NEW f \in Seq(Tokens), NEW s \in ScanStates(f), NEW t \in Seq(Tokens)
  PROVE  /\ Put(s, t).text = IF s.out = "ok" THEN s.text \o t ELSE s.text
         /\ Put(s, t).resume = s.resume /\ Put(s, t).state = s.state
         /\ Put(s, t).fieldBegin = s.fieldBegin /\ Put(s, t).elem = s.elem
         /\ Put(s, t).valueBegin = s.valueBegin /\ Put(s, t).valueEnd = s.valueEnd
         /\ Put(s, t).settings = s.settings /\ Put(s, t).stuck = s.stuck
         /\ Put(s, t).saved = s.saved /\ Put(s, t).out = s.out
BY DEF Put, ScanStates

(* What the readers' and the scanner's steps leave alone.                  *)
LEMMA TurnFacts ==
  ASSUME NEW f \in Seq(Tokens), NEW v \in Values, NEW n \in 1 .. Len(f), NEW r, NEW w, NEW s,
         Turn(f, v, n, r, w, s)
  PROVE  /\ f[n] \in Tokens /\ n \in Nat /\ n >= 1 /\ Len(f) \in Nat /\ n <= Len(f)
         /\ s.text \in Seq(Tokens) /\ w.text \in Seq(Tokens) /\ w.base \in Seq(Tokens)
         /\ s.resume \in Nat /\ s.valueEnd \in Nat /\ s.fieldBegin \in Nat /\ s.valueBegin \in Nat
         /\ r.empty \in BOOLEAN /\ r.place \in Places
         /\ Going(n - 1, r, s)
         /\ s.settings = r.settings /\ s.saved = r.given
<1>1. f[n] \in Tokens /\ n \in Nat /\ n >= 1 /\ Len(f) \in Nat /\ n <= Len(f) /\ n - 1 # Len(f)
  OBVIOUS
<1>2. s.text \in Seq(Tokens) /\ w.text \in Seq(Tokens) /\ w.base \in Seq(Tokens)
  BY DEF Turn, ScanStates, WriterStates
<1>3. s.resume \in Nat /\ s.fieldBegin \in Nat /\ s.valueBegin \in Nat
  BY DEF Turn, ScanStates
<1>4. s.valueEnd \in Nat
  <2>1. s.valueEnd \in 1 .. Len(f) \union {1}
    BY DEF Turn, ScanStates
  <2> QED
    BY <1>1, <2>1
<1>5. r.empty \in BOOLEAN /\ r.place \in Places
  BY DEF Turn, ReaderStates
<1>6. Going(n - 1, r, s) /\ s.settings = r.settings /\ s.saved = r.given
  BY <1>1 DEF Turn, Match
<1> QED
  BY <1>1, <1>2, <1>3, <1>4, <1>5, <1>6

LEMMA BetweenTurn ==
  ASSUME NEW f \in Seq(Tokens), NEW v \in Values, NEW n \in 1 .. Len(f), NEW r, NEW w, NEW s,
         Turn(f, v, n, r, w, s), r.place \in {"start", "stray", "bare"}, f[n] \notin {"#", "."}
  PROVE  MatchNext(f, v, n, r, w, s)
<1> DEFINE R == ReadToken(r, f[n])
           W == WriteToken(v, r, f[n], w)
           S == ScanStep(f, v, n, s)
           newline == IF f[n] = "nl" THEN <<"nl">> ELSE <<>>
<1>1. Going(n - 1, r, s) /\ Between(f, n - 1, r, w, s) /\ n - 1 # Len(f)
  BY TurnFacts DEF Turn, Match
<1>2. r.place \in {"start", "stray"} /\ Idle(s) /\ n >= s.resume /\ ~(n < s.resume)
  <2>1. r.place # "bare"
    <3>1. ReadToken(r, f[n]).place # "bad" /\ r \in ReaderStates
      BY DEF Turn
    <3> QED
      BY <3>1 DEF ReadToken, ReaderStates
  <2>2. s.resume \in Nat /\ s.resume <= (n - 1) + 1 /\ n \in Nat
    BY <1>1, TurnFacts DEF Between
  <2>3. Idle(s)
    BY <1>1, <2>1 DEF Between
  <2> QED
    BY <2>1, <2>2, <2>3
<1>3. R.place = (IF f[n] = "nl" THEN "start" ELSE "stray") /\ R = [r EXCEPT !.place = R.place]
  BY <1>2 DEF Turn, ReadToken, AtStart, ReaderStates
<1>4. W.text = (IF f[n] = "nl" THEN Append(w.text, f[n]) ELSE w.text)
      /\ W.base = (IF f[n] = "nl" THEN W.text ELSE w.base)
  BY <1>2, <1>3 DEF WriteToken, TextAfter, Copies
<1>5. S = Put(s, newline) \/ (f[n] = "=" /\ S = s)
  BY <1>2 DEF ScanStep, Idle
<1>6. newline \in Seq(Tokens) /\ s \in ScanStates(f)
  BY NewlineType, EmptyText DEF Turn
<1>7. /\ S.state = s.state /\ S.resume = s.resume /\ S.valueEnd = s.valueEnd /\ S.out = s.out
      /\ S.settings = s.settings /\ S.saved = s.saved /\ S.stuck = s.stuck
  <2> HIDE DEF S, newline
  <2> QED
    BY <1>5, <1>6, PutFacts
<1>8. s.out = "ok" => S.text = (IF f[n] = "nl" THEN Append(s.text, f[n]) ELSE s.text)
  <2>1. s.text \o newline = IF f[n] = "nl" THEN Append(s.text, f[n]) ELSE s.text
    <3>1. s.text \in Seq(Tokens) /\ f[n] \in Tokens
      BY TurnFacts
    <3>2. s.text \o <<>> = s.text
      BY <3>1, NothingMore
    <3>3. s.text \o <<f[n]>> = Append(s.text, f[n])
      BY <3>1, OneToken
    <3> QED
      BY <3>2, <3>3
  <2>2. s.out = "ok" => Put(s, newline).text = s.text \o newline
    <3> HIDE DEF newline
    <3> QED
      BY <1>6, PutFacts
  <2>3. CASE S = s /\ f[n] = "="
    BY <2>3
  <2>4. CASE S = Put(s, newline)
    <3> HIDE DEF S, newline
    <3> QED
      BY <2>1, <2>2, <2>4
  <2> HIDE DEF S, newline
  <2> QED
    BY <1>5, <2>3, <2>4
<1>9. R.empty = r.empty /\ R.settings = r.settings /\ R.given = r.given
  BY <1>3 DEF Turn, ReaderStates
<1>10. Going(n, R, S)
  <2>1. s.valueEnd \in Nat /\ n \in Nat
    BY TurnFacts
  <2> HIDE DEF R, S
  <2> QED
    BY <1>1, <1>7, <1>9, <2>1 DEF Going
<1>11. Between(f, n, R, W, S)
  <2>1. s.resume \in Nat /\ n \in Nat
    BY TurnFacts
  <2> HIDE DEF R, S, W
  <2> QED
    BY <1>1, <1>2, <1>3, <1>4, <1>7, <1>8, <1>9, <2>1 DEF Going, Between, Idle
<1>12. S.settings = R.settings /\ S.saved = R.given
  BY <1>7, <1>9, TurnFacts
<1> HIDE DEF R, S, W
<1>13. Match(f, v, n, R, W, S)
  BY <1>3, <1>10, <1>11, <1>12 DEF Match
<1> QED
  BY <1>13 DEF MatchNext, R, S, W

(* A dot begins a field.                                                   *)
LEMMA FieldBegins ==
  ASSUME NEW f \in Seq(Tokens), NEW v \in Values, NEW n \in 1 .. Len(f), NEW r, NEW w, NEW s,
         Turn(f, v, n, r, w, s), r.place \in {"start", "stray", "bare"}, f[n] = "."
  PROVE  MatchNext(f, v, n, r, w, s)
<1> DEFINE R == ReadToken(r, f[n])
           W == WriteToken(v, r, f[n], w)
           S == ScanStep(f, v, n, s)
<1>0. SUFFICES Match(f, v, n, R, W, S)
  BY DEF MatchNext
<1>1. Going(n - 1, r, s) /\ Between(f, n - 1, r, w, s) /\ n - 1 # Len(f)
  BY TurnFacts DEF Turn, Match
<1>2. r.place \in {"start", "bare"} /\ n >= s.resume /\ ~(n < s.resume)
  <2>1. r.place # "stray"
    <3>1. ReadToken(r, f[n]).place # "bad" /\ r \in ReaderStates
      BY DEF Turn
    <3> QED
      BY <3>1 DEF ReadToken, ReaderStates
  <2>2. s.resume \in Nat /\ s.resume <= (n - 1) + 1 /\ n \in Nat
    BY <1>1, TurnFacts DEF Between
  <2> QED
    BY <2>1, <2>2
<1>3. R = [r EXCEPT !.place = "dot"]
  BY <1>2 DEF Turn, ReadToken, AtStart, ReaderStates
<1>4. /\ R.place = "dot" /\ R.empty = r.empty /\ R.settings = r.settings /\ R.given = r.given
  BY <1>3 DEF Turn, ReaderStates
<1>5. W.text = Append(w.text, f[n]) /\ W.base = w.base
  BY <1>2, <1>4 DEF WriteToken, TextAfter, Copies
<1>6. S = [s EXCEPT !.state = "begin_field", !.fieldBegin = n]
  BY <1>2 DEF ScanStep
<1>7. /\ S.state = "begin_field" /\ S.fieldBegin = n /\ S.resume = s.resume /\ S.valueEnd = s.valueEnd
      /\ S.out = s.out /\ S.settings = s.settings /\ S.saved = s.saved /\ S.stuck = s.stuck
      /\ S.text = s.text
  BY <1>6 DEF Turn, ScanStates
<1>8. Going(n, R, S)
  <2>1. s.valueEnd \in Nat /\ n \in Nat
    BY TurnFacts
  <2> HIDE DEF R, S
  <2> QED
    BY <1>1, <1>4, <1>7, <2>1 DEF Going
<1>9. ~r.empty => s.text = w.text /\ w.base = w.text
  BY <1>1 DEF Between
<1>10. w.text \o SubSeq(f, n, n) = Append(w.text, f[n])
  <2>1. w.text \in Seq(Tokens) /\ n \in 1 .. n
    BY TurnFacts
  <2>2. w.text \o SubSeq(f, n, n) = Append(w.text \o SubSeq(f, n, n - 1), f[n])
    BY <2>1, LongerPart
  <2>3. SubSeq(f, n, n - 1) = <<>>
    BY NoPart
  <2>4. w.text \o <<>> = w.text
    BY <2>1, NothingMore
  <2> QED
    BY <2>2, <2>3, <2>4
<1>11. ~r.empty => Since(f, v, n - 1, {"start", "bare"}, R, S)
  <2>1. Reading(f)[n - 1] = r /\ Writing(f, v)[n - 1] = w
    BY DEF Turn
  <2> HIDE DEF R, S
  <2> QED
    BY <1>2, <1>4, <1>7, <1>9, <2>1 DEF Since
<1>12. InField(f, v, n, R, W, S)
  <2>1. s.resume \in Nat /\ n \in Nat /\ n \in 1 .. n /\ s.resume <= (n - 1) + 1
    BY <1>1, TurnFacts DEF Between
  <2>2. ~R.empty => W.base = S.text /\ W.text = S.text \o SubSeq(f, S.fieldBegin, n)
    <3> HIDE DEF R, S, W
    <3> QED
      BY <1>4, <1>5, <1>7, <1>9, <1>10
  <2>3. S.fieldBegin - 1 = n - 1 /\ S.fieldBegin \in 1 .. n /\ S.resume <= n + 1
    <3> HIDE DEF R, S, W
    <3> QED
      BY <1>7, <2>1
  <2> HIDE DEF R, S, W
  <2> QED
    BY <1>4, <1>7, <1>11, <2>2, <2>3 DEF InField
<1>13. S.settings = R.settings /\ S.saved = R.given
  BY <1>4, <1>7, TurnFacts
<1> HIDE DEF R, S, W
<1> QED
  BY <1>4, <1>8, <1>12, <1>13 DEF Match

(* A # begins a comment: the scanner skips to the end of the line.         *)
LEMMA CommentBegins ==
  ASSUME NEW f \in Seq(Tokens), NEW v \in Values, NEW n \in 1 .. Len(f), NEW r, NEW w, NEW s,
         Turn(f, v, n, r, w, s), r.place \in {"start", "stray", "bare"}, f[n] = "#"
  PROVE  MatchNext(f, v, n, r, w, s)
<1> DEFINE R == ReadToken(r, f[n])
           W == WriteToken(v, r, f[n], w)
           S == ScanStep(f, v, n, s)
           e == LineEnd(f, n)
<1>0. SUFFICES Match(f, v, n, R, W, S)
  BY DEF MatchNext
<1>1. Going(n - 1, r, s) /\ Between(f, n - 1, r, w, s) /\ n - 1 # Len(f)
  BY TurnFacts DEF Turn, Match
<1>2. r.place = "start" /\ n >= s.resume /\ ~(n < s.resume) /\ Idle(s)
  <2>1. r.place = "start"
    <3>1. ReadToken(r, f[n]).place # "bad" /\ r \in ReaderStates
      BY DEF Turn
    <3> QED
      BY <3>1 DEF ReadToken, ReaderStates
  <2>2. s.resume \in Nat /\ s.resume <= (n - 1) + 1 /\ n \in Nat
    BY <1>1, TurnFacts DEF Between
  <2> QED
    BY <1>1, <2>1, <2>2 DEF Between
<1>3. R = [r EXCEPT !.place = "comment"]
  BY <1>2 DEF Turn, ReadToken, AtStart, ReaderStates
<1>4. /\ R.place = "comment" /\ R.empty = r.empty /\ R.settings = r.settings /\ R.given = r.given
  BY <1>3 DEF Turn, ReaderStates
<1>5. W.text = Append(w.text, f[n]) /\ W.base = w.base
  BY <1>2, <1>4 DEF WriteToken, TextAfter, Copies
<1>6. S = ReadComment(f, n, s)
  BY <1>2 DEF ScanStep
<1>7. ~r.empty => s.text = w.text /\ w.base = w.text
  BY <1>1 DEF Between
<1>8. e \in n .. Len(f) /\ (f[e] = "nl" \/ e = Len(f)) /\ (\A i \in n .. e - 1 : f[i] # "nl")
  BY LineEndFacts
<1>9. e = n <=> n = Len(f)
  <2>1. n \in Nat /\ Len(f) \in Nat /\ n <= Len(f)
    BY TurnFacts
  <2> HIDE DEF e
  <2> QED
    BY <1>8, <2>1
<1> DEFINE part == SubSeq(f, n, e - 1)
<1>10. part \in Seq(Tokens) /\ s \in ScanStates(f)
  <2>1. n \in Nat \ {0} /\ e - 1 \in Int /\ e - 1 <= Len(f)
    <3>1. n \in Nat /\ n >= 1 /\ Len(f) \in Nat
      BY TurnFacts
    <3> HIDE DEF e
    <3> QED
      BY <1>8, <3>1
  <2>2. part \in Seq(Tokens)
    <3> HIDE DEF e
    <3> QED
      BY <2>1, SubSeqType
  <2> QED
    BY <2>2 DEF Turn
<1>11. CASE n = Len(f)
  <2>1. S = [s EXCEPT !.stuck = TRUE, !.out = IF @ = "ok" THEN "failed" ELSE @]
    BY <1>6, <1>9, <1>11 DEF ReadComment
  <2>2. /\ S.out = (IF s.out = "ok" THEN "failed" ELSE s.out)
        /\ S.settings = s.settings /\ S.saved = s.saved /\ S.text = s.text
    BY <2>1, <1>10 DEF ScanStates
  <2>3. Reading(f)[n - 1] = r /\ Writing(f, v)[n - 1] = w
    BY DEF Turn
  <2>4. Behind(f, v, n, R, S)
    <3>1. r.empty \in BOOLEAN
      BY TurnFacts
    <3>2. ~R.empty => Since(f, v, n - 1, {"start", "comment"}, R, S)
      <4> HIDE DEF R, S
      <4> QED
        BY <1>2, <1>4, <1>7, <2>2, <2>3 DEF Since
    <3> HIDE DEF R, S
    <3> QED
      BY <1>1, <1>4, <2>2, <3>1, <3>2 DEF Behind, Going
  <2>5. S.settings = R.settings /\ S.saved = R.given
    BY <1>4, <2>2, TurnFacts
  <2> HIDE DEF R, S, W
  <2> QED
    BY <1>4, <1>11, <2>4, <2>5 DEF Match
<1>12. CASE n # Len(f)
  <2> DEFINE u == Put(s, part)
  <2>1. S = [u EXCEPT !.resume = e]
    BY <1>6, <1>9, <1>12 DEF ReadComment
  <2>2. /\ u.state = s.state /\ u.valueEnd = s.valueEnd /\ u.out = s.out
        /\ u.settings = s.settings /\ u.saved = s.saved /\ u.stuck = s.stuck
        /\ s.out = "ok" => u.text = s.text \o part
    <3> HIDE DEF part
    <3> QED
      BY <1>10, PutFacts
  <2>3. u \in ScanStates(f)
    <3> HIDE DEF part
    <3> QED
      BY <1>10, PutType
  <2>4. /\ S.state = s.state /\ S.valueEnd = s.valueEnd /\ S.out = s.out
        /\ S.settings = s.settings /\ S.saved = s.saved /\ S.stuck = s.stuck
        /\ S.resume = e /\ (s.out = "ok" => S.text = s.text \o part)
    <3> HIDE DEF u, part, e, S
    <3> QED
      BY <2>1, <2>2, <2>3 DEF ScanStates
  <2>5. Going(n, R, S)
    <3>1. s.valueEnd \in Nat /\ n \in Nat
      BY TurnFacts
    <3> HIDE DEF R, S
    <3> QED
      BY <1>1, <1>4, <2>4, <3>1 DEF Going
  <2>6. e \in n + 1 .. Len(f) /\ n \in Nat /\ Len(f) \in Nat
    <3>1. n \in Nat /\ Len(f) \in Nat
      BY TurnFacts
    <3> HIDE DEF e
    <3> QED
      BY <1>8, <1>9, <1>12, <3>1
  <2>7. w.text \o part = W.text \o SubSeq(f, n + 1, e - 1)
    <3>1. w.text \in Seq(Tokens)
      BY TurnFacts
    <3>2. e - 1 \in n .. Len(f)
      <4> HIDE DEF e
      <4> QED
        BY <2>6
    <3> HIDE DEF e, W
    <3> QED
      BY <1>5, <3>1, <3>2, NextOfPart
  <2>8. InComment(f, n, R, W, S)
    <3>1. \A i \in n + 1 .. S.resume - 1 : f[i] # "nl"
      <4> HIDE DEF e, S
      <4> QED
        BY <1>8, <2>4, <2>6
    <3>2. ~R.empty => S.text = W.text \o SubSeq(f, n + 1, S.resume - 1)
      <4> HIDE DEF R, S, W, e, part
      <4> QED
        BY <1>1, <1>4, <1>7, <2>4, <2>7 DEF Going
    <3>3. Idle(S)
      BY <1>2, <2>4 DEF Idle
    <3> HIDE DEF R, S, W, e, part
    <3> QED
      BY <1>8, <2>4, <2>6, <3>1, <3>2, <3>3 DEF InComment
  <2>9. S.settings = R.settings /\ S.saved = R.given
    BY <1>4, <2>4, TurnFacts
  <2> HIDE DEF R, S, W
  <2> QED
    BY <1>4, <1>12, <2>5, <2>8, <2>9 DEF Match
<1> QED
  BY <1>11, <1>12

(* Inside a comment: what was skipped, then the end of the line.           *)
LEMMA CommentTurn ==
  ASSUME NEW f \in Seq(Tokens), NEW v \in Values, NEW n \in 1 .. Len(f), NEW r, NEW w, NEW s,
         Turn(f, v, n, r, w, s), r.place = "comment"
  PROVE  MatchNext(f, v, n, r, w, s)
<1> DEFINE R == ReadToken(r, f[n])
           W == WriteToken(v, r, f[n], w)
           S == ScanStep(f, v, n, s)
           newline == IF f[n] = "nl" THEN <<"nl">> ELSE <<>>
<1>0. SUFFICES Match(f, v, n, R, W, S)
  BY DEF MatchNext
<1>1. Going(n - 1, r, s) /\ InComment(f, n - 1, r, w, s) /\ n - 1 # Len(f) /\ (n - 1) + 1 = n
  BY TurnFacts DEF Turn, Match
<1>2. s.resume \in n .. Len(f) /\ n \in Nat /\ Len(f) \in Nat /\ n <= Len(f)
  BY <1>1, TurnFacts DEF InComment
<1>3. R.place = (IF f[n] = "nl" THEN "start" ELSE "comment") /\ R = [r EXCEPT !.place = R.place]
  BY DEF Turn, ReadToken, ReaderStates
<1>4. R.empty = r.empty /\ R.settings = r.settings /\ R.given = r.given
  BY <1>3 DEF Turn, ReaderStates
<1>5. W.text = Append(w.text, f[n]) /\ (f[n] = "nl" => W.base = W.text)
  BY <1>3 DEF WriteToken, TextAfter, Copies
<1>6. ~r.empty => s.text = w.text \o SubSeq(f, n, s.resume - 1)
  BY <1>1 DEF InComment
<1>7. newline \in Seq(Tokens) /\ s \in ScanStates(f)
  BY NewlineType, EmptyText DEF Turn
<1>8. CASE n < s.resume
  <2>1. S = s
    <3>1. ~(n >= s.resume)
      BY <1>2, <1>8
    <3> QED
      BY <1>8, <3>1 DEF ScanStep
  <2>2. f[n] # "nl" /\ n # Len(f)
    <3>1. n \in n .. s.resume - 1
      BY <1>2, <1>8
    <3> QED
      BY <1>1, <1>2, <1>8, <3>1 DEF InComment
  <2>3. R.place = "comment"
    BY <1>3, <2>2
  <2>4. w.text \o SubSeq(f, n, s.resume - 1) = W.text \o SubSeq(f, n + 1, s.resume - 1)
    <3>1. w.text \in Seq(Tokens) /\ s.resume - 1 \in n .. Len(f)
      BY <1>2, <1>8, TurnFacts
    <3> HIDE DEF W
    <3> QED
      BY <1>5, <3>1, NextOfPart
  <2>5. InComment(f, n, R, W, S)
    <3>1. Idle(s) /\ (f[s.resume] = "nl" \/ s.resume = Len(f)) /\ s.resume \in n + 1 .. Len(f)
      BY <1>1, <1>2, <1>8 DEF InComment
    <3>2. \A i \in n + 1 .. s.resume - 1 : f[i] # "nl"
      BY <1>1, <1>2 DEF InComment
    <3> HIDE DEF R, S, W
    <3> QED
      BY <1>4, <1>6, <2>1, <2>4, <3>1, <3>2 DEF InComment
  <2>6. Going(n, R, S)
    <3>1. s.valueEnd \in Nat /\ n \in Nat
      BY TurnFacts
    <3> HIDE DEF R, S
    <3> QED
      BY <1>1, <1>4, <2>1, <3>1 DEF Going
  <2>7. S.settings = R.settings /\ S.saved = R.given
    <3> HIDE DEF R, S
    <3> QED
      BY <1>4, <2>1, TurnFacts
  <2> HIDE DEF R, S, W
  <2> QED
    BY <2>2, <2>3, <2>5, <2>6, <2>7 DEF Match
<1>9. CASE ~(n < s.resume)
  <2>1. s.resume = n /\ n >= s.resume /\ (f[n] = "nl" \/ n = Len(f))
    BY <1>1, <1>2, <1>9 DEF InComment
  <2>2. ~r.empty => s.text = w.text
    <3>1. SubSeq(f, n, n - 1) = <<>> /\ w.text \o <<>> = w.text
      BY <1>2, TurnFacts, NoPart, NothingMore
    <3> QED
      BY <1>6, <2>1, <3>1
  <2>3. Idle(s)
    BY <1>1 DEF InComment
  <2>4. CASE f[n] = "nl"
    <3>1. S = Put(s, newline) /\ newline = <<"nl">>
      BY <2>1, <2>3, <2>4 DEF ScanStep, Idle
    <3>2. /\ S.state = s.state /\ S.resume = s.resume /\ S.valueEnd = s.valueEnd /\ S.out = s.out
          /\ S.settings = s.settings /\ S.saved = s.saved /\ S.stuck = s.stuck
          /\ s.out = "ok" => S.text = s.text \o newline
      <4> HIDE DEF S, newline
      <4> QED
        BY <1>7, <3>1, PutFacts
    <3>3. s.text \o newline = Append(s.text, f[n])
      <4>1. s.text \in Seq(Tokens) /\ f[n] \in Tokens
        BY TurnFacts
      <4>2. s.text \o <<f[n]>> = Append(s.text, f[n])
        BY <4>1, OneToken
      <4> QED
        BY <2>4, <3>1, <4>2
    <3>4. Going(n, R, S)
      <4>1. s.valueEnd \in Nat /\ n \in Nat
        BY TurnFacts
      <4> HIDE DEF R, S
      <4> QED
        BY <1>1, <1>4, <3>2, <4>1 DEF Going
    <3>5. R.place = "start"
      BY <1>3, <2>4
    <3>6. Between(f, n, R, W, S)
      <4> HIDE DEF R, S, W, newline
      <4> QED
        BY <1>1, <1>2, <1>4, <1>5, <2>1, <2>2, <2>3, <2>4, <3>2, <3>3, <3>5 DEF Going, Between, Idle
    <3>7. S.settings = R.settings /\ S.saved = R.given
      <4> HIDE DEF R, S
      <4> QED
        BY <1>4, <3>2, TurnFacts
    <3> HIDE DEF R, S, W
    <3> QED
      BY <3>4, <3>5, <3>6, <3>7 DEF Match
  <2>5. CASE f[n] # "nl"
    <3>1. n = Len(f) /\ R.place = "comment"
      BY <1>3, <2>1, <2>5
    <3>2. LineEnd(f, n) = n
      <4>1. LineEnd(f, n) \in n .. Len(f)
        BY LineEndFacts
      <4> QED
        BY <1>2, <3>1, <4>1
    <3>3. /\ S.settings = s.settings /\ S.saved = s.saved /\ S.text = s.text
          /\ S.out = s.out \/ (s.out = "ok" /\ S.out = "failed")
      <4>1. CASE f[n] = "#"
        <5>1. S = ReadComment(f, n, s)
          BY <2>1, <4>1 DEF ScanStep
        <5>2. S = [s EXCEPT !.stuck = TRUE, !.out = IF @ = "ok" THEN "failed" ELSE @]
          BY <3>2, <5>1 DEF ReadComment
        <5> QED
          BY <1>7, <5>2 DEF ScanStates
      <4>2. CASE f[n] = "."
        <5>1. S = [s EXCEPT !.state = "begin_field", !.fieldBegin = n]
          BY <2>1, <4>2 DEF ScanStep
        <5> QED
          BY <1>7, <5>1 DEF ScanStates
      <4>3. CASE f[n] \notin {"#", "."}
        <5>1. S = s \/ S = Put(s, <<>>)
          BY <2>1, <2>3, <2>5, <4>3 DEF ScanStep, Idle
        <5>2. Put(s, <<>>).text = s.text
          <6>1. Put(s, <<>>).text = IF s.out = "ok" THEN s.text \o <<>> ELSE s.text
            BY <1>7, EmptyText, PutFacts
          <6>2. s.text \o <<>> = s.text
            BY TurnFacts, NothingMore
          <6> QED
            BY <6>1, <6>2
        <5>3. Put(s, <<>>).settings = s.settings /\ Put(s, <<>>).saved = s.saved /\ Put(s, <<>>).out = s.out
          BY <1>7, EmptyText, PutFacts
        <5> HIDE DEF S
        <5> QED
          BY <5>1, <5>2, <5>3
      <4> QED
        BY <4>1, <4>2, <4>3
    <3>4. Reading(f)[n - 1] = r /\ Writing(f, v)[n - 1] = w
      BY DEF Turn
    <3>5. Behind(f, v, n, R, S)
      <4>1. r.empty \in BOOLEAN
        BY TurnFacts
      <4>2. ~R.empty => Since(f, v, n - 1, {"start", "comment"}, R, S)
        <5> HIDE DEF R, S
        <5> QED
          BY <1>4, <2>2, <3>3, <3>4 DEF Since
      <4> HIDE DEF R, S
      <4> QED
        BY <1>1, <1>4, <3>1, <3>3, <4>1, <4>2 DEF Behind, Going
    <3>6. S.settings = R.settings /\ S.saved = R.given
      <4> HIDE DEF R, S
      <4> QED
        BY <1>4, <3>3, TurnFacts
    <3> HIDE DEF R, S, W
    <3> QED
      BY <3>1, <3>5, <3>6 DEF Match
  <2> QED
    BY <2>4, <2>5
<1> QED
  BY <1>8, <1>9

(* The name of a field and what follows it, up to the "=".                 *)
LEMMA FieldTurn ==
  ASSUME NEW f \in Seq(Tokens), NEW v \in Values, NEW n \in 1 .. Len(f), NEW r, NEW w, NEW s,
         Turn(f, v, n, r, w, s), r.place \in {"dot", "name"}, f[n] \notin Marks
  PROVE  MatchNext(f, v, n, r, w, s)
<1> DEFINE R == ReadToken(r, f[n])
           W == WriteToken(v, r, f[n], w)
           S == ScanStep(f, v, n, s)
           u == IF r.place = "dot" THEN [s EXCEPT !.state = "got_field", !.elem = f[n]] ELSE s
<1>0. SUFFICES Match(f, v, n, R, W, S)
  BY DEF MatchNext
<1>1. Going(n - 1, r, s) /\ InField(f, v, n - 1, r, w, s) /\ n - 1 # Len(f) /\ (n - 1) + 1 = n
  BY TurnFacts DEF Turn, Match
<1>2. n \in Nat /\ n >= s.resume /\ ~(n < s.resume) /\ s.fieldBegin \in 1 .. n - 1
  <2>1. s.resume \in Nat /\ s.resume <= n /\ n \in Nat
    BY <1>1, TurnFacts DEF InField
  <2> QED
    BY <1>1, <2>1 DEF InField
<1>3. /\ R.place = "name" /\ R.empty = r.empty /\ R.settings = r.settings /\ R.given = r.given
      /\ R.elem = IF r.place = "dot" THEN f[n] ELSE r.elem
  BY DEF Turn, ReadToken, AtDot, AtName, ReaderStates, Marks
<1>4. W.text = Append(w.text, f[n]) /\ W.base = w.base
  BY <1>3 DEF WriteToken, TextAfter, Copies, Marks
<1>5. S = Put(u, <<>>)
  BY <1>1, <1>2 DEF ScanStep, InField, Marks
<1>6. s \in ScanStates(f) /\ f[n] \in Tokens
  BY DEF Turn
<1>7. /\ u \in ScanStates(f) /\ u.state = "got_field" /\ u.elem = (IF r.place = "dot" THEN f[n] ELSE s.elem)
      /\ u.text = s.text /\ u.resume = s.resume /\ u.fieldBegin = s.fieldBegin /\ u.valueEnd = s.valueEnd
      /\ u.out = s.out /\ u.settings = s.settings /\ u.saved = s.saved /\ u.stuck = s.stuck
  BY <1>1, <1>6 DEF ScanStates, InField
<1>8. /\ S.state = "got_field" /\ S.elem = (IF r.place = "dot" THEN f[n] ELSE s.elem)
      /\ S.text = s.text /\ S.resume = s.resume /\ S.fieldBegin = s.fieldBegin /\ S.valueEnd = s.valueEnd
      /\ S.out = s.out /\ S.settings = s.settings /\ S.saved = s.saved /\ S.stuck = s.stuck
  <2>1. s.text \o <<>> = s.text
    BY TurnFacts, NothingMore
  <2>2. Put(u, <<>>).text = IF u.out = "ok" THEN u.text \o <<>> ELSE u.text
    <3> HIDE DEF u
    <3> QED
      BY <1>7, EmptyText, PutFacts
  <2>3. S.text = s.text
    <3> HIDE DEF u, S
    <3> QED
      BY <1>5, <1>7, <2>1, <2>2
  <2>4. /\ S.state = u.state /\ S.elem = u.elem /\ S.resume = u.resume /\ S.fieldBegin = u.fieldBegin
        /\ S.valueEnd = u.valueEnd /\ S.out = u.out /\ S.settings = u.settings /\ S.saved = u.saved
        /\ S.stuck = u.stuck
    <3>1. u \in ScanStates(f)
      BY <1>7
    <3> HIDE DEF u, S
    <3> QED
      BY <1>5, <3>1, EmptyText, PutFacts
  <2> HIDE DEF u, S
  <2> QED
    BY <1>7, <2>3, <2>4
<1>9. Going(n, R, S)
  <2>1. s.valueEnd \in Nat /\ n \in Nat
    BY TurnFacts
  <2> HIDE DEF R, S
  <2> QED
    BY <1>1, <1>3, <1>8, <2>1 DEF Going
<1>10. ~r.empty => W.text = s.text \o SubSeq(f, s.fieldBegin, n)
  <2>1. s.text \in Seq(Tokens) /\ s.fieldBegin \in 1 .. n
    BY <1>2, TurnFacts
  <2>2. s.text \o SubSeq(f, s.fieldBegin, n) = Append(s.text \o SubSeq(f, s.fieldBegin, n - 1), f[n])
    BY <2>1, LongerPart
  <2> HIDE DEF W
  <2> QED
    BY <1>1, <1>4, <2>2 DEF InField
<1>11. ~R.empty => Since(f, v, S.fieldBegin - 1, {"start", "bare"}, R, S)
  <2> HIDE DEF R, S
  <2> QED
    BY <1>1, <1>3, <1>8 DEF InField, Since
<1>12. InField(f, v, n, R, W, S)
  <2>1. s.resume <= n + 1 /\ s.fieldBegin \in 1 .. n
    BY <1>2, TurnFacts
  <2>2. ~R.empty => W.base = S.text /\ W.text = S.text \o SubSeq(f, S.fieldBegin, n)
    <3> HIDE DEF R, S, W
    <3> QED
      BY <1>1, <1>3, <1>4, <1>8, <1>10 DEF InField
  <2>3. S.elem = R.elem
    <3> HIDE DEF R, S
    <3> QED
      BY <1>1, <1>3, <1>8 DEF InField
  <2> HIDE DEF R, S, W
  <2> QED
    BY <1>3, <1>8, <1>11, <2>1, <2>2, <2>3 DEF InField
<1>13. S.settings = R.settings /\ S.saved = R.given
  <2> HIDE DEF R, S
  <2> QED
    BY <1>3, <1>8, TurnFacts
<1> HIDE DEF R, S, W
<1> QED
  BY <1>3, <1>9, <1>12, <1>13 DEF Match

(* A field without "=": the line ends, and the writer drops it.            *)
LEMMA BareTurn ==
  ASSUME NEW f \in Seq(Tokens), NEW v \in Values, NEW n \in 1 .. Len(f), NEW r, NEW w, NEW s,
         Turn(f, v, n, r, w, s), r.place = "name", f[n] = "nl"
  PROVE  MatchNext(f, v, n, r, w, s)
<1> DEFINE R == ReadToken(r, f[n])
           W == WriteToken(v, r, f[n], w)
           S == ScanStep(f, v, n, s)
<1>0. SUFFICES Match(f, v, n, R, W, S)
  BY DEF MatchNext
<1>1. Going(n - 1, r, s) /\ InField(f, v, n - 1, r, w, s) /\ n - 1 # Len(f) /\ (n - 1) + 1 = n
  BY TurnFacts DEF Turn, Match
<1>2. n \in Nat /\ n >= s.resume /\ ~(n < s.resume)
  <2>1. s.resume \in Nat /\ s.resume <= n /\ n \in Nat
    BY <1>1, TurnFacts DEF InField
  <2> QED
    BY <2>1
<1>3. R.place = "bare" /\ R.empty = r.empty /\ R.settings = r.settings /\ R.given = r.given
  BY DEF Turn, ReadToken, AtName, ReaderStates
<1>4. W.text = Append(w.base, f[n]) /\ W.base = W.text
  BY <1>3 DEF WriteToken, TextAfter
<1>5. S = Put(s, <<f[n]>>)
  BY <1>1, <1>2 DEF ScanStep, InField
<1>6. s \in ScanStates(f) /\ f[n] \in Tokens /\ <<f[n]>> \in Seq(Tokens)
  BY TurnFacts, OneToken DEF Turn
<1>7. /\ S.state = "got_field" /\ S.resume = s.resume /\ S.valueEnd = s.valueEnd
      /\ S.out = s.out /\ S.settings = s.settings /\ S.saved = s.saved /\ S.stuck = s.stuck
      /\ s.out = "ok" => S.text = s.text \o <<f[n]>>
  <2>1. s.state = "got_field"
    BY <1>1 DEF InField
  <2> HIDE DEF S
  <2> QED
    BY <1>5, <1>6, <2>1, PutFacts
<1>8. s.text \o <<f[n]>> = Append(s.text, f[n])
  BY <1>6, TurnFacts, OneToken
<1>9. Going(n, R, S)
  <2>1. s.valueEnd \in Nat /\ n \in Nat
    BY TurnFacts
  <2> HIDE DEF R, S
  <2> QED
    BY <1>1, <1>3, <1>7, <2>1 DEF Going
<1>10. ~R.empty => S.text = W.text /\ W.base = W.text
  <2>1. ~r.empty => w.base = s.text /\ s.out = "ok"
    BY <1>1 DEF InField, Going
  <2> HIDE DEF R, S, W
  <2> QED
    BY <1>3, <1>4, <1>7, <1>8, <2>1
<1>11. Between(f, n, R, W, S)
  <2>1. s.resume \in Nat /\ s.resume <= n + 1
    BY <1>2, TurnFacts
  <2> HIDE DEF R, S, W
  <2> QED
    BY <1>3, <1>7, <1>10, <2>1 DEF Between
<1>12. S.settings = R.settings /\ S.saved = R.given
  <2> HIDE DEF R, S
  <2> QED
    BY <1>3, <1>7, TurnFacts
<1> HIDE DEF R, S, W
<1> QED
  BY <1>3, <1>9, <1>11, <1>12 DEF Match

(* The "=": the scanner skips the spaces that follow.                      *)
LEMMA ValueBegins ==
  ASSUME NEW f \in Seq(Tokens), NEW v \in Values, NEW n \in 1 .. Len(f), NEW r, NEW w, NEW s,
         Turn(f, v, n, r, w, s), r.place = "name", f[n] = "="
  PROVE  MatchNext(f, v, n, r, w, s)
<1> DEFINE R == ReadToken(r, f[n])
           W == WriteToken(v, r, f[n], w)
           S == ScanStep(f, v, n, s)
           b == ValueStart(f, n + 1)
           part == SubSeq(f, s.fieldBegin, b - 1)
           u == Put(s, part)
<1>0. SUFFICES Match(f, v, n, R, W, S)
  BY DEF MatchNext
<1>1. Going(n - 1, r, s) /\ InField(f, v, n - 1, r, w, s) /\ n - 1 # Len(f) /\ (n - 1) + 1 = n
  BY TurnFacts DEF Turn, Match
<1>2. /\ n \in Nat /\ n >= s.resume /\ ~(n < s.resume) /\ s.fieldBegin \in 1 .. n - 1
      /\ Len(f) \in Nat /\ n <= Len(f)
  <2>1. s.resume \in Nat /\ s.resume <= n /\ n \in Nat
    BY <1>1, TurnFacts DEF InField
  <2> QED
    BY <1>1, <2>1, TurnFacts DEF InField
<1>3. /\ R.place = "spaces" /\ R.empty = r.empty /\ R.settings = r.settings /\ R.given = r.given
      /\ R.elem = r.elem /\ R.value = <<>>
  BY DEF Turn, ReadToken, AtName, ReaderStates
<1>4. W.text = Append(w.text, f[n])
  BY <1>3 DEF WriteToken, TextAfter, Copies
<1>5. S = [u EXCEPT !.resume = b, !.state = "begin_value", !.valueBegin = b]
  <2>1. S = ReadField(f, n, s)
    BY <1>1, <1>2 DEF ScanStep, InField
  <2> QED
    BY <2>1 DEF ReadField
<1>6. /\ b \in n .. Len(f) /\ (n < Len(f) => b \in n + 1 .. Len(f)) /\ (f[b] # "sp" \/ b = Len(f))
      /\ \A i \in n + 1 .. b - 1 : f[i] = "sp"
  BY ValueStartFacts
<1>16. b \in Nat /\ n <= b /\ b <= Len(f) /\ (n < Len(f) => b \in n + 1 .. Len(f))
  <2>1. b \in n .. Len(f) /\ (n < Len(f) => b \in n + 1 .. Len(f))
    BY <1>6
  <2> HIDE DEF b
  <2> QED
    BY <1>2, <2>1
<1>7. s \in ScanStates(f) /\ part \in Seq(Tokens)
  <2>1. s.fieldBegin \in Nat \ {0} /\ b - 1 \in Int /\ b - 1 <= Len(f)
    <3> HIDE DEF b
    <3> QED
      BY <1>2, <1>16
  <2>2. part \in Seq(Tokens)
    <3> HIDE DEF b
    <3> QED
      BY <2>1, SubSeqType
  <2> QED
    BY <2>2 DEF Turn
<1>8. /\ u \in ScanStates(f) /\ u.elem = s.elem /\ u.valueEnd = s.valueEnd
      /\ u.out = s.out /\ u.settings = s.settings /\ u.saved = s.saved /\ u.stuck = s.stuck
      /\ s.out = "ok" => u.text = s.text \o part
  <2> HIDE DEF part
  <2> QED
    BY <1>7, PutFacts, PutType
<1>9. /\ S.state = "begin_value" /\ S.elem = s.elem /\ S.resume = b /\ S.valueBegin = b
      /\ S.valueEnd = s.valueEnd
      /\ S.out = s.out /\ S.settings = s.settings /\ S.saved = s.saved /\ S.stuck = s.stuck
      /\ s.out = "ok" => S.text = s.text \o part
  <2> HIDE DEF u, part, b, S
  <2> QED
    BY <1>5, <1>8 DEF ScanStates
<1>10. s.elem = r.elem
  BY <1>1 DEF InField
<1>11. s.text \in Seq(Tokens) /\ s.fieldBegin \in 1 .. n
  BY <1>2, TurnFacts
<1>12. ~r.empty => /\ s.out = "ok" /\ w.text = s.text \o SubSeq(f, s.fieldBegin, n - 1)
                   /\ Reading(f)[n - 1] = r /\ Writing(f, v)[n - 1] = w
  BY <1>1 DEF InField, Going, Turn
<1>13. S.settings = R.settings /\ S.saved = R.given
  <2> HIDE DEF R, S
  <2> QED
    BY <1>3, <1>9, TurnFacts
<1>14. CASE n = Len(f)
  <2>1. b = n
    <3> HIDE DEF b
    <3> QED
      BY <1>2, <1>16, <1>14
  <2>2. ~R.empty => Since(f, v, n - 1, {"name", "spaces"}, R, S)
    <3> HIDE DEF R, S, b
    <3> QED
      BY <1>3, <1>9, <1>12, <2>1 DEF Since
  <2>3. Behind(f, v, n, R, S)
    <3>1. r.empty \in BOOLEAN
      BY TurnFacts
    <3> HIDE DEF R, S
    <3> QED
      BY <1>1, <1>3, <1>9, <2>2, <3>1 DEF Behind, Going
  <2> HIDE DEF R, S, W
  <2> QED
    BY <1>3, <1>13, <1>14, <2>3 DEF Match
<1>15. CASE n # Len(f)
  <2>1. b \in n + 1 .. Len(f)
    <3> HIDE DEF b
    <3> QED
      BY <1>2, <1>16, <1>15
  <2>2. ~r.empty => W.text = s.text \o SubSeq(f, s.fieldBegin, n)
    <3>1. s.text \o SubSeq(f, s.fieldBegin, n) = Append(s.text \o SubSeq(f, s.fieldBegin, n - 1), f[n])
      BY <1>11, LongerPart
    <3> HIDE DEF W
    <3> QED
      BY <1>4, <1>12, <3>1
  <2>3. s.text \o part = (s.text \o SubSeq(f, s.fieldBegin, n)) \o SubSeq(f, n + 1, b - 1)
    <3>1. b - 1 \in n .. Len(f)
      <4> HIDE DEF b
      <4> QED
        BY <1>2, <2>1
    <3> HIDE DEF b
    <3> QED
      BY <1>11, <3>1, TwoParts
  <2>4. ~R.empty => S.text = W.text \o SubSeq(f, n + 1, S.resume - 1)
    <3> HIDE DEF R, S, W, b, part
    <3> QED
      BY <1>3, <1>9, <1>12, <2>2, <2>3
  <2>7. s.valueEnd < b
    <3>1. s.valueEnd \in Nat /\ s.valueEnd <= n
      BY <1>1, TurnFacts DEF Going
    <3> HIDE DEF b
    <3> QED
      BY <1>2, <2>1, <3>1
  <2>5. BeforeValue(f, n, R, W, S)
    <3> HIDE DEF R, S, W, b, part
    <3> QED
      BY <1>3, <1>6, <1>9, <1>10, <2>1, <2>4, <2>7 DEF BeforeValue
  <2>6. Going(n, R, S)
    <3>1. s.valueEnd \in Nat /\ n \in Nat
      BY TurnFacts
    <3> HIDE DEF R, S
    <3> QED
      BY <1>1, <1>3, <1>9, <3>1 DEF Going
  <2> HIDE DEF R, S, W
  <2> QED
    BY <1>3, <1>13, <1>15, <2>5, <2>6 DEF Match
<1> QED
  BY <1>14, <1>15

(* The end of the line ends the value that the reader has read.            *)
AtEndOfValue(f, n, r, w, s) ==
  /\ f[n] = "nl" /\ r.place \in {"spaces", "value"}
  /\ s.state = "begin_value" /\ s.elem = r.elem /\ n >= s.resume
  /\ SubSeq(f, s.valueBegin, s.valueEnd) = r.value
  /\ ~r.empty => IF s.elem \in ElementNames THEN w.text = s.text ELSE w.text = s.text \o r.value

LEMMA ElementValueTurn ==
  ASSUME NEW f \in Seq(Tokens), NEW v \in Values, NEW n \in 1 .. Len(f), NEW r, NEW w, NEW s,
         Turn(f, v, n, r, w, s), AtEndOfValue(f, n, r, w, s), r.elem \in ElementNames
  PROVE  MatchNext(f, v, n, r, w, s)
<1> DEFINE R == ReadToken(r, f[n])
           W == WriteToken(v, r, f[n], w)
           S == ScanStep(f, v, n, s)
           own == IntegerText(v[s.elem])
           u == Put(s, own)
           t == [u EXCEPT !.settings[s.elem] = IntegerOf(r.value), !.saved = @ \union {s.elem},
                          !.state = "got_value"]
<1>0. SUFFICES Match(f, v, n, R, W, S)
  BY DEF MatchNext
<1>1. /\ f[n] = "nl" /\ r.place \in {"spaces", "value"}
      /\ s.state = "begin_value" /\ s.elem = r.elem /\ n >= s.resume
      /\ SubSeq(f, s.valueBegin, s.valueEnd) = r.value
      /\ Going(n - 1, r, s)
  BY TurnFacts DEF AtEndOfValue
<1>2. /\ R.place = "start" /\ R.empty = r.empty
      /\ R.settings = [r.settings EXCEPT ![r.elem] = IntegerOf(r.value)]
      /\ R.given = r.given \union {r.elem}
  BY <1>1 DEF Turn, ReadToken, AtValue, EndOfValue, ReaderStates
<1>3. W.text = w.text \o own \o <<"nl">> /\ W.base = W.text
  BY <1>1, <1>2 DEF WriteToken, TextAfter
<1>4. S = Put(t, <<"nl">>)
  <2>1. ReadValue(f, v, s) = t
    BY <1>1 DEF ReadValue
  <2>2. ~(n < s.resume)
    BY <1>1, TurnFacts
  <2> HIDE DEF t
  <2> QED
    BY <1>1, <2>1, <2>2 DEF ScanStep, ValueEnds
<1>5. s \in ScanStates(f) /\ own \in Seq(Tokens) /\ IntegerOf(r.value) \in Int
  <2>1. r.value \in Seq(Tokens) /\ v[s.elem] \in Int
    BY <1>1 DEF Turn, ReaderStates, Values
  <2> QED
    BY <2>1, IntegerTextType, IntegerOfType DEF Turn
<1>6. /\ u \in ScanStates(f) /\ u.resume = s.resume /\ u.valueEnd = s.valueEnd
      /\ u.out = s.out /\ u.settings = s.settings /\ u.saved = s.saved /\ u.stuck = s.stuck
      /\ s.out = "ok" => u.text = s.text \o own
  <2> HIDE DEF own
  <2> QED
    BY <1>5, PutFacts, PutType
<1>7. /\ t.state = "got_value" /\ t.resume = s.resume /\ t.valueEnd = s.valueEnd
      /\ t.out = s.out /\ t.stuck = s.stuck /\ t.text = u.text
      /\ t.settings = [s.settings EXCEPT ![s.elem] = IntegerOf(r.value)]
      /\ t.saved = s.saved \union {s.elem}
  <2> HIDE DEF u
  <2> QED
    BY <1>6 DEF ScanStates
<1>8. t \in ScanStates(f)
  <2>1. s.elem \in ElementNames
    BY <1>1
  <2> HIDE DEF u
  <2> QED
    BY <1>5, <1>6, <2>1 DEF ScanStates, Values
<1>9. /\ S.state = t.state /\ S.resume = t.resume /\ S.valueEnd = t.valueEnd
      /\ S.out = t.out /\ S.stuck = t.stuck /\ S.settings = t.settings /\ S.saved = t.saved
      /\ t.out = "ok" => S.text = t.text \o <<"nl">>
  <2> HIDE DEF t, S
  <2> QED
    BY <1>4, <1>8, NewlineType, PutFacts
<1>10. Going(n, R, S)
  <2>1. s.valueEnd \in Nat /\ n \in Nat
    BY TurnFacts
  <2> HIDE DEF R, S, t
  <2> QED
    BY <1>1, <1>2, <1>7, <1>9, <2>1 DEF Going
<1>11. ~R.empty => S.text = W.text /\ W.base = W.text
  <2>1. ~r.empty => s.text = w.text /\ s.out = "ok"
    BY <1>1 DEF AtEndOfValue, Going
  <2>2. s.out = "ok" => S.text = (s.text \o own) \o <<"nl">>
    <3>1. t.out = s.out /\ t.text = u.text
      BY <1>7
    <3>2. s.out = "ok" => u.text = s.text \o own
      BY <1>6
    <3>3. t.out = "ok" => S.text = t.text \o <<"nl">>
      BY <1>9
    <3> HIDE DEF S, t, u, own
    <3> QED
      BY <3>1, <3>2, <3>3
  <2>3. R.empty = r.empty
    BY <1>2
  <2> HIDE DEF R, S, W, own
  <2> QED
    BY <1>3, <2>1, <2>2, <2>3
<1>12. Between(f, n, R, W, S)
  <2>1. s.resume \in Nat /\ s.resume <= n + 1
    BY <1>1, TurnFacts
  <2> HIDE DEF R, S, W, t
  <2> QED
    BY <1>2, <1>7, <1>9, <1>11, <2>1 DEF Between, Idle
<1>13. S.settings = R.settings /\ S.saved = R.given
  <2>1. s.settings = r.settings /\ s.saved = r.given /\ s.elem = r.elem
    BY <1>1, TurnFacts
  <2>2. S.settings = t.settings /\ S.saved = t.saved
    BY <1>9
  <2>3. t.settings = [s.settings EXCEPT ![s.elem] = IntegerOf(r.value)] /\ t.saved = s.saved \union {s.elem}
    BY <1>7
  <2> HIDE DEF R, S, t
  <2> QED
    BY <1>2, <2>1, <2>2, <2>3
<1> HIDE DEF R, S, W
<1> QED
  BY <1>2, <1>10, <1>12, <1>13 DEF Match

LEMMA ForeignValueTurn ==
  ASSUME NEW f \in Seq(Tokens), NEW v \in Values, NEW n \in 1 .. Len(f), NEW r, NEW w, NEW s,
         Turn(f, v, n, r, w, s), AtEndOfValue(f, n, r, w, s), r.elem \notin ElementNames
  PROVE  MatchNext(f, v, n, r, w, s)
<1> DEFINE R == ReadToken(r, f[n])
           W == WriteToken(v, r, f[n], w)
           S == ScanStep(f, v, n, s)
           u == Put(s, r.value)
           t == IF r.value = <<>> THEN [s EXCEPT !.out = IF @ = "ok" THEN "fault" ELSE @, !.state = "got_value"]
                ELSE [u EXCEPT !.state = "got_value"]
<1>0. SUFFICES Match(f, v, n, R, W, S)
  BY DEF MatchNext
<1>1. /\ f[n] = "nl" /\ r.place \in {"spaces", "value"}
      /\ s.state = "begin_value" /\ s.elem = r.elem /\ n >= s.resume
      /\ SubSeq(f, s.valueBegin, s.valueEnd) = r.value
      /\ Going(n - 1, r, s)
  BY TurnFacts DEF AtEndOfValue
<1>2. /\ R.place = "start" /\ R.empty = (r.empty \/ r.value = <<>>)
      /\ R.settings = r.settings /\ R.given = r.given
  BY <1>1 DEF Turn, ReadToken, AtValue, EndOfValue, ReaderStates
<1>3. W.text = Append(w.text, f[n]) /\ W.base = W.text
  BY <1>1, <1>2 DEF WriteToken, TextAfter, Copies
<1>4. S = Put(t, <<f[n]>>)
  <2>1. ReadValue(f, v, s) = t
    BY <1>1 DEF ReadValue
  <2>2. ~(n < s.resume)
    BY <1>1, TurnFacts
  <2> HIDE DEF t
  <2> QED
    BY <1>1, <2>1, <2>2 DEF ScanStep, ValueEnds
<1>5. /\ s \in ScanStates(f) /\ r.value \in Seq(Tokens) /\ <<f[n]>> \in Seq(Tokens)
      /\ f[n] \in Tokens /\ s.text \in Seq(Tokens)
  <2>1. f[n] \in Tokens /\ s.text \in Seq(Tokens)
    BY TurnFacts
  <2>2. <<f[n]>> \in Seq(Tokens)
    BY <2>1, OneToken
  <2>3. s \in ScanStates(f) /\ r.value \in Seq(Tokens)
    BY DEF Turn, ReaderStates
  <2> QED
    BY <2>1, <2>2, <2>3
<1>6. /\ u \in ScanStates(f) /\ u.resume = s.resume /\ u.valueEnd = s.valueEnd
      /\ u.out = s.out /\ u.settings = s.settings /\ u.saved = s.saved /\ u.stuck = s.stuck
      /\ s.out = "ok" => u.text = s.text \o r.value
  BY <1>5, PutFacts, PutType
<1>7. /\ t \in ScanStates(f) /\ t.state = "got_value" /\ t.resume = s.resume /\ t.valueEnd = s.valueEnd
      /\ t.stuck = s.stuck /\ t.settings = s.settings /\ t.saved = s.saved
      /\ t.out = IF r.value = <<>> THEN (IF s.out = "ok" THEN "fault" ELSE s.out) ELSE s.out
      /\ r.value # <<>> => t.text = u.text
  <2> HIDE DEF u
  <2> QED
    BY <1>5, <1>6 DEF ScanStates
<1>8. /\ S.state = t.state /\ S.resume = t.resume /\ S.valueEnd = t.valueEnd
      /\ S.out = t.out /\ S.stuck = t.stuck /\ S.settings = t.settings /\ S.saved = t.saved
      /\ t.out = "ok" => S.text = t.text \o <<f[n]>>
  <2>1. t \in ScanStates(f)
    BY <1>7
  <2> HIDE DEF t, S
  <2> QED
    BY <1>4, <1>5, <2>1, PutFacts
<1>9. Going(n, R, S)
  <2>1. s.valueEnd \in Nat /\ n \in Nat /\ r.empty \in BOOLEAN
    BY TurnFacts
  <2>2. S.out = IF r.empty \/ r.value = <<>> THEN "fault" ELSE "ok"
    <3>1. s.out = IF r.empty THEN "fault" ELSE "ok"
      BY <1>1 DEF Going
    <3>2. S.out = t.out
      BY <1>8
    <3>3. t.out = IF r.value = <<>> THEN (IF s.out = "ok" THEN "fault" ELSE s.out) ELSE s.out
      BY <1>7
    <3> HIDE DEF S, t
    <3> QED
      BY <2>1, <3>1, <3>2, <3>3
  <2>3. S.stuck = FALSE /\ S.valueEnd <= n + 1
    <3>1. S.stuck = s.stuck /\ S.valueEnd = s.valueEnd
      <4> HIDE DEF S, t
      <4> QED
        BY <1>7, <1>8
    <3> HIDE DEF S
    <3> QED
      BY <1>1, <2>1, <3>1 DEF Going
  <2> HIDE DEF R, S
  <2> QED
    BY <1>2, <2>2, <2>3 DEF Going
<1>10. ~R.empty => S.text = W.text /\ W.base = W.text
  <2>1. ~r.empty => s.text \o r.value = w.text /\ s.out = "ok"
    BY <1>1 DEF AtEndOfValue, Going
  <2>2. \A p \in Seq(Tokens) : p \o <<f[n]>> = Append(p, f[n])
    BY <1>5
  <2>3. w.text \in Seq(Tokens)
    BY TurnFacts
  <2> HIDE DEF R, S, W, t, u
  <2> QED
    BY <1>2, <1>3, <1>6, <1>7, <1>8, <2>1, <2>2, <2>3
<1>11. Between(f, n, R, W, S)
  <2>1. s.resume \in Nat /\ s.resume <= n + 1
    BY <1>1, TurnFacts
  <2> HIDE DEF R, S, W, t
  <2> QED
    BY <1>2, <1>7, <1>8, <1>10, <2>1 DEF Between, Idle
<1>12. S.settings = R.settings /\ S.saved = R.given
  <2> HIDE DEF R, S, t
  <2> QED
    BY <1>2, <1>7, <1>8, TurnFacts
<1> HIDE DEF R, S, W
<1> QED
  BY <1>2, <1>9, <1>11, <1>12 DEF Match

(* The spaces before a value.                                              *)
LEMMA SpacesTurn ==
  ASSUME NEW f \in Seq(Tokens), NEW v \in Values, NEW n \in 1 .. Len(f), NEW r, NEW w, NEW s,
         Turn(f, v, n, r, w, s), r.place = "spaces", f[n] = "sp"
  PROVE  MatchNext(f, v, n, r, w, s)
<1> DEFINE R == ReadToken(r, f[n])
           W == WriteToken(v, r, f[n], w)
           S == ScanStep(f, v, n, s)
<1>0. SUFFICES Match(f, v, n, R, W, S)
  BY DEF MatchNext
<1>1. Going(n - 1, r, s) /\ BeforeValue(f, n - 1, r, w, s) /\ n - 1 # Len(f) /\ (n - 1) + 1 = n
  BY TurnFacts DEF Turn, Match
<1>2. s.resume \in n .. Len(f) /\ n \in Nat /\ Len(f) \in Nat /\ n <= Len(f)
  BY <1>1, TurnFacts DEF BeforeValue
<1>3. R = r
  BY DEF Turn, ReadToken, AtValue, ReaderStates
<1>4. W.text = Append(w.text, f[n])
  BY DEF WriteToken, TextAfter, Copies
<1>5. ~r.empty => s.text = w.text \o SubSeq(f, n, s.resume - 1)
  BY <1>1 DEF BeforeValue
<1>6. CASE n < s.resume
  <2>1. S = s
    <3>1. ~(n >= s.resume)
      BY <1>2, <1>6
    <3> QED
      BY <1>6, <3>1 DEF ScanStep
  <2>2. n # Len(f) /\ s.resume \in n + 1 .. Len(f)
    BY <1>2, <1>6
  <2>3. w.text \o SubSeq(f, n, s.resume - 1) = W.text \o SubSeq(f, n + 1, s.resume - 1)
    <3>1. w.text \in Seq(Tokens) /\ s.resume - 1 \in n .. Len(f)
      BY <1>2, <1>6, TurnFacts
    <3> HIDE DEF W
    <3> QED
      BY <1>4, <3>1, NextOfPart
  <2>4. BeforeValue(f, n, R, W, S)
    <3>1. \A i \in n + 1 .. s.resume - 1 : f[i] = "sp"
      BY <1>1, <1>2 DEF BeforeValue
    <3> HIDE DEF R, S, W
    <3> QED
      BY <1>1, <1>3, <1>5, <2>1, <2>2, <2>3, <3>1 DEF BeforeValue
  <2>5. Going(n, R, S)
    <3>1. s.valueEnd \in Nat /\ n \in Nat
      BY TurnFacts
    <3> HIDE DEF R, S
    <3> QED
      BY <1>1, <1>3, <2>1, <3>1 DEF Going
  <2>6. S.settings = R.settings /\ S.saved = R.given
    <3> HIDE DEF R, S
    <3> QED
      BY <1>3, <2>1, TurnFacts
  <2> HIDE DEF R, S, W
  <2> QED
    BY <1>3, <2>2, <2>4, <2>5, <2>6 DEF Match
<1>7. CASE ~(n < s.resume)
  <2>1. s.resume = n /\ n >= s.resume
    BY <1>2, <1>7
  <2>2. n = Len(f)
    BY <1>1, <2>1 DEF BeforeValue
  <2>3. S = [s EXCEPT !.valueEnd = n]
    <3>1. s.state = "begin_value" /\ ~ValueEnds(f, n)
      <4>1. ~(n < Len(f))
        BY <1>2, <2>2
      <4> QED
        BY <1>1, <4>1 DEF BeforeValue, ValueEnds
    <3> QED
      BY <1>7, <2>1, <3>1 DEF ScanStep
  <2>4. S.settings = s.settings /\ S.saved = s.saved /\ S.text = s.text /\ S.out = s.out
    BY <2>3 DEF Turn, ScanStates
  <2>5. ~r.empty => s.text = w.text
    <3>1. SubSeq(f, n, n - 1) = <<>> /\ w.text \o <<>> = w.text
      BY <1>2, TurnFacts, NoPart, NothingMore
    <3> QED
      BY <1>5, <2>1, <3>1
  <2>6. Reading(f)[n - 1] = r /\ Writing(f, v)[n - 1] = w
    BY DEF Turn
  <2>7. Behind(f, v, n, R, S)
    <3>1. r.empty \in BOOLEAN
      BY TurnFacts
    <3>2. ~R.empty => Since(f, v, n - 1, {"name", "spaces"}, R, S)
      <4> HIDE DEF R, S
      <4> QED
        BY <1>3, <2>4, <2>5, <2>6 DEF Since
    <3> HIDE DEF R, S
    <3> QED
      BY <1>1, <1>3, <2>4, <3>1, <3>2 DEF Behind, Going
  <2>8. S.settings = R.settings /\ S.saved = R.given
    <3> HIDE DEF R, S
    <3> QED
      BY <1>3, <2>4, TurnFacts
  <2> HIDE DEF R, S, W
  <2> QED
    BY <1>3, <2>2, <2>7, <2>8 DEF Match
<1> QED
  BY <1>6, <1>7

(* The tokens of a value: those of an element are not written.             *)
LEMMA ValueTurn ==
  ASSUME NEW f \in Seq(Tokens), NEW v \in Values, NEW n \in 1 .. Len(f), NEW r, NEW w, NEW s,
         Turn(f, v, n, r, w, s), r.place \in {"spaces", "value"}, f[n] \notin Marks,
         ~(r.place = "spaces" /\ f[n] = "sp"), n < Len(f) => f[n + 1] # "#"
  PROVE  MatchNext(f, v, n, r, w, s)
<1> DEFINE R == ReadToken(r, f[n])
           W == WriteToken(v, r, f[n], w)
           S == ScanStep(f, v, n, s)
<1>0. SUFFICES Match(f, v, n, R, W, S)
  BY DEF MatchNext
<1>1. /\ Going(n - 1, r, s) /\ n - 1 # Len(f) /\ (n - 1) + 1 = n
      /\ r.place = "spaces" => BeforeValue(f, n - 1, r, w, s)
      /\ r.place = "value" => InValue(f, v, n - 1, r, w, s)
  BY TurnFacts DEF Turn, Match
<1>2. /\ n \in Nat /\ n >= 1 /\ Len(f) \in Nat /\ n <= Len(f)
      /\ s.state = "begin_value" /\ s.elem = r.elem
      /\ n >= s.resume /\ ~(n < s.resume) /\ s.valueBegin \in 1 .. n
      /\ (r.place = "spaces" => s.valueBegin = n)
  <2>1. n \in Nat /\ n >= 1 /\ Len(f) \in Nat /\ n <= Len(f) /\ s.resume \in Nat
    BY TurnFacts
  <2>2. CASE r.place = "spaces"
    <3>1. /\ s.state = "begin_value" /\ s.elem = r.elem /\ s.resume \in n .. Len(f) /\ s.valueBegin = s.resume
          /\ \A i \in n .. s.resume - 1 : f[i] = "sp"
      BY <1>1, <2>2 DEF BeforeValue
    <3>2. s.resume = n
      <4>1. SUFFICES ASSUME s.resume # n
                     PROVE  FALSE
        OBVIOUS
      <4>2. n \in n .. s.resume - 1
        BY <2>1, <3>1, <4>1
      <4> QED
        BY <2>2, <3>1, <4>2
    <3> QED
      BY <2>1, <3>1, <3>2
  <2>3. CASE r.place = "value"
    <3>1. /\ s.state = "begin_value" /\ s.elem = r.elem /\ s.resume <= n /\ s.valueBegin \in 1 .. n - 1
      BY <1>1, <2>3 DEF InValue
    <3> QED
      BY <2>1, <2>3, <3>1
  <2> QED
    BY <2>2, <2>3
<1>3. R = [r EXCEPT !.place = "value", !.value = Append(@, f[n])]
  <2>1. R.place # "bad" /\ r \in ReaderStates
    BY DEF Turn
  <2>2. R = [r EXCEPT !.place = "bad"] \/ R = [r EXCEPT !.place = "value", !.value = Append(@, f[n])]
    BY DEF ReadToken, AtValue, Marks
  <2>3. [r EXCEPT !.place = "bad"].place = "bad"
    BY <2>1 DEF ReaderStates
  <2> HIDE DEF R
  <2> QED
    BY <2>1, <2>2, <2>3
<1>4. /\ R.place = "value" /\ R.empty = r.empty /\ R.settings = r.settings /\ R.given = r.given
      /\ R.elem = r.elem /\ R.value = Append(r.value, f[n])
  BY <1>3 DEF Turn, ReaderStates
<1>5. W.text = IF r.elem \in ElementNames THEN w.text ELSE Append(w.text, f[n])
  BY <1>4 DEF WriteToken, TextAfter, Copies, Marks
<1>6. S = [s EXCEPT !.valueEnd = n]
  <2>1. ~ValueEnds(f, n)
    BY DEF ValueEnds, Marks
  <2> QED
    BY <1>2, <2>1 DEF ScanStep, Marks
<1>7. /\ S.state = "begin_value" /\ S.elem = s.elem /\ S.resume = s.resume /\ S.valueBegin = s.valueBegin
      /\ S.valueEnd = n /\ S.text = s.text
      /\ S.out = s.out /\ S.settings = s.settings /\ S.saved = s.saved /\ S.stuck = s.stuck
  BY <1>2, <1>6 DEF Turn, ScanStates
<1>8. Going(n, R, S)
  <2> HIDE DEF R, S
  <2> QED
    BY <1>1, <1>2, <1>4, <1>7 DEF Going
<1>9. r.value = SubSeq(f, s.valueBegin, n - 1)
  <2>1. CASE r.place = "spaces"
    <3>1. r.value = <<>> /\ SubSeq(f, n, n - 1) = <<>>
      BY <1>1, <1>2, <2>1, NoPart DEF BeforeValue
    <3> QED
      BY <1>2, <2>1, <3>1
  <2>2. CASE r.place = "value"
    BY <1>1, <2>2 DEF InValue
  <2> QED
    BY <2>1, <2>2
<1>10. R.value = SubSeq(f, S.valueBegin, n)
  <2>1. Append(SubSeq(f, s.valueBegin, n - 1), f[n]) = SubSeq(f, s.valueBegin, n)
    BY <1>2, PartAppend
  <2> HIDE DEF R, S
  <2> QED
    BY <1>4, <1>7, <1>9, <2>1
<1>11. ~r.empty => /\ s.elem \in ElementNames => w.text = s.text
                   /\ s.elem \notin ElementNames => w.text = s.text \o r.value
                   /\ Since(f, v, s.valueBegin - 1, {"spaces"}, r, s)
  <2>1. CASE r.place = "spaces"
    <3>1. ~r.empty => s.text = w.text
      <4>1. SubSeq(f, n, n - 1) = <<>> /\ w.text \o <<>> = w.text
        BY <1>2, TurnFacts, NoPart, NothingMore
      <4>2. ~r.empty => s.text = w.text \o SubSeq(f, n, n - 1)
        BY <1>1, <1>2, <2>1 DEF BeforeValue
      <4> QED
        BY <4>1, <4>2
    <3>2. s.text \o <<>> = s.text /\ r.value = <<>>
      BY <1>1, <2>1, TurnFacts, NothingMore DEF BeforeValue
    <3>3. Reading(f)[n - 1] = r /\ Writing(f, v)[n - 1] = w /\ s.valueBegin - 1 = n - 1
      BY <1>2, <2>1 DEF Turn
    <3> QED
      BY <2>1, <3>1, <3>2, <3>3 DEF Since
  <2>2. CASE r.place = "value"
    BY <1>1, <2>2 DEF InValue
  <2> QED
    BY <2>1, <2>2
<1>12. ~R.empty => /\ S.elem \in ElementNames => W.text = S.text
                   /\ S.elem \notin ElementNames => W.text = S.text \o R.value
                   /\ Since(f, v, S.valueBegin - 1, {"spaces"}, R, S)
  <2>1. s.text \o Append(r.value, f[n]) = Append(s.text \o r.value, f[n])
    <3>1. s.text \in Seq(Tokens) /\ f[n] \in Tokens
      BY TurnFacts
    <3>2. r.value \in Seq(Tokens)
      BY DEF Turn, ReaderStates
    <3> QED
      BY <3>1, <3>2, AppendCat
  <2>2. ~R.empty => Since(f, v, S.valueBegin - 1, {"spaces"}, R, S)
    <3> HIDE DEF R, S
    <3> QED
      BY <1>4, <1>7, <1>11 DEF Since
  <2> HIDE DEF R, S, W
  <2> QED
    BY <1>2, <1>4, <1>5, <1>7, <1>11, <2>1, <2>2
<1>13. InValue(f, v, n, R, W, S)
  <2>1. s.resume \in Nat /\ s.resume <= n + 1
    BY <1>2, TurnFacts
  <2> HIDE DEF R, S, W
  <2> QED
    BY <1>2, <1>4, <1>7, <1>10, <1>12, <2>1 DEF InValue
<1>14. S.settings = R.settings /\ S.saved = R.given
  <2> HIDE DEF R, S
  <2> QED
    BY <1>4, <1>7, TurnFacts
<1> HIDE DEF R, S, W
<1> QED
  BY <1>4, <1>8, <1>13, <1>14 DEF Match

(* What a line reader once was, it stays: lost, or not clean.              *)
LEMMA TokenLasts ==
  ASSUME NEW c \in ReaderStates, NEW x \in Tokens
  PROVE  /\ c.place = "bad" => ReadToken(c, x).place = "bad"
         /\ c.empty => ReadToken(c, x).empty
         /\ ReadToken(c, x).clean => c.clean
<1>1. c.empty => EndOfValue(c).empty
  BY DEF EndOfValue, ReaderStates
<1>2. EndOfValue(c).clean => c.clean
  BY DEF EndOfValue, ReaderStates
<1>3. /\ c.empty => AtValue(c, x).empty
      /\ AtValue(c, x).clean => c.clean
  BY <1>1, <1>2 DEF AtValue, ReaderStates
<1>4. /\ c.empty => AtStart(c, x).empty /\ AtDot(c, x).empty /\ AtName(c, x).empty
      /\ AtStart(c, x).clean => c.clean
      /\ AtDot(c, x).clean => c.clean
      /\ AtName(c, x).clean => c.clean
  BY DEF AtStart, AtDot, AtName, ReaderStates
<1>5. c.place = "bad" => ReadToken(c, x) = c
  BY DEF ReadToken
<1>6. c.empty => ReadToken(c, x).empty
  BY <1>3, <1>4 DEF ReadToken, ReaderStates
<1>7. ReadToken(c, x).clean => c.clean
  BY <1>3, <1>4 DEF ReadToken, ReaderStates
<1> QED
  BY <1>5, <1>6, <1>7

LEMMA ReadingLasts ==
  ASSUME NEW f \in Seq(Tokens), NEW m \in 0 .. Len(f), NEW n \in m .. Len(f)
  PROVE  /\ Reading(f)[m].place = "bad" => Reading(f)[n].place = "bad"
         /\ Reading(f)[m].empty => Reading(f)[n].empty
         /\ Reading(f)[n].clean => Reading(f)[m].clean
<1> DEFINE r(j) == Reading(f)[j]
           Lasts(j) == /\ r(m).place = "bad" => r(j).place = "bad"
                       /\ r(m).empty => r(j).empty
                       /\ r(j).clean => r(m).clean
           S == {j \in 0 .. Len(f) : j >= m => Lasts(j)}
<1>1. m \in Nat /\ Len(f) \in Nat /\ 0 \in 0 .. Len(f) /\ n \in 0 .. Len(f) /\ n >= m
  OBVIOUS
<1>2. 0 \in S
  <2>1. 0 >= m => m = 0
    BY <1>1
  <2>2. Lasts(m)
    OBVIOUS
  <2> HIDE DEF Lasts
  <2> QED
    BY <1>1, <2>1, <2>2
<1>3. ASSUME NEW j \in 1 .. Len(f), j - 1 \in S
      PROVE  j \in S
  <2>1. j \in 0 .. Len(f) /\ (j >= m => j = m \/ j - 1 >= m)
    BY <1>1
  <2>2. Lasts(m)
    OBVIOUS
  <2>3. ASSUME Lasts(j - 1)
        PROVE  Lasts(j)
    <3>1. j - 1 \in 0 .. Len(f) /\ f[j] \in Tokens
      BY <1>1
    <3>2. r(j - 1) \in ReaderStates
      BY <3>1, ReadingDef
    <3>3. r(j) = ReadToken(r(j - 1), f[j])
      BY ReadingDef
    <3> HIDE DEF r
    <3>4. /\ r(j - 1).place = "bad" => r(j).place = "bad"
          /\ r(j - 1).empty => r(j).empty
          /\ r(j).clean => r(j - 1).clean
      BY <3>1, <3>2, <3>3, TokenLasts
    <3> QED
      BY <2>3, <3>4
  <2>4. j - 1 >= m => Lasts(j - 1)
    BY <1>3
  <2> HIDE DEF Lasts
  <2> QED
    BY <2>1, <2>2, <2>3, <2>4
<1>4. 0 .. Len(f) \subseteq S
  <2> HIDE DEF S
  <2> QED
    BY <1>1, <1>2, <1>3, Bounded
<1>5. n \in S
  BY <1>1, <1>4
<1> QED
  BY <1>1, <1>5

LEMMA MatchStep ==
  ASSUME NEW f \in Seq(Tokens), NEW v \in Values, NEW n \in 1 .. Len(f), NEW r, NEW w, NEW s,
         Turn(f, v, n, r, w, s),
         n < Len(f) => ReadToken(ReadToken(r, f[n]), f[n + 1]).place # "bad"
  PROVE  MatchNext(f, v, n, r, w, s)
<1>1. /\ r.place \in Places /\ r.place # "bad" /\ ReadToken(r, f[n]).place # "bad" /\ f[n] \in Tokens
      /\ r \in ReaderStates
  BY TurnFacts DEF Turn
<1>2. CASE r.place \in {"start", "stray", "bare"}
  BY <1>2, BetweenTurn, FieldBegins, CommentBegins
<1>3. CASE r.place = "comment"
  BY <1>3, CommentTurn
<1>4. CASE r.place = "dot"
  <2>1. f[n] \notin Marks
    BY <1>1, <1>4 DEF ReadToken, AtDot, ReaderStates
  <2> QED
    BY <1>4, <2>1, FieldTurn
<1>5. CASE r.place = "name"
  <2>1. f[n] \notin {"#", "."}
    BY <1>1, <1>5 DEF ReadToken, AtName, ReaderStates
  <2>2. f[n] \in {"nl", "="} \/ f[n] \notin Marks
    BY <2>1 DEF Marks
  <2> QED
    BY <1>5, <2>2, FieldTurn, BareTurn, ValueBegins
<1>6. CASE r.place \in {"spaces", "value"}
  <2>1. f[n] \notin Marks \ {"nl"}
    BY <1>1, <1>6 DEF ReadToken, AtValue, ReaderStates, Marks
  <2>2. CASE r.place = "spaces" /\ f[n] = "sp"
    BY <2>2, SpacesTurn
  <2>3. CASE f[n] = "nl"
    <3>1. /\ Going(n - 1, r, s) /\ n - 1 # Len(f) /\ (n - 1) + 1 = n
          /\ r.place = "spaces" => BeforeValue(f, n - 1, r, w, s)
          /\ r.place = "value" => InValue(f, v, n - 1, r, w, s)
      BY TurnFacts DEF Turn, Match
    <3>2. n \in Nat /\ s.resume \in Nat /\ s.valueEnd \in Nat /\ s.valueBegin \in Nat
          /\ s.text \in Seq(Tokens) /\ w.text \in Seq(Tokens) /\ Len(f) \in Nat
      BY TurnFacts
    <3>3. CASE r.place = "spaces"
      <4>1. /\ s.state = "begin_value" /\ s.elem = r.elem /\ s.resume \in n .. Len(f)
            /\ s.valueBegin = s.resume /\ s.valueEnd < s.valueBegin /\ r.value = <<>>
            /\ \A i \in n .. s.resume - 1 : f[i] = "sp"
            /\ ~r.empty => s.text = w.text \o SubSeq(f, n, s.resume - 1)
        BY <3>1, <3>3 DEF BeforeValue
      <4>2. s.resume = n
        <5>1. SUFFICES ASSUME s.resume # n
                       PROVE  FALSE
          OBVIOUS
        <5>2. n \in n .. s.resume - 1
          BY <3>2, <4>1, <5>1
        <5> QED
          BY <2>3, <4>1, <5>2
      <4>3. SubSeq(f, s.valueBegin, s.valueEnd) = <<>>
        BY <3>2, <4>1
      <4>4. SubSeq(f, n, n - 1) = <<>> /\ w.text \o <<>> = w.text /\ s.text \o <<>> = s.text
        BY <3>2, NoPart, NothingMore
      <4>5. ~r.empty => s.text = w.text
        BY <4>1, <4>2, <4>4
      <4>6. n >= s.resume
        BY <3>2, <4>2
      <4>7. AtEndOfValue(f, n, r, w, s)
        BY <2>3, <3>3, <4>1, <4>3, <4>4, <4>5, <4>6 DEF AtEndOfValue
      <4> QED
        BY <4>7, ElementValueTurn, ForeignValueTurn
    <3>4. CASE r.place = "value"
      <4>1. /\ s.state = "begin_value" /\ s.elem = r.elem /\ s.resume <= n
            /\ s.valueEnd = n - 1 /\ r.value = SubSeq(f, s.valueBegin, n - 1)
            /\ ~r.empty => IF s.elem \in ElementNames THEN w.text = s.text ELSE w.text = s.text \o r.value
        BY <3>1, <3>4 DEF InValue
      <4>2. n >= s.resume
        BY <3>2, <4>1
      <4>3. AtEndOfValue(f, n, r, w, s)
        BY <2>3, <3>4, <4>1, <4>2 DEF AtEndOfValue
      <4> QED
        BY <4>3, ElementValueTurn, ForeignValueTurn
    <3> QED
      BY <1>6, <3>3, <3>4
  <2>4. CASE f[n] \notin Marks /\ ~(r.place = "spaces" /\ f[n] = "sp")
    <3> DEFINE R == ReadToken(r, f[n])
    <3>1. R \in ReaderStates
      BY <1>1, ReadTokenType
    <3>2. R.place = "value"
      <4>1. R = [r EXCEPT !.place = "bad"] \/ R = [r EXCEPT !.place = "value", !.value = Append(@, f[n])]
        BY <1>6, <2>4 DEF ReadToken, AtValue, Marks
      <4>2. [r EXCEPT !.place = "bad"].place = "bad" /\ [r EXCEPT !.place = "value", !.value = Append(@, f[n])].place = "value"
        BY <1>1 DEF ReaderStates
      <4> HIDE DEF R
      <4> QED
        BY <1>1, <4>1, <4>2 DEF R
    <3>3. ASSUME f[n + 1] = "#"
          PROVE  ReadToken(R, f[n + 1]).place = "bad"
      <4> HIDE DEF R
      <4> QED
        BY <3>1, <3>2, <3>3 DEF ReadToken, AtValue, Marks, ReaderStates
    <3>4. n < Len(f) => f[n + 1] # "#"
      <4> HIDE DEF R
      <4> QED
        BY <3>3 DEF R
    <3> QED
      BY <1>6, <2>4, <3>4, ValueTurn
  <2> QED
    BY <2>1, <2>2, <2>3, <2>4
<1> QED
  BY <1>1, <1>2, <1>3, <1>4, <1>5, <1>6 DEF Places

(* The scanner and the line reader in a file that the reader understands.  *)
LEMMA ScanMatches ==
  ASSUME NEW f \in Seq(Tokens), NEW v \in Values, Read(f).place # "bad"
  PROVE  \A n \in 0 .. Len(f) : Match(f, v, n, Reading(f)[n], Writing(f, v)[n], Scan(f, v)[n])
<1> DEFINE S == {n \in 0 .. Len(f) : Match(f, v, n, Reading(f)[n], Writing(f, v)[n], Scan(f, v)[n])}
<1>1. Len(f) \in Nat /\ 0 \in 0 .. Len(f) /\ Len(f) \in 0 .. Len(f)
  OBVIOUS
<1>2. \A n \in 0 .. Len(f) : Reading(f)[n].place # "bad"
  <2> SUFFICES ASSUME NEW n \in 0 .. Len(f)
               PROVE  Reading(f)[n].place # "bad"
    OBVIOUS
  <2>1. Len(f) \in n .. Len(f)
    BY <1>1
  <2> QED
    BY <2>1, ReadingLasts DEF Read
<1>3. Match(f, v, 0, Unread, Unwritten, Start)
  BY <1>1 DEF Match, Unread, Unwritten, Start, Going, Between, Idle
<1>4. 0 \in S
  BY <1>1, <1>3, ReadingDef, WritingDef, ScanDef
<1>5. ASSUME NEW n \in 1 .. Len(f), n - 1 \in S
      PROVE  n \in S
  <2> DEFINE r == Reading(f)[n - 1]
             w == Writing(f, v)[n - 1]
             s == Scan(f, v)[n - 1]
  <2>1. /\ n - 1 \in 0 .. Len(f) /\ n \in 0 .. Len(f) /\ f[n] \in Tokens
        /\ n < Len(f) => n + 1 \in 1 .. Len(f) /\ n + 1 \in 0 .. Len(f) /\ (n + 1) - 1 = n
    BY <1>1
  <2>2. /\ Reading(f)[n] = ReadToken(r, f[n]) /\ Writing(f, v)[n] = WriteToken(v, r, f[n], w)
        /\ Scan(f, v)[n] = ScanStep(f, v, n, s)
    BY ReadingDef, WritingDef, ScanDef
  <2>3. r \in ReaderStates /\ w \in WriterStates /\ s \in ScanStates(f)
    BY <2>1, ReadingDef, WritingDef, ScanDef
  <2>4. r.place # "bad" /\ ReadToken(r, f[n]).place # "bad"
    BY <1>2, <2>1, <2>2
  <2>5. n < Len(f) => ReadToken(ReadToken(r, f[n]), f[n + 1]).place # "bad"
    <3>1. n < Len(f) => Reading(f)[n + 1] = ReadToken(Reading(f)[n], f[n + 1])
      BY <2>1, ReadingDef
    <3> QED
      BY <1>2, <2>1, <2>2, <3>1
  <2>6. Turn(f, v, n, r, w, s)
    BY <1>5, <2>3, <2>4 DEF Turn
  <2> HIDE DEF r, w, s
  <2>7. MatchNext(f, v, n, r, w, s)
    BY <2>5, <2>6, MatchStep
  <2> QED
    BY <2>1, <2>2, <2>7 DEF MatchNext
<1>6. 0 .. Len(f) \subseteq S
  <2> HIDE DEF S
  <2> QED
    BY <1>1, <1>4, <1>5, Bounded
<1> QED
  BY <1>6

(* What a scan comes to. Its text is what the line writer makes of a first *)
(* part of the file, in which as much is set as in all of it.              *)
Source(f, g, v, s) ==
  /\ g \in Seq(Tokens) /\ s.text = Rewritten(g, v).text
  /\ Read(g).given = Read(f).given /\ ~Read(g).empty
  /\ Read(g).place \in {"start", "stray", "bare", "comment", "name", "spaces"}
  /\ Read(g).place \in {"name", "spaces"} =>
       Read(f).place \in {"spaces", "value"} /\ Read(g).elem = Read(f).elem
  /\ s.out = "failed" => Read(g).place \in {"start", "comment"}

LEMMA ScanEnd ==
  ASSUME NEW f \in Seq(Tokens), NEW v \in Values, Read(f).place # "bad",
         NEW s, s = Scan(f, v)[Len(f)]
  PROVE  /\ s.settings = Read(f).settings /\ s.saved = Read(f).given
         /\ s.out = "fault" <=> Read(f).empty
         /\ s.out \in {"ok", "failed", "fault"}
         /\ Read(f).place = "start" =>
              s.out # "failed" /\ ~s.stuck /\ (~Read(f).empty => s.text = Rewritten(f, v).text)
         /\ ~Read(f).empty => \E g : Source(f, g, v, s)
<1> DEFINE n == Len(f)
           r == Read(f)
           w == Rewritten(f, v)
<1>1. n \in Nat /\ n \in 0 .. n
  OBVIOUS
<1>2. Match(f, v, n, r, w, s)
  BY <1>1, ScanMatches DEF Read, Rewritten
<1>3. s \in ScanStates(f) /\ r \in ReaderStates
  BY <1>1, ScanDef, ReadType
<1>4. s.settings = r.settings /\ s.saved = r.given
  BY <1>2 DEF Match
<1>5. s.out = "fault" <=> r.empty
  <2>1. CASE r.place \in {"comment", "spaces"}
    BY <1>2, <2>1 DEF Match, Behind
  <2>2. CASE r.place \notin {"comment", "spaces"}
    BY <1>2, <1>3, <2>2 DEF Match, Going, ReaderStates
  <2> QED
    BY <2>1, <2>2
<1>6. r.place = "start" => s.out # "failed" /\ ~s.stuck /\ (~r.empty => s.text = w.text)
  BY <1>2, <1>3 DEF Match, Going, Between, ReaderStates
<1>7. s.out \in {"ok", "failed", "fault"}
  BY <1>3 DEF ScanStates
<1>8. ASSUME ~r.empty, NEW m \in 0 .. n, s.text = Writing(f, v)[m].text,
             Reading(f)[m].given = r.given,
             Reading(f)[m].place \in {"start", "stray", "bare", "comment", "name", "spaces"},
             Reading(f)[m].place \in {"name", "spaces"} =>
               r.place \in {"spaces", "value"} /\ Reading(f)[m].elem = r.elem,
             s.out = "failed" => Reading(f)[m].place \in {"start", "comment"}
      PROVE  \E g : Source(f, g, v, s)
  <2> DEFINE g == SubSeq(f, 1, m)
  <2>1. g \in Seq(Tokens)
    OBVIOUS
  <2>2. Reading(f)[m] = Read(g) /\ Writing(f, v)[m] = Rewritten(g, v)
    BY ReadingIsRead, WritingIsRewritten
  <2>3. ~Reading(f)[m].empty
    <3>1. n \in m .. n
      BY <1>1
    <3> QED
      BY <1>8, <3>1, ReadingLasts DEF Read
  <2> HIDE DEF g, r
  <2>4. Source(f, g, v, s)
    BY <1>8, <2>1, <2>2, <2>3 DEF Source, r
  <2> QED
    BY <2>4
<1>9. ASSUME ~r.empty
      PROVE  \E g : Source(f, g, v, s)
  <2>1. CASE r.place \in {"start", "stray", "bare"}
    <3>1. Between(f, n, r, w, s) /\ Going(n, r, s)
      BY <1>2, <2>1 DEF Match
    <3>2. s.text = Writing(f, v)[n].text /\ Reading(f)[n] = r /\ s.out # "failed"
      BY <1>9, <3>1 DEF Between, Going, Read, Rewritten
    <3> QED
      BY <1>1, <1>8, <1>9, <2>1, <3>2
  <2>2. CASE r.place \in {"comment", "spaces"}
    <3>1. Behind(f, v, n, r, s)
      BY <1>2, <2>2 DEF Match
    <3>2. Since(f, v, n - 1, IF r.place = "comment" THEN {"start", "comment"} ELSE {"name", "spaces"}, r, s)
          /\ (s.out = "failed" => r.place = "comment")
      BY <1>9, <3>1 DEF Behind
    <3>3. n - 1 \in 0 .. n
      <4>1. n # 0
        <5>1. SUFFICES ASSUME n = 0
                       PROVE  FALSE
          OBVIOUS
        <5>2. r = Unread
          BY <5>1, ReadingDef DEF Read
        <5> QED
          BY <2>2, <5>2 DEF Unread
      <4> QED
        BY <1>1, <4>1
    <3> HIDE DEF n, r
    <3> QED
      BY <1>8, <1>9, <2>2, <3>2, <3>3 DEF Since
  <2>3. CASE r.place \in {"dot", "name"}
    <3>1. InField(f, v, n, r, w, s) /\ Going(n, r, s)
      BY <1>2, <2>3 DEF Match
    <3>2. /\ Since(f, v, s.fieldBegin - 1, {"start", "bare"}, r, s) /\ s.fieldBegin - 1 \in 0 .. n
          /\ s.out # "failed"
      BY <1>1, <1>9, <3>1 DEF InField, Going
    <3> HIDE DEF n, r
    <3> QED
      BY <1>8, <1>9, <2>3, <3>2 DEF Since
  <2>4. CASE r.place = "value"
    <3>1. InValue(f, v, n, r, w, s) /\ Going(n, r, s)
      BY <1>2, <2>4 DEF Match
    <3>2. /\ Since(f, v, s.valueBegin - 1, {"spaces"}, r, s) /\ s.valueBegin - 1 \in 0 .. n
          /\ s.out # "failed"
      BY <1>1, <1>9, <3>1 DEF InValue, Going
    <3> HIDE DEF n, r
    <3> QED
      BY <1>8, <1>9, <2>4, <3>2 DEF Since
  <2> QED
    BY <1>3, <2>1, <2>2, <2>3, <2>4 DEF ReaderStates, Places
<1> QED
  BY <1>4, <1>5, <1>6, <1>7, <1>9

(* The scanner of parseConfig() and the line reader give an element the    *)
(* same value in every file of whole or cut lines, and load() ends if the  *)
(* last line is whole.                                                     *)
THEOREM LoadedIsRead ==
  ASSUME NEW f \in Seq(Tokens), Read(f).place # "bad"
  PROVE  /\ Loaded(f) = Read(f).settings
         /\ Read(f).place = "start" => ~Stuck(f)
<1>1. Default \in Values
  BY ConfigAssumption DEF Values
<1> QED
  BY <1>1, ScanEnd DEF Loaded, Stuck

-----------------------------------------------------------------------------
(* What the writer makes of a file is a file again, in which what the      *)
(* first one set is set to the settings.                                   *)

NatValues == [ElementNames -> Nat]

Close(c, v) == c.place # "bad" /\ \A e \in ElementNames : c.settings[e] \in {Default[e], v[e]}

(* Wherever the text is cut, the reader understands it.                    *)
Tame(u, v) == \A n \in 0 .. Len(u) : Close(Reading(u)[n], v)

LEMMA TameAppend ==
  ASSUME NEW u \in Seq(Tokens), NEW x \in Tokens, NEW v, Tame(u, v), Close(Read(Append(u, x)), v)
  PROVE  Tame(Append(u, x), v)
<1> DEFINE g == Append(u, x)
<1>1. /\ g \in Seq(Tokens) /\ Len(u) \in Nat /\ Len(g) = Len(u) + 1
      /\ \A n \in 1 .. Len(u) : g[n] = u[n]
  BY AppendFacts
<1>2. Close(Reading(g)[Len(g)], v)
  BY DEF Read
<1> HIDE DEF g
<1>3. ASSUME NEW n \in 0 .. Len(g)
      PROVE  Close(Reading(g)[n], v)
  <2>1. CASE n = Len(g)
    BY <1>2, <2>1
  <2>2. CASE n # Len(g)
    <3>1. n \in 0 .. Len(u) /\ n \in Nat /\ n <= Len(u) /\ n <= Len(g) /\ \A i \in 1 .. n : g[i] = u[i]
      BY <1>1, <2>2
    <3>2. Reading(g)[n] = Reading(u)[n]
      BY <1>1, <3>1, ReadingPrefix
    <3> QED
      BY <3>1, <3>2 DEF Tame
  <2> QED
    BY <2>1, <2>2
<1>4. Tame(g, v)
  BY <1>3 DEF Tame
<1> QED
  BY <1>4 DEF g

LEMMA TamePrefix ==
  ASSUME NEW u \in Seq(Tokens), NEW v, Tame(u, v), NEW n \in 0 .. Len(u)
  PROVE  Close(Read(SubSeq(u, 1, n)), v)
BY ReadingIsRead DEF Tame

SetTo(given, v) == [e \in ElementNames |-> IF e \in given THEN v[e] ELSE Default[e]]

Good(u, given, v) ==
  /\ u \in Seq(Tokens)
  /\ Read(u).given = given /\ Read(u).settings = SetTo(given, v) /\ ~Read(u).empty
  /\ Tame(u, v)
  /\ Rewritten(u, v).text = u

(* A token that the writer copies.                                         *)
LEMMA GoodAppend ==
  ASSUME NEW u, NEW given, NEW v \in NatValues, Good(u, given, v), NEW x \in Tokens,
         NEW q, q = ReadToken(Read(u), x),
         q.place # "bad", q.given = Read(u).given, q.settings = Read(u).settings, ~q.empty,
         Copies(Read(u), x), ~(Read(u).place = "name" /\ x = "nl"),
         ~(Read(u).place \in {"spaces", "value"} /\ Read(u).elem \in ElementNames /\ x = "nl")
  PROVE  Good(Append(u, x), given, v) /\ Read(Append(u, x)) = q
<1>1. u \in Seq(Tokens) /\ v \in Values
  BY DEF Good, NatValues, Values
<1>2. Append(u, x) \in Seq(Tokens) /\ Read(Append(u, x)) = q
  BY <1>1, AppendFacts, ReadAppend
<1>3. Rewritten(Append(u, x), v).text = Append(u, x)
  <2>1. Rewritten(Append(u, x), v) = WriteToken(v, Read(u), x, Rewritten(u, v))
    BY <1>1, RewrittenAppend
  <2>2. TextAfter(v, Read(u), x, Rewritten(u, v)) = Append(Rewritten(u, v).text, x)
    BY DEF TextAfter
  <2>3. Rewritten(u, v).text = u
    BY DEF Good
  <2> QED
    BY <2>1, <2>2, <2>3 DEF WriteToken
<1>4. Tame(Append(u, x), v)
  <2>1. \A e \in ElementNames : q.settings[e] \in {Default[e], v[e]}
    BY DEF Good, SetTo
  <2>2. Close(Read(Append(u, x)), v)
    BY <1>2, <2>1 DEF Close
  <2>3. Tame(u, v)
    BY DEF Good
  <2> QED
    BY <1>1, <2>2, <2>3, TameAppend
<1> QED
  BY <1>2, <1>3, <1>4 DEF Good

FieldLine(line, e) == line \in Seq(Tokens) /\ Len(line) >= 2 /\ line[1] = "." /\ line[2] = e

LEMMA FieldLineAppend ==
  ASSUME NEW line, NEW e, FieldLine(line, e), NEW x \in Tokens
  PROVE  FieldLine(Append(line, x), e)
<1>1. line \in Seq(Tokens) /\ Len(line) >= 2 /\ line[1] = "." /\ line[2] = e
  BY DEF FieldLine
<1>2. Append(line, x) \in Seq(Tokens) /\ Len(Append(line, x)) >= 2
      /\ Append(line, x)[1] = line[1] /\ Append(line, x)[2] = line[2]
  BY <1>1
<1> QED
  BY <1>1, <1>2 DEF FieldLine

-----------------------------------------------------------------------------
(* The value of an element, as integerToString() writes it.                *)

DigitSet == {x \in Tokens : IsDigit(x)}

LEMMA DigitFacts ==
  /\ DigitSet \subseteq Tokens
  /\ \A x \in DigitSet : x \notin Marks /\ x # "-" /\ x # "sp"
<1>1. ASSUME NEW x \in DigitSet
      PROVE  x \notin Marks /\ x # "-" /\ x # "sp"
  <2>1. PICK d \in 0 .. 9 : x = DigitTokens[d + 1]
    BY DEF DigitSet, IsDigit
  <2>2. x \in {"0", "1", "2", "3", "4", "5", "6", "7", "8", "9"}
    BY <2>1 DEF DigitTokens
  <2> QED
    BY <2>2 DEF Marks
<1> QED
  BY <1>1 DEF DigitSet

LEMMA IntegerTextDigits ==
  ASSUME NEW n \in Nat
  PROVE  /\ IntegerText(n) \in Seq(DigitSet) /\ IntegerText(n) \in Seq(Tokens)
         /\ IntegerText(n) # <<>> /\ IntegerOf(IntegerText(n)) = n
<1>1. IntegerText(n) = Digits[n]
  BY DEF IntegerText
<1>2. Digits[n] \in Seq(Tokens) /\ AllDigits(Digits[n]) /\ IntegerOf(Digits[n]) = n
  BY DigitsDef, IntegerOfDigits
<1>3. \A t \in Seq(Tokens) : AllDigits(t) => t \in Seq(DigitSet)
  <2> SUFFICES ASSUME NEW t \in Seq(Tokens), AllDigits(t)
               PROVE  t \in Seq(DigitSet)
    OBVIOUS
  <2>1. \A i \in 1 .. Len(t) : t[i] \in DigitSet
    BY DEF AllDigits, DigitSet
  <2> QED
    BY <2>1
<1>4. Digits[n] # <<>>
  <2>1. Digits[n] = (IF n < 10 THEN <<>> ELSE Digits[n \div 10]) \o <<DigitTokens[(n % 10) + 1]>>
    BY DigitsDef
  <2>2. (IF n < 10 THEN <<>> ELSE Digits[n \div 10]) \in Seq(Tokens)
    <3>1. n \div 10 \in Nat
      OBVIOUS
    <3> QED
      BY <3>1, DigitsDef
  <2>3. n % 10 \in 0 .. 9
    OBVIOUS
  <2>4. DigitTokens[(n % 10) + 1] \in Tokens
    BY <2>3, DigitTokensType
  <2>5. \A s \in Seq(Tokens) : \A x \in Tokens : s \o <<x>> # <<>>
    OBVIOUS
  <2> QED
    BY <2>1, <2>2, <2>4, <2>5
<1> QED
  BY <1>1, <1>2, <1>3, <1>4

(* A line of an element, up to where its value begins.                     *)
ValueFollows(u, e, v) ==
  /\ u \in Seq(Tokens) /\ Tame(u, v) /\ Rewritten(u, v).text = u
  /\ Read(u).place = "spaces" /\ Read(u).value = <<>> /\ Read(u).elem = e /\ e \in ElementNames
  /\ FieldLine(LinesOf(u).line, e)

AfterDigits(u, d, e, v) ==
  LET q == Read(u)
      r == Read(u \o d) IN
    /\ u \o d \in Seq(Tokens) /\ Tame(u \o d, v) /\ Rewritten(u \o d, v).text = u
    /\ r = [q EXCEPT !.place = IF d = <<>> THEN "spaces" ELSE "value", !.value = d]
    /\ LinesOf(u \o d).kept = LinesOf(u).kept /\ FieldLine(LinesOf(u \o d).line, e)

LEMMA DigitsRead ==
  ASSUME NEW u, NEW e, NEW v \in NatValues, ValueFollows(u, e, v), NEW d \in Seq(DigitSet)
  PROVE  AfterDigits(u, d, e, v)
<1> DEFINE q == Read(u)
           S == {t \in Seq(DigitSet) : AfterDigits(u, t, e, v)}
<1>1. u \in Seq(Tokens) /\ q \in ReaderStates /\ v \in Values
  BY ReadType DEF ValueFollows, NatValues, Values
<1>2. <<>> \in S
  <2>1. u \o <<>> = u
    BY <1>1, NothingMore
  <2>2. q = [q EXCEPT !.place = "spaces", !.value = <<>>]
    BY <1>1 DEF ValueFollows, ReaderStates
  <2>3. AfterDigits(u, <<>>, e, v)
    BY <2>1, <2>2 DEF AfterDigits, ValueFollows
  <2>4. <<>> \in Seq(DigitSet)
    OBVIOUS
  <2> QED
    BY <2>3, <2>4
<1>3. ASSUME NEW t \in Seq(DigitSet), NEW x \in DigitSet, t \in S
      PROVE  Append(t, x) \in S
  <2>1. AfterDigits(u, t, e, v) /\ x \in Tokens /\ x \notin Marks /\ x # "-" /\ x # "sp"
    BY <1>3, DigitFacts
  <2> DEFINE g == u \o t
             r == Read(g)
  <2>2. t \in Seq(Tokens) /\ Append(t, x) \in Seq(DigitSet)
    BY DigitFacts
  <2>3. u \o Append(t, x) = Append(g, x)
    BY <1>1, <2>1, <2>2, AppendCat
  <2>4. /\ g \in Seq(Tokens) /\ Tame(g, v) /\ Rewritten(g, v).text = u
        /\ r = [q EXCEPT !.place = IF t = <<>> THEN "spaces" ELSE "value", !.value = t]
        /\ LinesOf(g).kept = LinesOf(u).kept /\ FieldLine(LinesOf(g).line, e)
    BY <2>1 DEF AfterDigits
  <2>5. /\ r.place \in {"spaces", "value"} /\ r.elem = e /\ e \in ElementNames /\ r.value = t
        /\ r.settings = q.settings /\ r \in ReaderStates
    BY <1>1, <2>4, ReadType DEF ValueFollows, ReaderStates
  <2> HIDE DEF g
  <2>6. ReadToken(r, x) = [r EXCEPT !.place = "value", !.value = Append(@, x)]
    BY <2>1, <2>5 DEF ReadToken, AtValue, Marks
  <2>7. Read(Append(g, x)) = [q EXCEPT !.place = "value", !.value = Append(t, x)]
    <3>1. Read(Append(g, x)) = ReadToken(r, x)
      BY <2>1, <2>4, ReadAppend
    <3> HIDE DEF r, q
    <3> QED
      BY <1>1, <2>4, <2>6, <3>1 DEF ReaderStates
  <2>8. Tame(Append(g, x), v)
    <3>1. Len(g) \in 0 .. Len(g)
      BY <2>4
    <3>2. Close(r, v)
      BY <2>4, <3>1 DEF Tame, Read
    <3>3. Close(Read(Append(g, x)), v)
      BY <1>1, <2>5, <2>7, <3>2 DEF Close, ReaderStates
    <3> QED
      BY <2>1, <2>4, <3>3, TameAppend
  <2>9. Rewritten(Append(g, x), v).text = u
    <3>1. Rewritten(Append(g, x), v) = WriteToken(v, r, x, Rewritten(g, v))
      BY <1>1, <2>1, <2>4, RewrittenAppend
    <3>2. x # "nl" /\ ~Copies(r, x)
      BY <2>1, <2>5 DEF Copies, Marks
    <3>3. TextAfter(v, r, x, Rewritten(g, v)) = Rewritten(g, v).text
      BY <2>5, <3>2 DEF TextAfter
    <3> QED
      BY <2>4, <3>1, <3>3 DEF WriteToken
  <2>10. LinesOf(Append(g, x)).kept = LinesOf(u).kept /\ FieldLine(LinesOf(Append(g, x)).line, e)
    <3>1. LinesOf(Append(g, x)) = LineToken(LinesOf(g), x) /\ LinesOf(g) \in LineStates
      BY <2>1, <2>4, LinesAppend
    <3>2. x # "nl"
      BY <2>1 DEF Marks
    <3>3. LineToken(LinesOf(g), x) = [LinesOf(g) EXCEPT !.line = Append(LinesOf(g).line, x)]
      BY <3>2 DEF LineToken
    <3>4. /\ LineToken(LinesOf(g), x).kept = LinesOf(g).kept
          /\ LineToken(LinesOf(g), x).line = Append(LinesOf(g).line, x)
      BY <3>1, <3>3 DEF LineStates
    <3>5. FieldLine(Append(LinesOf(g).line, x), e)
      BY <2>1, <2>4, FieldLineAppend
    <3> QED
      BY <2>4, <3>1, <3>4, <3>5
  <2>11. Append(t, x) # <<>>
    BY <2>2
  <2>12. Append(g, x) \in Seq(Tokens)
    BY <2>1, <2>4
  <2>13. AfterDigits(u, Append(t, x), e, v)
    BY <2>3, <2>7, <2>8, <2>9, <2>10, <2>11, <2>12 DEF AfterDigits
  <2> QED
    BY <2>2, <2>13
<1>4. Seq(DigitSet) \subseteq S
  <2> HIDE DEF S
  <2> QED
    BY <1>2, <1>3, AppendInduction
<1> QED
  BY <1>4

(* The whole line: it sets the element, and is rewritten as it is.         *)
LineWritten(u, t, e, v) ==
  LET q == Read(u) IN
    /\ t \in Seq(Tokens) /\ Tame(t, v) /\ Rewritten(t, v).text = t
    /\ Read(t).place = "start" /\ Read(t).settings = [q.settings EXCEPT ![e] = v[e]]
    /\ Read(t).given = q.given \union {e}
    /\ Read(t).empty = q.empty /\ Read(t).clean = q.clean
    /\ LinesOf(t).kept = LinesOf(u).kept /\ LinesOf(t).line = <<>>

LEMMA NotUserLine ==
  ASSUME NEW l \in LineStates, NEW e \in ElementNames, FieldLine(l.line, e)
  PROVE  LineToken(l, "nl").kept = l.kept /\ LineToken(l, "nl").line = <<>>
<1> DEFINE line == Append(l.line, "nl")
<1>1. FieldLine(line, e)
  BY FieldLineAppend, TokensType
<1>2. line[1] = "." /\ line[2] \in ElementNames
  BY <1>1 DEF FieldLine
<1>3. ~IsUserLine(line)
  <2> HIDE DEF line
  <2> QED
    BY <1>2 DEF IsUserLine
<1> QED
  BY <1>3 DEF LineToken, LineStates

LEMMA ValueWritten ==
  ASSUME NEW u, NEW e, NEW v \in NatValues, ValueFollows(u, e, v)
  PROVE  LineWritten(u, u \o IntegerText(v[e]) \o <<"nl">>, e, v)
<1> DEFINE d == IntegerText(v[e])
           q == Read(u)
           g == u \o d
           r == Read(g)
           t == Append(g, "nl")
<1>1. e \in ElementNames /\ v[e] \in Nat /\ v \in Values /\ "nl" \in Tokens /\ u \in Seq(Tokens)
      /\ q \in ReaderStates
  <2>1. "nl" \in Tokens
    BY TokensType
  <2>2. u \in Seq(Tokens) /\ e \in ElementNames
    BY DEF ValueFollows
  <2> QED
    BY <2>1, <2>2, ReadType DEF NatValues, Values
<1>2. d \in Seq(DigitSet) /\ d \in Seq(Tokens) /\ d # <<>> /\ IntegerOf(d) = v[e]
  BY <1>1, IntegerTextDigits
<1>3. AfterDigits(u, d, e, v)
  <2> HIDE DEF d
  <2> QED
    BY <1>2, DigitsRead
<1> HIDE DEF d
<1>4. /\ g \in Seq(Tokens) /\ Tame(g, v) /\ Rewritten(g, v).text = u
      /\ r = [q EXCEPT !.place = "value", !.value = d]
      /\ LinesOf(g).kept = LinesOf(u).kept /\ FieldLine(LinesOf(g).line, e)
  BY <1>2, <1>3 DEF AfterDigits
<1>5. /\ r.place = "value" /\ r.elem = e /\ r.value = d /\ r.settings = q.settings /\ r.given = q.given
      /\ r.empty = q.empty /\ r.clean = q.clean /\ r \in ReaderStates
  BY <1>1, <1>4, ReadType DEF ValueFollows, ReaderStates
<1>6. u \o d \o <<"nl">> = t
  <2> HIDE DEF g
  <2> QED
    BY <1>1, <1>4, OneToken DEF g
<1> HIDE DEF g
<1>7. t \in Seq(Tokens) /\ Read(t) = ReadToken(r, "nl")
  BY <1>1, <1>4, AppendFacts, ReadAppend
<1>8. ReadToken(r, "nl") = EndOfValue(r)
  BY <1>5 DEF ReadToken, AtValue
<1>9. EndOfValue(r) = [r EXCEPT !.place = "start", !.settings[e] = v[e], !.given = @ \union {e}]
  <2> HIDE DEF r
  <2> QED
    BY <1>1, <1>2, <1>5 DEF EndOfValue
<1>10. /\ Read(t).place = "start" /\ Read(t).settings = [q.settings EXCEPT ![e] = v[e]]
       /\ Read(t).given = q.given \union {e}
       /\ Read(t).empty = q.empty /\ Read(t).clean = q.clean
  <2> DEFINE z == [r EXCEPT !.place = "start", !.settings[e] = v[e], !.given = @ \union {e}]
  <2> HIDE DEF r, t, q
  <2>1. z.place = "start" /\ z.given = r.given \union {e} /\ z.empty = r.empty /\ z.clean = r.clean
    BY <1>5 DEF ReaderStates
  <2>2. z.settings = [r.settings EXCEPT ![e] = v[e]]
    BY <1>5 DEF ReaderStates
  <2>3. Read(t) = z
    BY <1>7, <1>8, <1>9
  <2> HIDE DEF z
  <2> QED
    BY <1>5, <2>1, <2>2, <2>3
<1>11. Tame(t, v)
  <2>1. Len(g) \in 0 .. Len(g)
    BY <1>4
  <2>2. Close(r, v)
    BY <1>4, <2>1 DEF Tame, Read
  <2>3. Close(Read(t), v)
    <3>1. \A a \in ElementNames : Read(t).settings[a] \in {q.settings[a], v[a]}
      <4>1. q.settings \in [ElementNames -> Int]
        BY <1>1 DEF ReaderStates
      <4> HIDE DEF t, q
      <4> QED
        BY <1>10, <4>1
    <3>2. \A a \in ElementNames : q.settings[a] \in {Default[a], v[a]}
      BY <1>5, <2>2 DEF Close
    <3> HIDE DEF t, q
    <3> QED
      BY <1>10, <3>1, <3>2 DEF Close
  <2> QED
    BY <1>1, <1>4, <2>3, TameAppend
<1>12. Rewritten(t, v).text = t
  <2>1. Rewritten(t, v) = WriteToken(v, r, "nl", Rewritten(g, v))
    BY <1>1, <1>4, RewrittenAppend
  <2>2. TextAfter(v, r, "nl", Rewritten(g, v)) = Rewritten(g, v).text \o d \o <<"nl">>
    BY <1>1, <1>5 DEF TextAfter, d
  <2> HIDE DEF r, t
  <2> QED
    BY <1>4, <1>6, <2>1, <2>2 DEF WriteToken
<1>13. LinesOf(t).kept = LinesOf(u).kept /\ LinesOf(t).line = <<>>
  <2>1. LinesOf(t) = LineToken(LinesOf(g), "nl") /\ LinesOf(g) \in LineStates
    BY <1>1, <1>4, LinesAppend
  <2> HIDE DEF t
  <2> QED
    BY <1>1, <1>4, <2>1, NotUserLine
<1>14. LineWritten(u, t, e, v)
  <2> HIDE DEF t, q
  <2> QED
    BY <1>7, <1>10, <1>11, <1>12, <1>13 DEF LineWritten, q
<1> QED
  BY <1>6, <1>14 DEF d

-----------------------------------------------------------------------------
(* The writer and the text it has written.                                 *)

PlaceOf(c) ==
  IF c.place \in {"start", "stray", "bare"} THEN "start"
  ELSE IF c.place = "value" /\ c.elem \in ElementNames THEN "spaces"
  ELSE c.place

SameLines(c, l, k) ==
  /\ k.kept = l.kept
  /\ c.place = "start" => l.line = <<>> /\ k.line = <<>>
  /\ c.place = "stray" => k.line = <<>> /\ Len(l.line) >= 1 /\ l.line[1] \notin {"#", "."}
  /\ c.place = "comment" => k.line = l.line
  /\ c.place = "dot" => k.line = <<".">> /\ l.line = <<".">>
  /\ c.place \in {"name", "spaces", "value"} =>
       /\ FieldLine(l.line, c.elem) /\ FieldLine(k.line, c.elem)
       /\ c.elem \notin ElementNames => k.line = l.line

CopyOf(c, w, l, v) ==
  LET q == Read(w.text) IN
    /\ Good(w.text, c.given, v)
    /\ Good(w.base, c.given, v) /\ Read(w.base).place = "start"
    /\ q.place = PlaceOf(c)
    /\ c.place \in {"name", "spaces", "value"} => q.elem = c.elem
    /\ c.place = "spaces" => c.value = <<>>
    /\ c.place = "bare" => ~c.clean
    /\ q.place = "spaces" => q.value = <<>>
    /\ q.place = "value" => q.value = c.value
    /\ c.clean => q.clean /\ SameLines(c, l, LinesOf(w.text))

Copied(t, v) ==
  Read(t).place # "bad" /\ ~Read(t).empty => CopyOf(Read(t), Rewritten(t, v), LinesOf(t), v)

(* One token later.                                                        *)
Copying(c, w, l, v, x) ==
  /\ c \in ReaderStates /\ w \in WriterStates /\ l \in LineStates /\ x \in Tokens
  /\ CopyOf(c, w, l, v)
  /\ c.place # "bad" /\ ~c.empty
  /\ ReadToken(c, x).place # "bad" /\ ~ReadToken(c, x).empty

CopyNext(c, w, l, v, x) ==
  CopyOf(ReadToken(c, x), WriteToken(v, c, x, w), LineToken(l, x), v)

LEMMA OneTokenLine ==
  ASSUME NEW x \in Tokens
  PROVE  Append(<<>>, x) = <<x>> /\ Append(<<>>, x) \in Seq(Tokens) /\ <<x>>[1] = x /\ Len(<<x>>) = 1
OBVIOUS

LEMMA LineTokenCases ==
  ASSUME NEW l \in LineStates, NEW x \in Tokens
  PROVE  /\ x # "nl" => /\ LineToken(l, x).kept = l.kept
                        /\ LineToken(l, x).line = Append(l.line, x)
         /\ x = "nl" => /\ LineToken(l, x).kept =
                             l.kept \union (IF IsUserLine(Append(l.line, x)) THEN {Append(l.line, x)} ELSE {})
                        /\ LineToken(l, x).line = <<>>
<1>1. CASE x # "nl"
  <2>1. LineToken(l, x) = [l EXCEPT !.line = Append(l.line, x)]
    BY <1>1 DEF LineToken
  <2> QED
    BY <1>1, <2>1 DEF LineStates
<1>2. CASE x = "nl"
  BY <1>2 DEF LineToken
<1> QED
  BY <1>1, <1>2

(* The lines of both texts when the writer copies the token.               *)
LEMMA SameLinesCopied ==
  ASSUME NEW c \in ReaderStates, NEW l \in LineStates, NEW k \in LineStates, NEW x \in Tokens,
         SameLines(c, l, k), c.place \notin {"bare", "bad"}, Copies(c, x),
         ReadToken(c, x).place # "bad",
         ~(c.place = "name" /\ x = "nl"),
         ~(c.place \in {"spaces", "value"} /\ c.elem \in ElementNames /\ x = "nl")
  PROVE  SameLines(ReadToken(c, x), LineToken(l, x), LineToken(k, x))
<1> DEFINE R == ReadToken(c, x)
           L == LineToken(l, x)
           K == LineToken(k, x)
<1>0. SUFFICES SameLines(R, L, K)
  OBVIOUS
<1>1. /\ l.line \in Seq(Tokens) /\ k.line \in Seq(Tokens)
  BY DEF LineStates
<1>2. ASSUME l.line = k.line
      PROVE  L.kept = K.kept /\ L.line = K.line
  <2>1. l.kept = k.kept
    BY DEF SameLines
  <2>2. CASE x = "nl"
    <3> DEFINE more(m) == IF IsUserLine(Append(m.line, x)) THEN {Append(m.line, x)} ELSE {}
    <3>1. L.kept = l.kept \union more(l) /\ L.line = <<>>
      BY <2>2, LineTokenCases
    <3>2. K.kept = k.kept \union more(k) /\ K.line = <<>>
      BY <2>2, LineTokenCases
    <3>3. more(l) = more(k)
      BY <1>2
    <3> HIDE DEF L, K, more
    <3> QED
      BY <2>1, <3>1, <3>2, <3>3
  <2>3. CASE x # "nl"
    <3>1. L.kept = l.kept /\ L.line = Append(l.line, x)
      BY <2>3, LineTokenCases
    <3>2. K.kept = k.kept /\ K.line = Append(k.line, x)
      BY <2>3, LineTokenCases
    <3> HIDE DEF L, K
    <3> QED
      BY <1>2, <2>1, <3>1, <3>2
  <2> QED
    BY <2>2, <2>3
<1>3. x = "nl" => L.line = <<>> /\ K.line = <<>>
  BY LineTokenCases
<1>4. x # "nl" => L.line = Append(l.line, x) /\ K.line = Append(k.line, x)
  BY LineTokenCases
<1>5. CASE c.place = "start"
  <2>1. l.line = <<>> /\ k.line = <<>>
    BY <1>5 DEF SameLines
  <2>2. \/ x = "#" /\ R.place = "comment"
        \/ x = "." /\ R.place = "dot"
        \/ x = "nl" /\ R.place = "start"
    BY <1>5 DEF Copies, ReadToken, AtStart, ReaderStates
  <2>3. x = "." => L.line = <<".">> /\ K.line = <<".">>
    BY <1>4, <2>1, OneTokenLine
  <2> HIDE DEF R, L, K
  <2> QED
    BY <1>2, <1>3, <2>1, <2>2, <2>3 DEF SameLines
<1>6. CASE c.place = "stray"
  <2>1. x = "nl" /\ R.place = "start"
    BY <1>6 DEF Copies, ReadToken, ReaderStates
  <2>2. k.line = <<>> /\ Len(l.line) >= 1 /\ l.line[1] \notin {"#", "."} /\ k.kept = l.kept
    BY <1>6 DEF SameLines
  <2>3. ~IsUserLine(Append(l.line, x))
    <3>1. Append(l.line, x)[1] = l.line[1]
      BY <1>1, <2>2
    <3> QED
      BY <2>2, <3>1 DEF IsUserLine
  <2>4. ~IsUserLine(Append(k.line, x))
    <3>1. Append(k.line, x)[1] = "nl"
      BY <2>1, <2>2, OneTokenLine
    <3> QED
      BY <3>1 DEF IsUserLine
  <2>5. L.kept = l.kept /\ K.kept = k.kept
    <3>1. L.kept = l.kept \union {}
      BY <2>1, <2>3, LineTokenCases
    <3>2. K.kept = k.kept \union {}
      BY <2>1, <2>4, LineTokenCases
    <3> HIDE DEF L, K
    <3> QED
      BY <3>1, <3>2
  <2> HIDE DEF R, L, K
  <2> QED
    BY <1>3, <2>1, <2>2, <2>5 DEF SameLines
<1>7. CASE c.place = "comment"
  <2>1. R.place = IF x = "nl" THEN "start" ELSE "comment"
    BY <1>7 DEF ReadToken, ReaderStates
  <2>2. l.line = k.line
    BY <1>7 DEF SameLines
  <2> HIDE DEF R, L, K
  <2> QED
    BY <1>2, <1>3, <2>1, <2>2 DEF SameLines
<1>8. CASE c.place = "dot"
  <2>1. x \notin Marks /\ R.place = "name" /\ R.elem = x
    BY <1>8 DEF ReadToken, AtDot, ReaderStates
  <2>2. l.line = <<".">> /\ k.line = <<".">> /\ x # "nl"
    BY <1>8, <2>1 DEF SameLines, Marks
  <2>3. FieldLine(L.line, x)
    <3>1. "." \in Tokens
      BY TokensType
    <3>2. \A a \in Tokens : Append(<<a>>, x) \in Seq(Tokens) /\ Len(Append(<<a>>, x)) = 2
                            /\ Append(<<a>>, x)[1] = a /\ Append(<<a>>, x)[2] = x
      OBVIOUS
    <3>3. L.line = Append(<<".">>, x)
      BY <1>4, <2>2
    <3> HIDE DEF L
    <3> QED
      BY <3>1, <3>2, <3>3 DEF FieldLine
  <2> HIDE DEF R, L, K
  <2> QED
    BY <1>2, <2>1, <2>2, <2>3 DEF SameLines
<1>9. CASE c.place \in {"name", "spaces", "value"} /\ x # "nl"
  <2>1. R.place \in {"name", "spaces", "value"} /\ R.elem = c.elem
    <3>1. CASE c.place = "name"
      BY <1>9, <3>1 DEF ReadToken, AtName, ReaderStates
    <3>2. CASE c.place \in {"spaces", "value"}
      <4>1. \/ R = c \/ R = [c EXCEPT !.place = "bad"]
            \/ R = [c EXCEPT !.place = "value", !.value = Append(@, x)]
        BY <1>9, <3>2 DEF ReadToken, AtValue
      <4> HIDE DEF R
      <4> QED
        BY <1>9, <4>1 DEF ReaderStates, R
    <3> QED
      BY <1>9, <3>1, <3>2
  <2>2. /\ FieldLine(l.line, c.elem) /\ FieldLine(k.line, c.elem)
        /\ c.elem \notin ElementNames => k.line = l.line
        /\ k.kept = l.kept
    BY <1>9 DEF SameLines
  <2>3. FieldLine(L.line, c.elem) /\ FieldLine(K.line, c.elem)
    BY <1>4, <1>9, <2>2, FieldLineAppend
  <2>4. L.kept = l.kept /\ K.kept = k.kept
    BY <1>9, LineTokenCases
  <2>5. c.elem \notin ElementNames => K.line = L.line
    BY <1>2, <2>2
  <2> HIDE DEF R, L, K
  <2> QED
    BY <2>1, <2>2, <2>3, <2>4, <2>5 DEF SameLines
<1>10. CASE c.place \in {"spaces", "value"} /\ c.elem \notin ElementNames /\ x = "nl"
  <2>1. R.place = "start"
    BY <1>10 DEF ReadToken, AtValue, EndOfValue, ReaderStates
  <2>2. l.line = k.line
    BY <1>10 DEF SameLines
  <2> HIDE DEF R, L, K
  <2> QED
    BY <1>2, <1>3, <1>10, <2>1, <2>2 DEF SameLines
<1> QED
  BY <1>5, <1>6, <1>7, <1>8, <1>9, <1>10 DEF ReaderStates, Places

(* A token that is copied: the reader of the text follows the reader of    *)
(* the file.                                                               *)
Follows(R, q1, c, q) ==
  /\ R.given = c.given
  /\ q1.place = PlaceOf(R) /\ q1.given = q.given /\ q1.settings = q.settings /\ ~q1.empty
  /\ R.place \in {"name", "spaces", "value"} => q1.elem = R.elem
  /\ R.place = "spaces" => R.value = <<>>
  /\ R.place = "bare" => ~R.clean
  /\ q1.place = "spaces" => q1.value = <<>>
  /\ q1.place = "value" => q1.value = R.value
  /\ R.clean => q1.clean

LEMMA FollowsCopied ==
  ASSUME NEW c \in ReaderStates, NEW w \in WriterStates, NEW l \in LineStates, NEW v, NEW x \in Tokens,
         Copying(c, w, l, v, x), Copies(c, x),
         ~(c.place = "name" /\ x = "nl"),
         ~(c.place \in {"spaces", "value"} /\ c.elem \in ElementNames /\ x = "nl")
  PROVE  Follows(ReadToken(c, x), ReadToken(Read(w.text), x), c, Read(w.text))
<1> DEFINE R == ReadToken(c, x)
           q == Read(w.text)
           q1 == ReadToken(q, x)
<1>0. SUFFICES Follows(R, q1, c, q)
  OBVIOUS
<1>1. q \in ReaderStates
  BY ReadType DEF WriterStates
<1>2. /\ q.place = PlaceOf(c) /\ q.given = c.given /\ ~q.empty /\ c.place # "bad" /\ ~c.empty
      /\ R.place # "bad" /\ ~R.empty
      /\ c.place \in {"name", "spaces", "value"} => q.elem = c.elem
      /\ c.place = "spaces" => c.value = <<>>
      /\ c.place = "bare" => ~c.clean
      /\ q.place = "spaces" => q.value = <<>>
      /\ q.place = "value" => q.value = c.value
      /\ c.clean => q.clean
  BY DEF Copying, CopyOf, Good
<1> HIDE DEF q
<1>3. CASE c.place \in {"start", "stray", "bare"}
  <2>1. q.place = "start"
    BY <1>2, <1>3 DEF PlaceOf
  <2>2. \/ x = "#" /\ R = [c EXCEPT !.place = "comment"] /\ q1 = [q EXCEPT !.place = "comment"]
        \/ x = "." /\ R = [c EXCEPT !.place = "dot"] /\ q1 = [q EXCEPT !.place = "dot"]
        \/ x = "nl" /\ R = [c EXCEPT !.place = "start"] /\ q1 = [q EXCEPT !.place = "start"]
    BY <1>1, <1>2, <1>3, <2>1 DEF Copies, ReadToken, AtStart, ReaderStates
  <2> HIDE DEF R, q1
  <2> QED
    BY <1>1, <1>2, <2>2 DEF Follows, PlaceOf, ReaderStates
<1>4. CASE c.place = "comment"
  <2>1. q.place = "comment"
    BY <1>2, <1>4 DEF PlaceOf
  <2>2. \/ R = [c EXCEPT !.place = "start"] /\ q1 = [q EXCEPT !.place = "start"]
        \/ R = c /\ q1 = q
    BY <1>4, <2>1 DEF ReadToken
  <2> HIDE DEF R, q1
  <2> QED
    BY <1>1, <1>2, <1>4, <2>1, <2>2 DEF Follows, PlaceOf, ReaderStates
<1>5. CASE c.place = "dot"
  <2>1. q.place = "dot"
    BY <1>2, <1>5 DEF PlaceOf
  <2>2. x \notin Marks
    BY <1>2, <1>5 DEF ReadToken, AtDot, ReaderStates
  <2>3. /\ R = [c EXCEPT !.place = "name", !.elem = x, !.clean = @ /\ x \notin c.given]
        /\ q1 = [q EXCEPT !.place = "name", !.elem = x, !.clean = @ /\ x \notin q.given]
    BY <1>5, <2>1, <2>2 DEF ReadToken, AtDot
  <2> HIDE DEF R, q1
  <2>4. /\ R.place = "name" /\ R.elem = x /\ R.given = c.given /\ R.clean = (c.clean /\ x \notin c.given)
        /\ q1.place = "name" /\ q1.elem = x /\ q1.given = q.given /\ q1.clean = (q.clean /\ x \notin q.given)
        /\ q1.settings = q.settings /\ q1.empty = q.empty
    BY <1>1, <2>3 DEF ReaderStates
  <2> QED
    BY <1>2, <2>4 DEF Follows, PlaceOf
<1>6. CASE c.place = "name"
  <2>1. q.place = "name"
    BY <1>2, <1>6 DEF PlaceOf
  <2>2. \/ R = [c EXCEPT !.place = "spaces", !.value = <<>>] /\ q1 = [q EXCEPT !.place = "spaces", !.value = <<>>]
        \/ R = c /\ q1 = q
    <3>1. x \notin {"#", "."}
      BY <1>2, <1>6 DEF ReadToken, AtName, ReaderStates
    <3> QED
      BY <1>6, <2>1, <3>1 DEF ReadToken, AtName
  <2> HIDE DEF R, q1
  <2> QED
    BY <1>1, <1>2, <1>6, <2>1, <2>2 DEF Follows, PlaceOf, ReaderStates
<1>7. CASE c.place = "spaces" /\ x = "sp"
  <2>1. q.place = "spaces"
    BY <1>2, <1>7 DEF PlaceOf
  <2>2. R = c /\ q1 = q
    BY <1>7, <2>1 DEF ReadToken, AtValue, Marks
  <2> HIDE DEF R, q1
  <2> QED
    BY <1>1, <1>2, <1>7, <2>1, <2>2 DEF Follows, PlaceOf, ReaderStates
<1>8. CASE c.place \in {"spaces", "value"} /\ ~(c.place = "spaces" /\ x = "sp") /\ x # "nl"
  <2>1. q.place = c.place /\ c.elem \notin ElementNames /\ q.elem = c.elem /\ q.value = c.value
    BY <1>2, <1>8 DEF PlaceOf, Copies
  <2>2. x \notin Marks
    BY <1>2, <1>8 DEF ReadToken, AtValue, ReaderStates, Marks
  <2>3. /\ R = [c EXCEPT !.place = "value", !.value = Append(@, x)]
        /\ q1 = [q EXCEPT !.place = "value", !.value = Append(@, x)]
    BY <1>8, <2>1, <2>2 DEF ReadToken, AtValue, Marks
  <2> HIDE DEF R, q1
  <2>4. /\ R.place = "value" /\ R.elem = c.elem /\ R.given = c.given /\ R.clean = c.clean
        /\ R.value = Append(c.value, x)
        /\ q1.place = "value" /\ q1.elem = q.elem /\ q1.given = q.given /\ q1.clean = q.clean
        /\ q1.settings = q.settings /\ q1.empty = q.empty /\ q1.value = Append(q.value, x)
    BY <1>1, <2>3 DEF ReaderStates
  <2> QED
    BY <1>2, <2>1, <2>4 DEF Follows, PlaceOf
<1>9. CASE c.place \in {"spaces", "value"} /\ x = "nl"
  <2>1. q.place = c.place /\ c.elem \notin ElementNames /\ q.elem = c.elem /\ q.value = c.value
    BY <1>2, <1>9 DEF PlaceOf
  <2>2. c.value # <<>>
    BY <1>2, <1>9, <2>1 DEF ReadToken, AtValue, EndOfValue, ReaderStates
  <2>3. R = [c EXCEPT !.place = "start"] /\ q1 = [q EXCEPT !.place = "start"]
    BY <1>9, <2>1, <2>2 DEF ReadToken, AtValue, EndOfValue
  <2> HIDE DEF R, q1
  <2> QED
    BY <1>1, <1>2, <2>3 DEF Follows, PlaceOf, ReaderStates
<1> QED
  BY <1>2, <1>3, <1>4, <1>5, <1>6, <1>7, <1>8, <1>9 DEF ReaderStates, Places

-----------------------------------------------------------------------------
(* Where the reader is in a line, and what the line begins with.           *)
LineFollows(c, l) ==
  /\ c.place \in {"start", "bare"} => l.line = <<>>
  /\ c.place = "dot" => l.line = <<".">>
  /\ c.place \in {"name", "spaces", "value"} => FieldLine(l.line, c.elem)

LEMMA LineFollowsNext ==
  ASSUME NEW c \in ReaderStates, NEW l \in LineStates, NEW x \in Tokens, LineFollows(c, l)
  PROVE  LineFollows(ReadToken(c, x), LineToken(l, x))
<1> DEFINE R == ReadToken(c, x)
           L == LineToken(l, x)
<1>0. SUFFICES LineFollows(R, L)
  OBVIOUS
<1>1. l.line \in Seq(Tokens)
  BY DEF LineStates
<1>2. x = "nl" => L.line = <<>>
  BY LineTokenCases
<1>3. x # "nl" => L.line = Append(l.line, x)
  BY LineTokenCases
<1>4. CASE c.place \in {"start", "bare"}
  <2>1. \/ R.place \in {"comment", "stray", "bad"}
        \/ x = "." /\ R.place = "dot"
        \/ x = "nl" /\ R.place = "start"
    BY <1>4 DEF ReadToken, AtStart, ReaderStates
  <2>2. x = "." => L.line = <<".">>
    BY <1>3, <1>4, OneTokenLine DEF LineFollows
  <2> HIDE DEF R, L
  <2> QED
    BY <1>2, <2>1, <2>2 DEF LineFollows
<1>5. CASE c.place \in {"comment", "stray"}
  <2>1. R.place \in {"comment", "stray", "bad"} \/ (x = "nl" /\ R.place = "start")
    <3>1. CASE x = "nl"
      BY <1>5, <3>1 DEF ReadToken, ReaderStates
    <3>2. CASE x \in {"#", "."}
      BY <1>5, <3>2 DEF ReadToken, ReaderStates
    <3>3. CASE x \notin {"nl", "#", "."}
      <4>1. \/ c.place = "comment" /\ R = c
            \/ c.place = "stray" /\ R = [c EXCEPT !.place = "stray"]
        BY <1>5, <3>3 DEF ReadToken
      <4> HIDE DEF R
      <4> QED
        BY <4>1 DEF ReaderStates
    <3> QED
      BY <3>1, <3>2, <3>3
  <2> HIDE DEF R, L
  <2> QED
    BY <1>2, <2>1 DEF LineFollows
<1>6. CASE c.place = "dot"
  <2>1. R.place = "bad" \/ (x \notin Marks /\ R.place = "name" /\ R.elem = x)
    <3>1. R = AtDot(c, x)
      BY <1>6 DEF ReadToken
    <3>2. CASE x \in Marks
      <4>1. R = [c EXCEPT !.place = "bad"]
        BY <3>1, <3>2 DEF AtDot
      <4> HIDE DEF R
      <4> QED
        BY <4>1 DEF ReaderStates
    <3>3. CASE x \notin Marks
      <4>1. R = [c EXCEPT !.place = "name", !.elem = x, !.clean = @ /\ x \notin c.given]
        BY <3>1, <3>3 DEF AtDot
      <4>2. R.place = "name" /\ R.elem = x
        BY <4>1 DEF ReaderStates
      <4> QED
        BY <3>3, <4>2
    <3> QED
      BY <3>2, <3>3
  <2>2. x # "nl" => FieldLine(L.line, x)
    <3>1. "." \in Tokens
      BY TokensType
    <3>2. \A a \in Tokens : Append(<<a>>, x) \in Seq(Tokens) /\ Len(Append(<<a>>, x)) = 2
                            /\ Append(<<a>>, x)[1] = a /\ Append(<<a>>, x)[2] = x
      OBVIOUS
    <3>3. l.line = <<".">>
      BY <1>6 DEF LineFollows
    <3>4. x # "nl" => L.line = Append(<<".">>, x)
      BY <1>3, <3>3
    <3> HIDE DEF L
    <3>5. CASE x # "nl"
      <4>1. L.line = Append(<<".">>, x)
        BY <3>4, <3>5
      <4>2. L.line \in Seq(Tokens) /\ Len(L.line) = 2 /\ L.line[1] = "." /\ L.line[2] = x
        BY <3>1, <3>2, <4>1
      <4> QED
        BY <4>2 DEF FieldLine
    <3> QED
      BY <3>5
  <2>3. x \notin Marks => x # "nl"
    BY DEF Marks
  <2> HIDE DEF R, L
  <2> QED
    BY <2>1, <2>2, <2>3 DEF LineFollows
<1>7. CASE c.place = "name"
  <2>1. \/ R.place = "bad"
        \/ x = "nl" /\ R.place = "bare"
        \/ x # "nl" /\ R.place \in {"name", "spaces"} /\ R.elem = c.elem
    BY <1>7 DEF ReadToken, AtName, ReaderStates
  <2>2. x # "nl" => FieldLine(L.line, c.elem)
    BY <1>3, <1>7, FieldLineAppend DEF LineFollows
  <2> HIDE DEF R, L
  <2> QED
    BY <1>2, <2>1, <2>2 DEF LineFollows
<1>8. CASE c.place \in {"spaces", "value"}
  <2>1. \/ R.place = "bad"
        \/ x = "nl" /\ R.place = "start"
        \/ x # "nl" /\ R.place \in {"spaces", "value"} /\ R.elem = c.elem
    <3>1. CASE x = "nl"
      BY <1>8, <3>1 DEF ReadToken, AtValue, EndOfValue, ReaderStates
    <3>2. CASE x # "nl"
      <4>1. \/ R = c \/ R = [c EXCEPT !.place = "bad"]
            \/ R = [c EXCEPT !.place = "value", !.value = Append(@, x)]
        BY <1>8, <3>2 DEF ReadToken, AtValue
      <4> HIDE DEF R
      <4> QED
        BY <1>8, <3>2, <4>1 DEF ReaderStates
    <3> QED
      BY <3>1, <3>2
  <2>2. x # "nl" => FieldLine(L.line, c.elem)
    BY <1>3, <1>8, FieldLineAppend DEF LineFollows
  <2> HIDE DEF R, L
  <2> QED
    BY <1>2, <2>1, <2>2 DEF LineFollows
<1>9. CASE c.place = "bad"
  <2>1. R.place = "bad"
    BY <1>9, TokenLasts
  <2> HIDE DEF R, L
  <2> QED
    BY <2>1 DEF LineFollows
<1> QED
  BY <1>4, <1>5, <1>6, <1>7, <1>8, <1>9 DEF ReaderStates, Places

LEMMA LinesFollow ==
  ASSUME NEW f \in Seq(Tokens)
  PROVE  LineFollows(Read(f), LinesOf(f))
<1> DEFINE S == {t \in Seq(Tokens) : LineFollows(Read(t), LinesOf(t))}
<1>1. <<>> \in S
  <2>1. LineFollows(Unread, NoLine)
    BY DEF LineFollows, Unread, NoLine
  <2>2. LineFollows(Read(<<>>), LinesOf(<<>>))
    BY <2>1, ReadEmpty, LinesEmpty
  <2> QED
    BY <2>2, EmptyText
<1>2. ASSUME NEW t \in Seq(Tokens), NEW x \in Tokens, t \in S
      PROVE  Append(t, x) \in S
  <2>1. LineFollows(Read(t), LinesOf(t))
    BY <1>2
  <2>2. LineFollows(ReadToken(Read(t), x), LineToken(LinesOf(t), x))
    BY <2>1, ReadType, LinesAppend, LineFollowsNext
  <2>3. LineFollows(Read(Append(t, x)), LinesOf(Append(t, x)))
    BY <2>2, ReadAppend, LinesAppend
  <2> QED
    BY <2>3, AppendFacts
<1>3. Seq(Tokens) \subseteq S
  <2> HIDE DEF S
  <2> QED
    BY <1>1, <1>2, AppendInduction
<1> QED
  BY <1>3

-----------------------------------------------------------------------------
(* The cases of the writer's step.                                         *)

LEMMA CopyCopied ==
  ASSUME NEW c \in ReaderStates, NEW w \in WriterStates, NEW l \in LineStates, NEW v \in NatValues,
         NEW x \in Tokens, Copying(c, w, l, v, x), Copies(c, x),
         ~(c.place = "name" /\ x = "nl"),
         ~(c.place \in {"spaces", "value"} /\ c.elem \in ElementNames /\ x = "nl")
  PROVE  CopyNext(c, w, l, v, x)
<1> DEFINE R == ReadToken(c, x)
           W == WriteToken(v, c, x, w)
           L == LineToken(l, x)
           q == Read(w.text)
           q1 == ReadToken(q, x)
           t == Append(w.text, x)
<1>0. SUFFICES CopyOf(R, W, L, v)
  BY DEF CopyNext
<1>1. w.text \in Seq(Tokens) /\ w.base \in Seq(Tokens) /\ q \in ReaderStates /\ v \in Values
  BY ReadType DEF WriterStates, NatValues, Values
<1>2. Follows(R, q1, c, q)
  BY FollowsCopied
<1>3. CopyOf(c, w, l, v) /\ R.place # "bad"
  BY DEF Copying
<1>4. /\ Good(w.text, c.given, v) /\ Good(w.base, c.given, v) /\ Read(w.base).place = "start"
      /\ q.place = PlaceOf(c)
      /\ c.place \in {"name", "spaces", "value"} => q.elem = c.elem
      /\ c.place = "bare" => ~c.clean
      /\ c.clean => q.clean /\ SameLines(c, l, LinesOf(w.text))
  BY <1>3 DEF CopyOf
<1>41. q.place = PlaceOf(c)
  BY <1>4
<1>42. c.place \in {"name", "spaces", "value"} => q.elem = c.elem
  BY <1>4
<1>5. W.text = t /\ W.base = IF R.place \in {"start", "bare"} THEN t ELSE w.base
  <2>1. TextAfter(v, c, x, w) = t
    BY DEF TextAfter
  <2> HIDE DEF R, t
  <2> QED
    BY <2>1 DEF WriteToken, R
<1>6. Good(t, c.given, v) /\ Read(t) = q1
  <2>1. q1.place # "bad" /\ q1.given = q.given /\ q1.settings = q.settings /\ ~q1.empty
    <3>1. PlaceOf(R) # "bad"
      BY <1>3 DEF PlaceOf
    <3> QED
      BY <1>2, <3>1 DEF Follows
  <2>2. Copies(q, x)
    <3> HIDE DEF q
    <3>1. \/ c.place \in {"start", "bare"} /\ q.place = "start" /\ x \in {"#", ".", "nl"}
          \/ c.place = "stray" /\ q.place = "start" /\ x = "nl"
          \/ /\ c.place \in {"spaces", "value"} /\ q.place = c.place
             /\ q.elem = c.elem /\ (c.elem \notin ElementNames \/ (c.place = "spaces" /\ x = "sp"))
          \/ q.place \notin {"start", "bare", "stray", "spaces", "value"}
      BY <1>41, <1>42 DEF Copies, PlaceOf
    <3> QED
      BY <3>1 DEF Copies
  <2>3. ~(q.place = "name" /\ x = "nl")
    <3> HIDE DEF q
    <3> QED
      BY <1>41 DEF PlaceOf
  <2>4. ~(q.place \in {"spaces", "value"} /\ q.elem \in ElementNames /\ x = "nl")
    <3>1. q.place \in {"spaces", "value"} => c.place \in {"spaces", "value"}
      <4> HIDE DEF q
      <4> QED
        BY <1>41 DEF PlaceOf
    <3> HIDE DEF q
    <3> QED
      BY <1>42, <3>1
  <2> QED
    BY <1>4, <2>1, <2>2, <2>3, <2>4, GoodAppend
<1>7. R.given = c.given
  BY <1>2 DEF Follows
<1>8. CASE R.clean
  <2>1. c.clean
    BY <1>8, TokenLasts
  <2>2. c.place # "bare" /\ c.place # "bad" /\ SameLines(c, l, LinesOf(w.text))
    BY <1>4, <2>1 DEF Copying
  <2>3. LinesOf(w.text) \in LineStates /\ LinesOf(t) = LineToken(LinesOf(w.text), x)
    BY <1>1, LinesAppend
  <2>4. SameLines(R, L, LineToken(LinesOf(w.text), x))
    BY <1>3, <2>2, <2>3, SameLinesCopied
  <2>5. SameLines(R, L, LinesOf(t))
    BY <2>3, <2>4
  <2> HIDE DEF R, W, L, q1, q, t
  <2> QED
    BY <1>2, <1>4, <1>5, <1>6, <1>7, <2>5 DEF CopyOf, Follows, PlaceOf
<1>9. CASE ~R.clean
  <2> HIDE DEF R, W, L, q1, q, t
  <2> QED
    BY <1>2, <1>4, <1>5, <1>6, <1>7, <1>9 DEF CopyOf, Follows, PlaceOf
<1> QED
  BY <1>8, <1>9

LEMMA CopyStray ==
  ASSUME NEW c \in ReaderStates, NEW w \in WriterStates, NEW l \in LineStates, NEW v \in NatValues,
         NEW x \in Tokens, Copying(c, w, l, v, x),
         c.place \in {"start", "stray"}, x \notin {"#", ".", "nl"}
  PROVE  CopyNext(c, w, l, v, x)
<1> DEFINE R == ReadToken(c, x)
           W == WriteToken(v, c, x, w)
           L == LineToken(l, x)
<1>0. SUFFICES CopyOf(R, W, L, v)
  BY DEF CopyNext
<1>1. CopyOf(c, w, l, v)
  BY DEF Copying
<1>2. R = [c EXCEPT !.place = "stray"]
  BY DEF ReadToken, AtStart
<1>3. R.place = "stray" /\ R.given = c.given /\ R.clean = c.clean
  BY <1>2 DEF ReaderStates
<1>4. W.text = w.text /\ W.base = w.base
  <2>1. ~Copies(c, x)
    BY DEF Copies
  <2>2. TextAfter(v, c, x, w) = w.text
    BY <2>1 DEF TextAfter
  <2> HIDE DEF R
  <2> QED
    BY <1>3, <2>2 DEF WriteToken, R
<1>5. SameLines(c, l, LinesOf(w.text)) => SameLines(R, L, LinesOf(w.text))
  <2> SUFFICES ASSUME SameLines(c, l, LinesOf(w.text))
               PROVE  SameLines(R, L, LinesOf(w.text))
    OBVIOUS
  <2> DEFINE k == LinesOf(w.text)
  <2>1. k.kept = l.kept /\ k.line = <<>> /\ l.line \in Seq(Tokens)
        /\ (l.line = <<>> \/ (Len(l.line) >= 1 /\ l.line[1] \notin {"#", "."}))
    <3>1. l.line \in Seq(Tokens) /\ k.kept = l.kept
      BY DEF SameLines, LineStates
    <3>2. CASE c.place = "start"
      <4>1. k.line = <<>> /\ l.line = <<>>
        BY <3>2 DEF SameLines
      <4> QED
        BY <3>1, <4>1
    <3>3. CASE c.place = "stray"
      BY <3>1, <3>3 DEF SameLines
    <3> QED
      BY <3>2, <3>3
  <2>2. L.line = Append(l.line, x) /\ L.kept = l.kept
    BY LineTokenCases
  <2>3. Len(L.line) >= 1 /\ L.line[1] \notin {"#", "."}
    <3>1. CASE l.line = <<>>
      BY <2>2, <3>1, OneTokenLine
    <3>2. CASE Len(l.line) >= 1 /\ l.line[1] \notin {"#", "."}
      <4>1. Len(Append(l.line, x)) >= 1 /\ Append(l.line, x)[1] = l.line[1]
        BY <2>1, <3>2
      <4> QED
        BY <2>2, <3>2, <4>1
    <3> QED
      BY <2>1, <3>1, <3>2
  <2> HIDE DEF R, L, k
  <2>4. SameLines(R, L, k)
    BY <1>3, <2>1, <2>2, <2>3 DEF SameLines
  <2> QED
    BY <2>4 DEF k
<1> HIDE DEF R, W, L
<1> QED
  BY <1>1, <1>3, <1>4, <1>5 DEF CopyOf, PlaceOf

LEMMA CopyValueToken ==
  ASSUME NEW c \in ReaderStates, NEW w \in WriterStates, NEW l \in LineStates, NEW v \in NatValues,
         NEW x \in Tokens, Copying(c, w, l, v, x),
         c.place \in {"spaces", "value"}, c.elem \in ElementNames, x # "nl",
         ~(c.place = "spaces" /\ x = "sp")
  PROVE  CopyNext(c, w, l, v, x)
<1> DEFINE R == ReadToken(c, x)
           W == WriteToken(v, c, x, w)
           L == LineToken(l, x)
<1>0. SUFFICES CopyOf(R, W, L, v)
  BY DEF CopyNext
<1>1. CopyOf(c, w, l, v) /\ R.place # "bad"
  BY DEF Copying
<1>2. R = [c EXCEPT !.place = "value", !.value = Append(@, x)]
  <2>1. \/ R = [c EXCEPT !.place = "bad"]
        \/ R = [c EXCEPT !.place = "value", !.value = Append(@, x)]
    BY DEF ReadToken, AtValue
  <2> HIDE DEF R
  <2> QED
    BY <1>1, <2>1 DEF ReaderStates
<1>3. R.place = "value" /\ R.given = c.given /\ R.clean = c.clean /\ R.elem = c.elem
  <2> HIDE DEF R
  <2> QED
    BY <1>2 DEF ReaderStates
<1>4. W.text = w.text /\ W.base = w.base
  <2>1. ~Copies(c, x)
    BY DEF Copies
  <2>2. TextAfter(v, c, x, w) = w.text
    BY <2>1 DEF TextAfter
  <2> HIDE DEF R
  <2> QED
    BY <1>3, <2>2 DEF WriteToken, R
<1>5. SameLines(c, l, LinesOf(w.text)) => SameLines(R, L, LinesOf(w.text))
  <2> SUFFICES ASSUME SameLines(c, l, LinesOf(w.text))
               PROVE  SameLines(R, L, LinesOf(w.text))
    OBVIOUS
  <2> DEFINE k == LinesOf(w.text)
  <2>1. k.kept = l.kept /\ FieldLine(l.line, c.elem) /\ FieldLine(k.line, c.elem)
    BY DEF SameLines
  <2>2. L.line = Append(l.line, x) /\ L.kept = l.kept
    BY LineTokenCases
  <2>3. FieldLine(L.line, c.elem)
    BY <2>1, <2>2, FieldLineAppend
  <2> HIDE DEF R, L, k
  <2>4. SameLines(R, L, k)
    BY <1>3, <2>1, <2>2, <2>3 DEF SameLines
  <2> QED
    BY <2>4 DEF k
<1> HIDE DEF R, W, L
<1> QED
  BY <1>1, <1>3, <1>4, <1>5 DEF CopyOf, PlaceOf

LEMMA CopyBare ==
  ASSUME NEW c \in ReaderStates, NEW w \in WriterStates, NEW l \in LineStates, NEW v \in NatValues,
         NEW x \in Tokens, Copying(c, w, l, v, x), c.place = "name", x = "nl"
  PROVE  CopyNext(c, w, l, v, x)
<1> DEFINE R == ReadToken(c, x)
           W == WriteToken(v, c, x, w)
           q == Read(w.base)
           q1 == ReadToken(q, x)
           t == Append(w.base, x)
<1>0. SUFFICES CopyOf(R, W, LineToken(l, x), v)
  BY DEF CopyNext
<1>1. CopyOf(c, w, l, v)
  BY DEF Copying
<1>2. R.place = "bare" /\ R.given = c.given /\ ~R.clean
  BY DEF ReadToken, AtName, ReaderStates
<1>3. W.text = t /\ W.base = t
  <2>1. TextAfter(v, c, x, w) = t
    BY DEF TextAfter
  <2> HIDE DEF R, t
  <2> QED
    BY <1>2, <2>1 DEF WriteToken, R
<1>4. Good(w.base, c.given, v) /\ q.place = "start"
  BY <1>1 DEF CopyOf
<1>5. q1 = [q EXCEPT !.place = "start"]
  BY <1>4 DEF ReadToken, AtStart
<1>6. w.base \in Seq(Tokens) /\ q \in ReaderStates /\ ~q.empty
  BY <1>4, ReadType DEF Good
<1>7. q1.place = "start" /\ q1.given = q.given /\ q1.settings = q.settings /\ ~q1.empty
  <2> HIDE DEF q, q1
  <2> QED
    BY <1>5, <1>6 DEF ReaderStates
<1>8. Copies(q, x)
  BY <1>4 DEF Copies
<1>9. Good(t, c.given, v) /\ Read(t) = q1
  BY <1>4, <1>7, <1>8, GoodAppend
<1> HIDE DEF R, W, q, q1, t
<1> QED
  BY <1>2, <1>3, <1>7, <1>9 DEF CopyOf, PlaceOf

LEMMA CopyValue ==
  ASSUME NEW c \in ReaderStates, NEW w \in WriterStates, NEW l \in LineStates, NEW v \in NatValues,
         NEW x \in Tokens, Copying(c, w, l, v, x),
         c.place \in {"spaces", "value"}, c.elem \in ElementNames, x = "nl"
  PROVE  CopyNext(c, w, l, v, x)
<1> DEFINE R == ReadToken(c, x)
           W == WriteToken(v, c, x, w)
           L == LineToken(l, x)
           e == c.elem
           q == Read(w.text)
           t == w.text \o IntegerText(v[e]) \o <<"nl">>
<1>0. SUFFICES CopyOf(R, W, L, v)
  BY DEF CopyNext
<1>1. CopyOf(c, w, l, v)
  BY DEF Copying
<1>2. R = [c EXCEPT !.place = "start", !.settings[e] = IntegerOf(c.value), !.given = @ \union {e}]
  BY DEF ReadToken, AtValue, EndOfValue
<1>3. R.place = "start" /\ R.given = c.given \union {e} /\ R.clean = c.clean
  <2> HIDE DEF R
  <2> QED
    BY <1>2 DEF ReaderStates
<1>4. W.text = t /\ W.base = t
  <2>1. TextAfter(v, c, x, w) = t
    BY DEF TextAfter
  <2> HIDE DEF R, t
  <2> QED
    BY <1>3, <2>1 DEF WriteToken, R
<1>5. /\ Good(w.text, c.given, v) /\ q.place = "spaces" /\ q.elem = e /\ q.value = <<>>
      /\ c.clean => q.clean /\ SameLines(c, l, LinesOf(w.text))
  BY <1>1 DEF CopyOf, PlaceOf
<1>6. /\ w.text \in Seq(Tokens) /\ q.given = c.given /\ q.settings = SetTo(c.given, v) /\ ~q.empty
      /\ Tame(w.text, v) /\ Rewritten(w.text, v).text = w.text
  BY <1>5 DEF Good
<1>7. ValueFollows(w.text, e, v)
  <2>1. LineFollows(q, LinesOf(w.text))
    BY <1>6, LinesFollow
  <2>2. FieldLine(LinesOf(w.text).line, e)
    BY <1>5, <2>1 DEF LineFollows
  <2> QED
    BY <1>5, <1>6, <2>2 DEF ValueFollows
<1>8. LineWritten(w.text, t, e, v)
  BY <1>7, ValueWritten
<1> HIDE DEF t, R, W
<1>9. /\ t \in Seq(Tokens) /\ Tame(t, v) /\ Rewritten(t, v).text = t
      /\ Read(t).place = "start" /\ Read(t).settings = [q.settings EXCEPT ![e] = v[e]]
      /\ Read(t).given = q.given \union {e} /\ Read(t).empty = q.empty /\ Read(t).clean = q.clean
      /\ LinesOf(t).kept = LinesOf(w.text).kept /\ LinesOf(t).line = <<>>
  BY <1>8 DEF LineWritten
<1>10. [q.settings EXCEPT ![e] = v[e]] = SetTo(c.given \union {e}, v)
  <2>1. [SetTo(c.given, v) EXCEPT ![e] = v[e]] = SetTo(c.given \union {e}, v)
    BY DEF SetTo
  <2> QED
    BY <1>6, <2>1
<1> HIDE DEF q
<1>11. Good(t, c.given \union {e}, v)
  BY <1>6, <1>9, <1>10 DEF Good
<1>12. c.clean => SameLines(R, L, LinesOf(t))
  <2> SUFFICES ASSUME c.clean
               PROVE  SameLines(R, L, LinesOf(t))
    OBVIOUS
  <2>1. LinesOf(w.text).kept = l.kept /\ FieldLine(l.line, e)
    BY <1>5 DEF SameLines
  <2>2. L.kept = l.kept /\ L.line = <<>>
    BY <2>1, NotUserLine
  <2> HIDE DEF L
  <2> QED
    BY <1>3, <1>9, <2>1, <2>2 DEF SameLines
<1> HIDE DEF L
<1> QED
  BY <1>3, <1>4, <1>5, <1>9, <1>11, <1>12 DEF CopyOf, PlaceOf

LEMMA CopyStep ==
  ASSUME NEW c \in ReaderStates, NEW w \in WriterStates, NEW l \in LineStates, NEW v \in NatValues,
         NEW x \in Tokens, Copying(c, w, l, v, x)
  PROVE  CopyNext(c, w, l, v, x)
<1>1. CASE c.place = "name" /\ x = "nl"
  BY <1>1, CopyBare
<1>2. CASE c.place \in {"spaces", "value"} /\ c.elem \in ElementNames /\ x = "nl"
  BY <1>2, CopyValue
<1>3. CASE /\ Copies(c, x) /\ ~(c.place = "name" /\ x = "nl")
           /\ ~(c.place \in {"spaces", "value"} /\ c.elem \in ElementNames /\ x = "nl")
  BY <1>3, CopyCopied
<1>4. CASE /\ ~Copies(c, x)
           /\ ~(c.place \in {"spaces", "value"} /\ c.elem \in ElementNames /\ x = "nl")
  <2>1. ReadToken(c, x).place # "bad"
    BY DEF Copying
  <2>2. \/ c.place \in {"start", "stray"} /\ x \notin {"#", ".", "nl"}
        \/ c.place = "bare" /\ x \notin {"#", ".", "nl"}
        \/ c.place = "stray" /\ x \in {"#", "."}
        \/ /\ c.place \in {"spaces", "value"} /\ c.elem \in ElementNames /\ x # "nl"
           /\ ~(c.place = "spaces" /\ x = "sp")
    BY <1>4 DEF Copies
  <2>3. CASE c.place \in {"start", "stray"} /\ x \notin {"#", ".", "nl"}
    BY <2>3, CopyStray
  <2>4. CASE c.place = "bare" /\ x \notin {"#", ".", "nl"}
    <3>1. ReadToken(c, x).place = "bad"
      BY <2>4 DEF ReadToken, ReaderStates
    <3> QED
      BY <2>1, <3>1
  <2>5. CASE c.place = "stray" /\ x \in {"#", "."}
    <3>1. ReadToken(c, x).place = "bad"
      BY <2>5 DEF ReadToken, ReaderStates
    <3> QED
      BY <2>1, <3>1
  <2>6. CASE /\ c.place \in {"spaces", "value"} /\ c.elem \in ElementNames /\ x # "nl"
             /\ ~(c.place = "spaces" /\ x = "sp")
    BY <2>6, CopyValueToken
  <2> QED
    BY <2>2, <2>3, <2>4, <2>5, <2>6
<1> QED
  BY <1>1, <1>2, <1>3, <1>4

LEMMA NothingGood ==
  ASSUME NEW v \in NatValues
  PROVE  Good(<<>>, {}, v)
<1>1. Default = SetTo({}, v)
  <2>1. Default \in [ElementNames -> Int]
    BY ConfigAssumption
  <2> QED
    BY <2>1 DEF SetTo
<1>2. Read(<<>>) = Unread /\ Rewritten(<<>>, v) = Unwritten
  BY ReadEmpty, RewrittenEmpty DEF NatValues, Values
<1>3. Tame(<<>>, v)
  <2>1. ASSUME NEW n \in 0 .. Len(<<>>)
        PROVE  Close(Reading(<<>>)[n], v)
    <3>1. n = Len(<<>>)
      BY EmptyText
    <3>2. Reading(<<>>)[n] = Unread
      BY <1>2, <3>1 DEF Read
    <3> QED
      BY <3>2 DEF Close, Unread
  <2> QED
    BY <2>1 DEF Tame
<1> QED
  BY <1>1, <1>2, <1>3, EmptyText DEF Good, Unread, Unwritten

LEMMA WrittenIsCopied ==
  ASSUME NEW f \in Seq(Tokens), NEW v \in NatValues
  PROVE  Copied(f, v)
<1> DEFINE S == {t \in Seq(Tokens) : Copied(t, v)}
<1>0. v \in Values
  BY DEF NatValues, Values
<1>1. <<>> \in S
  <2>1. CopyOf(Unread, Unwritten, NoLine, v)
    <3>1. Read(Unwritten.text) = Unread /\ Read(Unwritten.base) = Unread
      BY ReadEmpty DEF Unwritten
    <3>2. Good(Unwritten.text, Unread.given, v) /\ Good(Unwritten.base, Unread.given, v)
      BY NothingGood DEF Unwritten, Unread
    <3>3. SameLines(Unread, NoLine, LinesOf(Unwritten.text))
      BY LinesEmpty DEF SameLines, Unwritten, Unread, NoLine
    <3> QED
      BY <3>1, <3>2, <3>3 DEF CopyOf, PlaceOf, Unread
  <2>2. Copied(<<>>, v)
    BY <1>0, <2>1, ReadEmpty, RewrittenEmpty, LinesEmpty DEF Copied
  <2> QED
    BY <2>2, EmptyText
<1>2. ASSUME NEW t \in Seq(Tokens), NEW x \in Tokens, t \in S
      PROVE  Append(t, x) \in S
  <2> DEFINE c == Read(t)
             w == Rewritten(t, v)
             l == LinesOf(t)
             g == Append(t, x)
  <2>1. g \in Seq(Tokens) /\ Read(g) = ReadToken(c, x) /\ Rewritten(g, v) = WriteToken(v, c, x, w)
        /\ LinesOf(g) = LineToken(l, x)
    BY <1>0, AppendFacts, ReadAppend, RewrittenAppend, LinesAppend
  <2>2. c \in ReaderStates /\ w \in WriterStates /\ l \in LineStates
    BY <1>0, ReadType, RewrittenType, LinesAppend
  <2>3. Copied(t, v)
    BY <1>2
  <2> HIDE DEF c, w, l, g
  <2>4. Copied(g, v)
    <3> SUFFICES ASSUME Read(g).place # "bad", ~Read(g).empty
                 PROVE  CopyOf(Read(g), Rewritten(g, v), LinesOf(g), v)
      BY DEF Copied
    <3>1. c.place # "bad" /\ ~c.empty
      BY <2>1, <2>2, TokenLasts
    <3>2. CopyOf(c, w, l, v)
      BY <2>3, <3>1 DEF Copied, c, w, l
    <3>3. Copying(c, w, l, v, x)
      BY <2>1, <2>2, <3>1, <3>2 DEF Copying
    <3>4. CopyNext(c, w, l, v, x)
      BY <2>2, <3>3, CopyStep
    <3> QED
      BY <2>1, <3>4 DEF CopyNext
  <2> QED
    BY <2>1, <2>4 DEF g
<1>3. Seq(Tokens) \subseteq S
  <2> HIDE DEF S
  <2> QED
    BY <1>1, <1>2, AppendInduction
<1> QED
  BY <1>3

(* A file that is as it should be has no empty field, and a field that is  *)
(* being read is not yet given.                                            *)
CleanReader(c) ==
  c.clean => /\ ~c.empty
             /\ c.place \in {"name", "spaces", "value"} => c.elem \notin c.given

LEMMA CleanNext ==
  ASSUME NEW c \in ReaderStates, NEW x \in Tokens, CleanReader(c)
  PROVE  CleanReader(ReadToken(c, x))
<1> DEFINE R == ReadToken(c, x)
<1>0. SUFFICES CleanReader(R)
  OBVIOUS
<1>1. CASE c.place \in {"start", "comment", "stray", "bare", "bad"}
  <2>1. R = c \/ \E p \in {"start", "comment", "stray", "dot", "bad"} : R = [c EXCEPT !.place = p]
    BY <1>1 DEF ReadToken, AtStart
  <2> HIDE DEF R
  <2>2. R.place \in {"start", "comment", "stray", "dot", "bare", "bad"} /\ R.clean = c.clean /\ R.empty = c.empty
    BY <1>1, <2>1 DEF ReaderStates
  <2> QED
    BY <2>2 DEF CleanReader
<1>2. CASE c.place = "dot"
  <2>1. \/ R = [c EXCEPT !.place = "bad"]
        \/ R = [c EXCEPT !.place = "name", !.elem = x, !.clean = @ /\ x \notin c.given]
    BY <1>2 DEF ReadToken, AtDot
  <2> HIDE DEF R
  <2>2. \/ R.place = "bad" /\ R.clean = c.clean /\ R.empty = c.empty
        \/ /\ R.place = "name" /\ R.elem = x /\ R.clean = (c.clean /\ x \notin c.given)
           /\ R.empty = c.empty /\ R.given = c.given
    BY <2>1 DEF ReaderStates
  <2> QED
    BY <2>2 DEF CleanReader
<1>3. CASE c.place = "name"
  <2>1. \/ R = [c EXCEPT !.place = "spaces", !.value = <<>>]
        \/ R = [c EXCEPT !.place = "bare", !.clean = FALSE]
        \/ R = [c EXCEPT !.place = "bad"]
        \/ R = c
    BY <1>3 DEF ReadToken, AtName
  <2> HIDE DEF R
  <2>2. \/ R.place = "spaces" /\ R.elem = c.elem /\ R.given = c.given /\ R.clean = c.clean /\ R.empty = c.empty
        \/ ~R.clean
        \/ R.place = "bad" /\ R.clean = c.clean /\ R.empty = c.empty
        \/ R = c
    BY <2>1 DEF ReaderStates
  <2> QED
    BY <1>3, <2>2 DEF CleanReader
<1>4. CASE c.place \in {"spaces", "value"} /\ x # "nl"
  <2>1. \/ R = c \/ R = [c EXCEPT !.place = "bad"]
        \/ R = [c EXCEPT !.place = "value", !.value = Append(@, x)]
    BY <1>4 DEF ReadToken, AtValue
  <2> HIDE DEF R
  <2>2. \/ /\ R.place \in {"spaces", "value"} /\ R.elem = c.elem /\ R.given = c.given
           /\ R.clean = c.clean /\ R.empty = c.empty
        \/ R.place = "bad" /\ R.clean = c.clean /\ R.empty = c.empty
    BY <1>4, <2>1 DEF ReaderStates
  <2> QED
    BY <1>4, <2>2 DEF CleanReader
<1>5. CASE c.place \in {"spaces", "value"} /\ x = "nl"
  <2>1. R = EndOfValue(c)
    BY <1>5 DEF ReadToken, AtValue
  <2>2. R.place = "start" /\ (~R.clean \/ (R.clean = c.clean /\ R.empty = c.empty))
    BY <2>1 DEF EndOfValue, ReaderStates
  <2> HIDE DEF R
  <2> QED
    BY <2>2 DEF CleanReader
<1> QED
  BY <1>1, <1>2, <1>3, <1>4, <1>5 DEF ReaderStates, Places

LEMMA ReadsClean ==
  ASSUME NEW f \in Seq(Tokens)
  PROVE  CleanReader(Read(f))
<1> DEFINE S == {t \in Seq(Tokens) : CleanReader(Read(t))}
<1>1. <<>> \in S
  <2>1. CleanReader(Unread)
    BY DEF CleanReader, Unread
  <2> QED
    BY <2>1, ReadEmpty, EmptyText
<1>2. ASSUME NEW t \in Seq(Tokens), NEW x \in Tokens, t \in S
      PROVE  Append(t, x) \in S
  <2>1. CleanReader(ReadToken(Read(t), x))
    BY <1>2, ReadType, CleanNext
  <2> QED
    BY <2>1, ReadAppend, AppendFacts
<1>3. Seq(Tokens) \subseteq S
  <2> HIDE DEF S
  <2> QED
    BY <1>1, <1>2, AppendInduction
<1> QED
  BY <1>3

-----------------------------------------------------------------------------
(* The line that gives an element its default.                             *)

LEMMA OneMore ==
  ASSUME NEW u \in Seq(Tokens), NEW x \in Tokens, x # "nl", NEW given, NEW v \in NatValues,
         NEW q, q = ReadToken(Read(u), x),
         q.place # "bad", q.given = Read(u).given, q.settings = Read(u).settings, q.empty = Read(u).empty,
         Copies(Read(u), x)
  PROVE  /\ Append(u, x) \in Seq(Tokens) /\ Read(Append(u, x)) = q
         /\ LinesOf(Append(u, x)).kept = LinesOf(u).kept
         /\ Good(u, given, v) => Good(Append(u, x), given, v)
<1>1. Append(u, x) \in Seq(Tokens) /\ Read(Append(u, x)) = q
  BY AppendFacts, ReadAppend
<1>2. LinesOf(Append(u, x)).kept = LinesOf(u).kept
  BY LinesAppend, LineTokenCases
<1>3. Good(u, given, v) => Good(Append(u, x), given, v)
  <2> SUFFICES ASSUME Good(u, given, v)
               PROVE  Good(Append(u, x), given, v)
    OBVIOUS
  <2>1. ~q.empty
    BY DEF Good
  <2> QED
    BY <2>1, GoodAppend
<1> QED
  BY <1>1, <1>2, <1>3

HeadOf(e) == <<".", e, "sp", "=", "sp">>

LEMMA FiveMore ==
  ASSUME NEW u \in Seq(Tokens), NEW a \in Tokens, NEW b \in Tokens, NEW c \in Tokens, NEW d \in Tokens,
         NEW e \in Tokens
  PROVE  u \o <<a, b, c, d, e>> = Append(Append(Append(Append(Append(u, a), b), c), d), e)
<1> DEFINE p1 == Append(<<>>, a)
           p2 == Append(p1, b)
           p3 == Append(p2, c)
           p4 == Append(p3, d)
<1>1. p1 \in Seq(Tokens) /\ p2 \in Seq(Tokens) /\ p3 \in Seq(Tokens) /\ p4 \in Seq(Tokens)
  OBVIOUS
<1>2. <<a, b, c, d, e>> = Append(p4, e)
  OBVIOUS
<1>3. u \o p1 = Append(u, a)
  BY OneToken, OneTokenLine
<1> HIDE DEF p1
<1>4. u \o p2 = Append(u \o p1, b)
  BY <1>1, AppendCat
<1> HIDE DEF p2
<1>5. u \o p3 = Append(u \o p2, c)
  BY <1>1, AppendCat
<1> HIDE DEF p3
<1>6. u \o p4 = Append(u \o p3, d)
  BY <1>1, AppendCat
<1> HIDE DEF p4
<1>7. u \o Append(p4, e) = Append(u \o p4, e)
  BY <1>1, AppendCat
<1> QED
  BY <1>2, <1>3, <1>4, <1>5, <1>6, <1>7

HeadRead(u, e, given, v) ==
  LET t == u \o HeadOf(e) IN
    /\ t \in Seq(Tokens)
    /\ Read(t) = [Read(u) EXCEPT !.place = "spaces", !.elem = e, !.value = <<>>,
                    !.clean = @ /\ e \notin Read(u).given]
    /\ LinesOf(t).kept = LinesOf(u).kept
    /\ Good(u, given, v) => Good(t, given, v)

LEMMA HeadIsRead ==
  ASSUME NEW u \in Seq(Tokens), Read(u).place \in {"start", "bare"}, NEW e \in ElementNames,
         NEW given, NEW v \in NatValues
  PROVE  HeadRead(u, e, given, v)
<1> DEFINE q == Read(u)
           u1 == Append(u, ".")
           u2 == Append(u1, e)
           u3 == Append(u2, "sp")
           u4 == Append(u3, "=")
           u5 == Append(u4, "sp")
           q1 == [q EXCEPT !.place = "dot"]
           q2 == [q EXCEPT !.place = "name", !.elem = e, !.clean = @ /\ e \notin q.given]
           q4 == [q EXCEPT !.place = "spaces", !.elem = e, !.value = <<>>, !.clean = @ /\ e \notin q.given]
           Same(r) == r.given = q.given /\ r.settings = q.settings /\ r.empty = q.empty
           Well(t) == /\ t \in Seq(Tokens) /\ LinesOf(t).kept = LinesOf(u).kept
                      /\ Good(u, given, v) => Good(t, given, v)
<1>1. /\ e \in Tokens /\ e \notin Marks /\ "." \in Tokens /\ "sp" \in Tokens /\ "=" \in Tokens
  BY ElementsType, TokensType
<1>2. q \in ReaderStates /\ q.place \in {"start", "bare"}
  BY ReadType
<1>3. u \o HeadOf(e) = u5
  BY <1>1, FiveMore DEF HeadOf
<1>4. e # "nl"
  BY <1>1 DEF Marks
<1>5. /\ q1.place = "dot" /\ Same(q1)
      /\ q2.place = "name" /\ q2.elem = e /\ Same(q2)
      /\ q4.place = "spaces" /\ q4.elem = e /\ Same(q4)
  <2> HIDE DEF q
  <2> QED
    BY <1>2 DEF ReaderStates
<1>6. /\ q1 = ReadToken(q, ".") /\ q2 = ReadToken(q1, e) /\ q2 = ReadToken(q2, "sp")
      /\ q4 = ReadToken(q2, "=") /\ q4 = ReadToken(q4, "sp")
  <2> HIDE DEF q
  <2>1. q1 = ReadToken(q, ".")
    BY <1>2 DEF ReadToken, AtStart
  <2>2. q2 = ReadToken(q1, e)
    <3>1. ReadToken(q1, e) = [q1 EXCEPT !.place = "name", !.elem = e, !.clean = @ /\ e \notin q1.given]
      <4> HIDE DEF q1
      <4> QED
        BY <1>1, <1>5 DEF ReadToken, AtDot
    <3> QED
      BY <1>2, <3>1 DEF ReaderStates
  <2>3. q2 = ReadToken(q2, "sp")
    <3> HIDE DEF q2
    <3> QED
      BY <1>5 DEF ReadToken, AtName
  <2>4. q4 = ReadToken(q2, "=")
    <3>1. ReadToken(q2, "=") = [q2 EXCEPT !.place = "spaces", !.value = <<>>]
      <4> HIDE DEF q2
      <4> QED
        BY <1>5 DEF ReadToken, AtName
    <3> QED
      BY <1>2, <3>1 DEF ReaderStates
  <2>5. q4 = ReadToken(q4, "sp")
    <3> HIDE DEF q4
    <3> QED
      BY <1>5 DEF ReadToken, AtValue, Marks
  <2> QED
    BY <2>1, <2>2, <2>3, <2>4, <2>5
<1> HIDE DEF q, q1, q2, q4
<1>7. Copies(q, ".") /\ Copies(q1, e) /\ Copies(q2, "sp") /\ Copies(q2, "=") /\ Copies(q4, "sp")
  BY <1>2, <1>5 DEF Copies
<1>8. Read(u1) = q1 /\ Well(u1)
  BY <1>1, <1>5, <1>6, <1>7, OneMore DEF q
<1> HIDE DEF u1
<1>9. Read(u2) = q2 /\ Well(u2)
  <2>1. u1 \in Seq(Tokens) /\ Read(u1) = q1 /\ e \in Tokens /\ e # "nl"
    BY <1>1, <1>4, <1>8
  <2>2. /\ q2 = ReadToken(Read(u1), e) /\ q2.place # "bad" /\ q2.given = Read(u1).given
        /\ q2.settings = Read(u1).settings /\ q2.empty = Read(u1).empty /\ Copies(Read(u1), e)
    BY <1>5, <1>6, <1>7, <2>1
  <2>3. /\ u2 \in Seq(Tokens) /\ Read(u2) = q2 /\ LinesOf(u2).kept = LinesOf(u1).kept
        /\ Good(u1, given, v) => Good(u2, given, v)
    BY <2>1, <2>2, OneMore
  <2> HIDE DEF u2
  <2> QED
    BY <1>8, <2>3
<1> HIDE DEF u2
<1>10. Read(u3) = q2 /\ Well(u3)
  BY <1>1, <1>5, <1>6, <1>7, <1>9, OneMore
<1> HIDE DEF u3
<1>11. Read(u4) = q4 /\ Well(u4)
  BY <1>1, <1>5, <1>6, <1>7, <1>10, OneMore
<1> HIDE DEF u4
<1>12. Read(u5) = q4 /\ Well(u5)
  <2>1. u4 \in Seq(Tokens) /\ Read(u4) = q4 /\ "sp" \in Tokens /\ "sp" # "nl"
    BY <1>1, <1>11
  <2>2. /\ q4 = ReadToken(Read(u4), "sp") /\ q4.place # "bad" /\ q4.given = Read(u4).given
        /\ q4.settings = Read(u4).settings /\ q4.empty = Read(u4).empty /\ Copies(Read(u4), "sp")
    BY <1>5, <1>6, <1>7, <2>1
  <2>3. /\ u5 \in Seq(Tokens) /\ Read(u5) = q4 /\ LinesOf(u5).kept = LinesOf(u4).kept
        /\ Good(u4, given, v) => Good(u5, given, v)
    BY <2>1, <2>2, OneMore
  <2> HIDE DEF u5
  <2> QED
    BY <1>11, <2>3
<1> HIDE DEF u5
<1> QED
  BY <1>3, <1>12 DEF HeadRead, q4, q

LEMMA ThreeParts ==
  ASSUME NEW u \in Seq(Tokens), NEW a \in Seq(Tokens), NEW b \in Seq(Tokens), NEW c \in Seq(Tokens)
  PROVE  u \o (a \o b \o c) = (u \o a) \o b \o c
<1>1. u \o (a \o b) = (u \o a) \o b
  OBVIOUS
<1>2. a \o b \in Seq(Tokens) /\ u \o a \in Seq(Tokens) /\ (u \o a) \o b \in Seq(Tokens)
  OBVIOUS
<1>3. \A p, q, r \in Seq(Tokens) : p \o (q \o r) = (p \o q) \o r
  OBVIOUS
<1>4. u \o ((a \o b) \o c) = (u \o (a \o b)) \o c
  BY <1>2, <1>3
<1> QED
  BY <1>1, <1>4

LEMMA LineInParts ==
  ASSUME NEW u \in Seq(Tokens), NEW e \in ElementNames, NEW v \in NatValues
  PROVE  u \o DefaultLine(e, v) = (u \o HeadOf(e)) \o IntegerText(v[e]) \o <<"nl">>
<1>1. HeadOf(e) \in Seq(Tokens)
  BY ElementsType, TokensType, FiveTokens DEF HeadOf
<1>2. IntegerText(v[e]) \in Seq(Tokens)
  BY IntegerTextDigits DEF NatValues
<1>3. DefaultLine(e, v) = HeadOf(e) \o IntegerText(v[e]) \o <<"nl">>
  BY DEF DefaultLine, HeadOf
<1> QED
  BY <1>1, <1>2, <1>3, NewlineType, ThreeParts

(* It can be appended to a file that is as it should be.                   *)
Clean(u, given, v) == Good(u, given, v) /\ Read(u).place = "start" /\ Read(u).clean

Lengthens(u, t, given, v) ==
  Clean(t, given, v) /\ LinesOf(t).kept = LinesOf(u).kept

LEMMA LineAdded ==
  ASSUME NEW u, NEW given, NEW v \in NatValues, Clean(u, given, v),
         NEW e \in ElementNames, e \notin given
  PROVE  Lengthens(u, u \o DefaultLine(e, v), given \union {e}, v)
<1> DEFINE t == u \o DefaultLine(e, v)
           q == Read(u)
           h == u \o HeadOf(e)
           r == Read(h)
<1>1. /\ u \in Seq(Tokens) /\ Good(u, given, v) /\ q.place = "start" /\ q.clean
      /\ q.given = given /\ q.settings = SetTo(given, v) /\ ~q.empty
  BY DEF Clean, Good
<1>2. HeadRead(u, e, given, v)
  BY <1>1, HeadIsRead
<1>3. q \in ReaderStates
  BY <1>1, ReadType
<1>4. /\ h \in Seq(Tokens) /\ LinesOf(h).kept = LinesOf(u).kept /\ Good(h, given, v)
      /\ r = [q EXCEPT !.place = "spaces", !.elem = e, !.value = <<>>, !.clean = @ /\ e \notin q.given]
  BY <1>1, <1>2 DEF HeadRead
<1>5. t = h \o IntegerText(v[e]) \o <<"nl">>
  BY <1>1, LineInParts
<1> HIDE DEF q, h, t
<1>6. /\ r.place = "spaces" /\ r.elem = e /\ r.value = <<>> /\ r.clean
  <2> HIDE DEF r
  <2> QED
    BY <1>1, <1>3, <1>4 DEF ReaderStates
<1>7. ValueFollows(h, e, v)
  <2>1. LineFollows(r, LinesOf(h))
    BY <1>4, LinesFollow
  <2>2. FieldLine(LinesOf(h).line, e)
    BY <1>6, <2>1 DEF LineFollows
  <2>3. Tame(h, v) /\ Rewritten(h, v).text = h
    BY <1>4 DEF Good
  <2> QED
    BY <1>4, <1>6, <2>2, <2>3 DEF ValueFollows
<1>8. LineWritten(h, t, e, v)
  BY <1>5, <1>7, ValueWritten
<1>9. r.given = given /\ r.settings = SetTo(given, v) /\ ~r.empty
  BY <1>4 DEF Good
<1>10. /\ t \in Seq(Tokens) /\ Tame(t, v) /\ Rewritten(t, v).text = t
       /\ Read(t).place = "start" /\ Read(t).settings = [r.settings EXCEPT ![e] = v[e]]
       /\ Read(t).given = r.given \union {e}
       /\ Read(t).empty = r.empty /\ Read(t).clean = r.clean
       /\ LinesOf(t).kept = LinesOf(h).kept
  BY <1>8 DEF LineWritten
<1>11. [SetTo(given, v) EXCEPT ![e] = v[e]] = SetTo(given \union {e}, v)
  BY DEF SetTo
<1> HIDE DEF r
<1>12. Lengthens(u, t, given \union {e}, v)
  BY <1>4, <1>6, <1>9, <1>10, <1>11 DEF Lengthens, Clean, Good
<1> QED
  BY <1>12 DEF t

(* What it comes to in any other file.                                     *)
LEMMA DigitMore ==
  ASSUME NEW s \in Seq(DigitSet), NEW x \in DigitSet
  PROVE  Append(s, x) \in Seq(DigitSet) /\ Append(s, x) # <<>>
<1>1. Append(s, x) \in Seq(DigitSet)
  OBVIOUS
<1>2. Len(s) \in Nat /\ Len(Append(s, x)) = Len(s) + 1
  OBVIOUS
<1>3. Append(s, x) # <<>>
  BY <1>2, EmptyText
<1> QED
  BY <1>1, <1>3

ValueRead(u, a, d, z) ==
  /\ z \in Seq(Tokens) /\ Read(z).place = "start"
  /\ Read(z).settings = [Read(u).settings EXCEPT ![a] = IntegerOf(d)]

LEMMA ValueIsRead ==
  ASSUME NEW u \in Seq(Tokens), Read(u).place = "spaces", Read(u).value = <<>>,
         NEW a \in ElementNames, Read(u).elem = a, NEW d \in Seq(DigitSet), d # <<>>
  PROVE  ValueRead(u, a, d, u \o d \o <<"nl">>)
<1> DEFINE q == Read(u)
<1>q. q.place = "spaces" /\ q.value = <<>> /\ q.elem = a /\ a \in ElementNames /\ q = Read(u)
  OBVIOUS
<1> DEFINE After(s) == /\ u \o s \in Seq(Tokens)
                       /\ Read(u \o s) = [q EXCEPT !.place = IF s = <<>> THEN "spaces" ELSE "value",
                                            !.value = s]
           S == {s \in Seq(DigitSet) : After(s)}
<1>0. q \in ReaderStates
  BY ReadType
<1> HIDE DEF q
<1>1. <<>> \in S
  <2>1. u \o <<>> = u
    BY NothingMore
  <2>2. q = [q EXCEPT !.place = "spaces", !.value = <<>>]
    BY <1>0, <1>q DEF ReaderStates
  <2>3. After(<<>>)
    BY <1>q, <2>1, <2>2
  <2>4. <<>> \in Seq(DigitSet)
    OBVIOUS
  <2> QED
    BY <2>3, <2>4
<1>2. ASSUME NEW s \in Seq(DigitSet), NEW x \in DigitSet, s \in S
      PROVE  Append(s, x) \in S
  <2> DEFINE g == u \o s
             r == Read(g)
  <2>1. After(s) /\ x \in Tokens /\ x \notin Marks /\ x # "-" /\ x # "sp"
    BY <1>2, DigitFacts
  <2>2. s \in Seq(Tokens) /\ Append(s, x) \in Seq(DigitSet) /\ Append(s, x) # <<>>
    <3>1. s \in Seq(Tokens)
      BY DigitFacts
    <3>2. Append(s, x) \in Seq(DigitSet) /\ Append(s, x) # <<>>
      BY DigitMore
    <3> QED
      BY <3>1, <3>2
  <2>3. u \o Append(s, x) = Append(g, x)
    BY <2>1, <2>2, AppendCat
  <2>4. g \in Seq(Tokens) /\ r = [q EXCEPT !.place = IF s = <<>> THEN "spaces" ELSE "value", !.value = s]
    BY <2>1
  <2> HIDE DEF g
  <2>5. r.place \in {"spaces", "value"} /\ r.elem = q.elem /\ r.value = s
    <3> HIDE DEF r
    <3> QED
      BY <1>0, <2>4 DEF ReaderStates
  <2>6. ReadToken(r, x) = [r EXCEPT !.place = "value", !.value = Append(@, x)]
    BY <1>q, <2>1, <2>5 DEF ReadToken, AtValue, Marks
  <2>7. Read(Append(g, x)) = [q EXCEPT !.place = "value", !.value = Append(s, x)]
    <3>1. Read(Append(g, x)) = ReadToken(r, x)
      BY <2>1, <2>4, ReadAppend
    <3> HIDE DEF r
    <3> QED
      BY <1>0, <2>4, <2>6, <3>1 DEF ReaderStates
  <2>8. Append(g, x) \in Seq(Tokens)
    BY <2>1, <2>4
  <2>9. After(Append(s, x))
    BY <2>2, <2>3, <2>7, <2>8
  <2> QED
    BY <2>2, <2>9
<1>3. Seq(DigitSet) \subseteq S
  <2> HIDE DEF S
  <2> QED
    BY <1>1, <1>2, AppendInduction
<1>4. After(d)
  BY <1>3
<1> DEFINE g == u \o d
           r == Read(g)
           t == Append(g, "nl")
<1>5. g \in Seq(Tokens) /\ r = [q EXCEPT !.place = "value", !.value = d]
  BY <1>4
<1>6. g \o <<"nl">> = t /\ t \in Seq(Tokens) /\ Read(t) = ReadToken(r, "nl")
  <2> HIDE DEF g
  <2> QED
    BY <1>5, OneToken, AppendFacts, ReadAppend, TokensType
<1>7. r.place = "value" /\ r.elem = q.elem /\ r.value = d /\ r.settings = q.settings /\ r \in ReaderStates
  <2>1. r \in ReaderStates
    <3> HIDE DEF g
    <3> QED
      BY <1>5, ReadType
  <2> HIDE DEF r
  <2> QED
    BY <1>0, <1>5, <2>1 DEF ReaderStates
<1> HIDE DEF r
<1>8. ReadToken(r, "nl") = [r EXCEPT !.place = "start", !.settings[r.elem] = IntegerOf(r.value),
                              !.given = @ \union {r.elem}]
  BY <1>7, <1>q DEF ReadToken, AtValue, EndOfValue
<1>9. /\ ReadToken(r, "nl").place = "start"
      /\ ReadToken(r, "nl").settings = [r.settings EXCEPT ![r.elem] = IntegerOf(r.value)]
  BY <1>7, <1>8 DEF ReaderStates
<1> HIDE DEF t, g
<1>10. t \in Seq(Tokens) /\ Read(t).place = "start"
       /\ Read(t).settings = [q.settings EXCEPT ![a] = IntegerOf(d)]
  BY <1>6, <1>7, <1>9, <1>q
<1> QED
  BY <1>6, <1>10 DEF ValueRead, g, q

LineRead(u, t, e, v) ==
  /\ t \in Seq(Tokens) /\ Read(t).place = "start"
  /\ Read(t).settings = [Read(u).settings EXCEPT ![e] = v[e]]

LEMMA LineIsRead ==
  ASSUME NEW u \in Seq(Tokens), Read(u).place \in {"start", "bare"},
         NEW v \in NatValues, NEW e \in ElementNames
  PROVE  LineRead(u, u \o DefaultLine(e, v), e, v)
<1> DEFINE t == u \o DefaultLine(e, v)
           q == Read(u)
           h == u \o HeadOf(e)
           r == Read(h)
<1>1. q \in ReaderStates
  BY ReadType
<1>2. HeadRead(u, e, {}, v)
  BY HeadIsRead
<1>3. /\ h \in Seq(Tokens)
      /\ r = [q EXCEPT !.place = "spaces", !.elem = e, !.value = <<>>, !.clean = @ /\ e \notin q.given]
  BY <1>2 DEF HeadRead
<1>4. t = h \o IntegerText(v[e]) \o <<"nl">>
  BY LineInParts
<1> HIDE DEF q, h, t
<1>5. r.place = "spaces" /\ r.elem = e /\ r.value = <<>> /\ r.settings = q.settings
  <2> HIDE DEF r
  <2> QED
    BY <1>1, <1>3 DEF ReaderStates
<1>6. IntegerText(v[e]) \in Seq(DigitSet) /\ IntegerText(v[e]) # <<>> /\ IntegerOf(IntegerText(v[e])) = v[e]
  BY IntegerTextDigits DEF NatValues
<1>7. /\ t \in Seq(Tokens) /\ Read(t).place = "start"
      /\ Read(t).settings = [r.settings EXCEPT ![e] = IntegerOf(IntegerText(v[e]))]
  <2> DEFINE d == IntegerText(v[e])
  <2>1. d \in Seq(DigitSet) /\ d # <<>> /\ t = h \o d \o <<"nl">>
    BY <1>4, <1>6
  <2> HIDE DEF d
  <2>2. Read(h).place = "spaces" /\ Read(h).value = <<>> /\ Read(h).elem = e /\ h \in Seq(Tokens)
    BY <1>3, <1>5
  <2>3. ValueRead(h, e, d, h \o d \o <<"nl">>)
    BY <2>1, <2>2, ValueIsRead
  <2>4. ValueRead(h, e, d, t)
    BY <2>1, <2>3
  <2> QED
    BY <2>4 DEF ValueRead, d
<1> HIDE DEF r
<1>8. LineRead(u, t, e, v)
  BY <1>5, <1>6, <1>7 DEF LineRead, q
<1> QED
  BY <1>8 DEF t

-----------------------------------------------------------------------------
(* The lines that give the elements that are not in the file their         *)
(* defaults.                                                               *)

Upto(n) == {Elements[i] : i \in 1 .. n}

LEMMA UptoFacts ==
  /\ Upto(0) = {} /\ Upto(Len(Elements)) = ElementNames
  /\ \A n \in 1 .. Len(Elements) :
       /\ Elements[n] \in ElementNames /\ Elements[n] \notin Upto(n - 1)
       /\ Upto(n) = Upto(n - 1) \union {Elements[n]}
       /\ Upto(n) \subseteq ElementNames /\ Upto(n - 1) \subseteq ElementNames
<1>1. /\ Len(Elements) \in Nat /\ DOMAIN Elements = 1 .. Len(Elements)
      /\ \A i, j \in 1 .. Len(Elements) : Elements[i] = Elements[j] => i = j
  BY ElementsType
<1>2. Upto(0) = {} /\ Upto(Len(Elements)) = ElementNames
  BY <1>1 DEF Upto, ElementNames
<1>3. ASSUME NEW n \in 1 .. Len(Elements)
      PROVE  /\ Elements[n] \in ElementNames /\ Elements[n] \notin Upto(n - 1)
             /\ Upto(n) = Upto(n - 1) \union {Elements[n]}
             /\ Upto(n) \subseteq ElementNames /\ Upto(n - 1) \subseteq ElementNames
  <2>1. n \in Nat /\ n >= 1 /\ n <= Len(Elements)
    BY <1>1
  <2>2. 1 .. n = (1 .. (n - 1)) \union {n} /\ 1 .. n \subseteq 1 .. Len(Elements)
    BY <1>1, <2>1
  <2>3. Elements[n] \in ElementNames
    BY <1>1 DEF ElementNames
  <2>4. Elements[n] \notin Upto(n - 1)
    <3>1. \A i \in 1 .. (n - 1) : i \in 1 .. Len(Elements) /\ i # n
      BY <1>1, <2>1
    <3> QED
      BY <1>1, <3>1 DEF Upto
  <2>5. Upto(n) = Upto(n - 1) \union {Elements[n]}
    BY <2>2 DEF Upto
  <2>6. Upto(n) \subseteq ElementNames
    BY <1>1, <2>2 DEF Upto, ElementNames
  <2> QED
    BY <2>3, <2>4, <2>5, <2>6
<1> QED
  BY <1>2, <1>3

(* An empty line.                                                          *)
LEMMA NewlineAdded ==
  ASSUME NEW u, NEW given, NEW v \in NatValues, Clean(u, given, v)
  PROVE  Lengthens(u, Append(u, "nl"), given, v)
<1> DEFINE q == Read(u)
           r == ReadToken(q, "nl")
           l == LinesOf(u)
<1>1. /\ u \in Seq(Tokens) /\ Good(u, given, v) /\ q.place = "start" /\ q.clean
      /\ q.given = given /\ q.settings = SetTo(given, v) /\ ~q.empty
  BY DEF Clean, Good
<1>2. q \in ReaderStates /\ l \in LineStates /\ "nl" \in Tokens
  BY <1>1, ReadType, LinesAppend, TokensType
<1>3. r = [q EXCEPT !.place = "start"] /\ Copies(q, "nl")
  <2> HIDE DEF q
  <2> QED
    BY <1>1 DEF ReadToken, AtStart, Copies
<1>4. /\ r.place = "start" /\ r.given = q.given /\ r.settings = q.settings /\ ~r.empty /\ r.clean
  <2> HIDE DEF q, r
  <2> QED
    BY <1>1, <1>2, <1>3 DEF ReaderStates
<1>5. Good(Append(u, "nl"), given, v) /\ Read(Append(u, "nl")) = r
  <2>1. q.place # "name" /\ q.place \notin {"spaces", "value"}
    BY <1>1
  <2> QED
    BY <1>1, <1>2, <1>3, <1>4, <2>1, GoodAppend
<1>6. LinesOf(Append(u, "nl")).kept = l.kept
  <2>1. l.line = <<>>
    <3>1. LineFollows(q, l)
      BY <1>1, LinesFollow
    <3> QED
      BY <1>1, <3>1 DEF LineFollows
  <2>2. ~IsUserLine(Append(l.line, "nl"))
    <3>1. Append(l.line, "nl")[1] = "nl"
      BY <1>2, <2>1, OneTokenLine
    <3> QED
      BY <3>1 DEF IsUserLine
  <2>3. LineToken(l, "nl").kept = l.kept \union {}
    BY <1>2, <2>2, LineTokenCases
  <2>4. LinesOf(Append(u, "nl")) = LineToken(l, "nl")
    BY <1>1, <1>2, LinesAppend
  <2> HIDE DEF l
  <2> QED
    BY <2>3, <2>4
<1> HIDE DEF r
<1> QED
  BY <1>4, <1>5, <1>6 DEF Lengthens, Clean

LEMMA DefaultsAdded ==
  ASSUME NEW u, NEW saved, NEW v \in NatValues, Clean(u, saved, v), saved \subseteq ElementNames
  PROVE  Lengthens(u, u \o DefaultLines(saved, v)[Len(Elements)], ElementNames, v)
<1> DEFINE D(n) == DefaultLines(saved, v)[n]
           N == Len(Elements)
           P(n) == Lengthens(u, u \o D(n), saved \union Upto(n), v)
           S == {n \in 0 .. N : P(n)}
<1>1. v \in Values /\ u \in Seq(Tokens) /\ N \in Nat
  BY ElementsType DEF NatValues, Values, Clean, Good
<1>2. /\ D(0) = <<>> /\ \A n \in 0 .. N : D(n) \in Seq(Tokens)
      /\ \A n \in 1 .. N : D(n) = IF Elements[n] \in saved THEN D(n - 1)
                                  ELSE (IF D(n - 1) = <<>> THEN <<"nl">> ELSE D(n - 1))
                                         \o DefaultLine(Elements[n], v)
  BY <1>1, DefaultLinesDef
<1> HIDE DEF D
<1>3. 0 \in S
  <2>1. u \o D(0) = u
    BY <1>1, <1>2, NothingMore
  <2>2. saved \union Upto(0) = saved
    BY UptoFacts
  <2>3. P(0)
    BY <2>1, <2>2 DEF Lengthens
  <2>4. 0 \in 0 .. N
    BY <1>1
  <2> HIDE DEF P, N
  <2> QED
    BY <2>3, <2>4
<1>4. ASSUME NEW n \in 1 .. N, n - 1 \in S
      PROVE  n \in S
  <2> DEFINE e == Elements[n]
             g == saved \union Upto(n - 1)
             b == IF D(n - 1) = <<>> THEN <<"nl">> ELSE D(n - 1)
  <2>1. n \in 0 .. N /\ n - 1 \in 0 .. N /\ D(n - 1) \in Seq(Tokens)
    BY <1>1, <1>2
  <2>2. Clean(u \o D(n - 1), g, v) /\ LinesOf(u \o D(n - 1)).kept = LinesOf(u).kept
    BY <1>4 DEF Lengthens
  <2>3. e \in ElementNames /\ e \notin Upto(n - 1) /\ Upto(n) = Upto(n - 1) \union {e}
    BY UptoFacts
  <2>4. saved \union Upto(n) = g \union {e}
    BY <2>3
  <2>5. CASE e \in saved
    <3>1. D(n) = D(n - 1)
      BY <1>2, <2>5
    <3>2. g \union {e} = g
      BY <2>5
    <3>3. P(n)
      BY <2>2, <2>4, <3>1, <3>2 DEF Lengthens
    <3> HIDE DEF P
    <3> QED
      BY <2>1, <3>3
  <2>6. CASE e \notin saved
    <3>1. D(n) = b \o DefaultLine(e, v)
      BY <1>2, <2>6
    <3>2. b \in Seq(Tokens) /\ DefaultLine(e, v) \in Seq(Tokens)
      BY <1>1, <2>1, <2>3, NewlineType, DefaultLineType
    <3>3. Clean(u \o b, g, v) /\ LinesOf(u \o b).kept = LinesOf(u).kept
      <4>1. CASE D(n - 1) = <<>>
        <5>1. u \o D(n - 1) = u /\ b = <<"nl">> /\ u \o b = Append(u, "nl")
          BY <1>1, <4>1, NothingMore, OneToken, TokensType
        <5>2. Clean(u, g, v)
          BY <2>2, <5>1
        <5> HIDE DEF b, g
        <5> QED
          BY <5>1, <5>2, NewlineAdded DEF Lengthens
      <4>2. CASE D(n - 1) # <<>>
        BY <2>2, <4>2
      <4> QED
        BY <4>1, <4>2
    <3>4. e \notin g
      BY <2>3, <2>6
    <3>5. u \o D(n) = (u \o b) \o DefaultLine(e, v)
      <4> HIDE DEF b, e
      <4>1. \A p, q, r \in Seq(Tokens) : p \o (q \o r) = (p \o q) \o r
        OBVIOUS
      <4>2. u \o (b \o DefaultLine(e, v)) = (u \o b) \o DefaultLine(e, v)
        BY <1>1, <3>2, <4>1
      <4> QED
        BY <3>1, <4>2
    <3> HIDE DEF b, g, e
    <3>6. /\ Clean(u \o D(n), g \union {e}, v)
          /\ LinesOf(u \o D(n)).kept = LinesOf(u \o b).kept
      <4> DEFINE h == u \o b
      <4>1. Clean(h, g, v) /\ e \in ElementNames /\ u \o D(n) = h \o DefaultLine(e, v)
        BY <2>3, <3>3, <3>5
      <4> HIDE DEF h
      <4>2. Lengthens(h, h \o DefaultLine(e, v), g \union {e}, v)
        BY <3>4, <4>1, LineAdded
      <4>3. Lengthens(h, u \o D(n), g \union {e}, v)
        BY <4>1, <4>2
      <4> QED
        BY <4>3 DEF Lengthens, h
    <3>7. P(n)
      BY <2>4, <3>3, <3>6 DEF Lengthens
    <3> HIDE DEF P
    <3> QED
      BY <2>1, <3>7
  <2> QED
    BY <2>5, <2>6
<1>5. N \in S
  <2>1. 0 .. N \subseteq S
    <3> HIDE DEF S
    <3> QED
      BY <1>1, <1>3, <1>4, Bounded
  <2>2. N \in 0 .. N
    BY <1>1
  <2> HIDE DEF S, N
  <2> QED
    BY <2>1, <2>2
<1>6. saved \union Upto(N) = ElementNames
  BY UptoFacts
<1> QED
  BY <1>5, <1>6 DEF D

(* The same after a text that the power has torn: the first end of line    *)
(* ends what it left.                                                      *)
Torn(u, saved, v) ==
  LET q == Read(u) IN
    /\ u \in Seq(Tokens) /\ q.place \in {"start", "comment", "name", "spaces"}
    /\ \A e \in saved : q.settings[e] = v[e]
    /\ q.place = "spaces" => q.elem \notin saved

LEMMA TornLine ==
  ASSUME NEW u, NEW saved \in SUBSET ElementNames, NEW v, Torn(u, saved, v)
  PROVE  LET t == Append(u, "nl") IN
           /\ t \in Seq(Tokens) /\ Read(t).place \in {"start", "bare"}
           /\ \A e \in saved : Read(t).settings[e] = v[e]
<1> DEFINE q == Read(u)
           r == ReadToken(q, "nl")
<1>1. /\ u \in Seq(Tokens) /\ q.place \in {"start", "comment", "name", "spaces"}
      /\ q \in ReaderStates /\ "nl" \in Tokens
  BY ReadType, TokensType DEF Torn
<1>2. Append(u, "nl") \in Seq(Tokens) /\ Read(Append(u, "nl")) = r
  BY <1>1, AppendFacts, ReadAppend
<1>3. \A e \in saved : q.settings[e] = v[e]
  BY DEF Torn
<1>4. q.place = "spaces" => q.elem \notin saved
  BY DEF Torn
<1> HIDE DEF q
<1>5. CASE q.place \in {"start", "comment", "name"}
  <2>1. \/ r = [q EXCEPT !.place = "start"]
        \/ r = [q EXCEPT !.place = "bare", !.clean = FALSE]
    BY <1>5 DEF ReadToken, AtStart, AtName
  <2>2. r.place \in {"start", "bare"} /\ r.settings = q.settings
    <3> HIDE DEF r
    <3> QED
      BY <1>1, <2>1 DEF ReaderStates
  <2> QED
    BY <1>2, <1>3, <2>2
<1>6. CASE q.place = "spaces"
  <2>1. r = EndOfValue(q)
    BY <1>6 DEF ReadToken, AtValue
  <2>2. /\ r.place = "start"
        /\ r.settings = q.settings \/ r.settings = [q.settings EXCEPT ![q.elem] = IntegerOf(q.value)]
    BY <1>1, <2>1 DEF EndOfValue, ReaderStates
  <2>3. \A e \in saved : r.settings[e] = q.settings[e]
    <3>1. q.settings \in [ElementNames -> Int] /\ q.elem \notin saved
      BY <1>1, <1>4, <1>6 DEF ReaderStates
    <3> HIDE DEF r
    <3> QED
      BY <2>2, <3>1
  <2> QED
    BY <1>2, <1>3, <2>2, <2>3
<1> QED
  BY <1>1, <1>5, <1>6

(* Every element has its value after the lines for saved and the rest.     *)
Complete(t, u, v) ==
  /\ t \in Seq(Tokens) /\ Read(t).settings = v
  /\ Read(t).place = "start" \/ t = u

LEMMA DefaultsRead ==
  ASSUME NEW u, NEW saved \in SUBSET ElementNames, NEW v \in NatValues, Torn(u, saved, v)
  PROVE  Complete(u \o DefaultLines(saved, v)[Len(Elements)], u, v)
<1> DEFINE D(n) == DefaultLines(saved, v)[n]
           N == Len(Elements)
           Has(n) == \A e \in saved \union Upto(n) : Read(u \o D(n)).settings[e] = v[e]
           P(n) == \/ D(n) = <<>> /\ Upto(n) \subseteq saved
                   \/ Read(u \o D(n)).place = "start" /\ Has(n)
           S == {n \in 0 .. N : P(n)}
<1>1. v \in Values /\ u \in Seq(Tokens) /\ N \in Nat
  BY ElementsType DEF NatValues, Values, Torn
<1>2. /\ D(0) = <<>> /\ \A n \in 0 .. N : D(n) \in Seq(Tokens)
      /\ \A n \in 1 .. N : D(n) = IF Elements[n] \in saved THEN D(n - 1)
                                  ELSE (IF D(n - 1) = <<>> THEN <<"nl">> ELSE D(n - 1))
                                         \o DefaultLine(Elements[n], v)
  BY <1>1, DefaultLinesDef
<1> HIDE DEF D
<1>3. 0 \in S
  <2>1. D(0) = <<>> /\ Upto(0) \subseteq saved
    BY <1>2, UptoFacts
  <2>2. P(0)
    BY <2>1
  <2>3. 0 \in 0 .. N
    BY <1>1
  <2> HIDE DEF P, N
  <2> QED
    BY <2>2, <2>3
<1>4. ASSUME NEW n \in 1 .. N, n - 1 \in S
      PROVE  n \in S
  <2> DEFINE e == Elements[n]
             b == IF D(n - 1) = <<>> THEN <<"nl">> ELSE D(n - 1)
             h == u \o b
  <2>1. n \in 0 .. N /\ n - 1 \in 0 .. N /\ D(n - 1) \in Seq(Tokens)
    BY <1>1, <1>2
  <2>2. P(n - 1)
    BY <1>4
  <2>3. e \in ElementNames /\ Upto(n) = Upto(n - 1) \union {e} /\ Upto(n - 1) \subseteq ElementNames
    BY UptoFacts
  <2>4. CASE e \in saved
    <3>1. D(n) = D(n - 1) /\ saved \union Upto(n) = saved \union Upto(n - 1)
      BY <1>2, <2>3, <2>4
    <3>2. Upto(n - 1) \subseteq saved => Upto(n) \subseteq saved
      BY <2>3, <2>4
    <3>3. P(n)
      BY <2>2, <3>1, <3>2
    <3> HIDE DEF P
    <3> QED
      BY <2>1, <3>3
  <2>5. CASE e \notin saved
    <3>1. D(n) = b \o DefaultLine(e, v)
      BY <1>2, <2>5
    <3>2. b \in Seq(Tokens) /\ DefaultLine(e, v) \in Seq(Tokens)
      BY <1>1, <2>1, <2>3, NewlineType, DefaultLineType
    <3>3. /\ h \in Seq(Tokens) /\ Read(h).place \in {"start", "bare"}
          /\ \A a \in saved \union Upto(n - 1) : Read(h).settings[a] = v[a]
      <4>1. CASE D(n - 1) = <<>>
        <5> DEFINE G == saved \union Upto(n - 1)
        <5>1. u \o D(n - 1) = u /\ h = Append(u, "nl")
          BY <1>1, <4>1, NothingMore, OneToken, TokensType
        <5>2. Upto(n - 1) \subseteq saved \/ (Read(u).place = "start" /\ \A a \in G : Read(u).settings[a] = v[a])
          BY <2>2, <5>1
        <5>3. Torn(u, G, v)
          <6>1. CASE Upto(n - 1) \subseteq saved
            <7>1. G = saved
              BY <6>1
            <7> QED
              BY <7>1
          <6>2. CASE Read(u).place = "start" /\ \A a \in G : Read(u).settings[a] = v[a]
            BY <1>1, <6>2 DEF Torn
          <6> QED
            BY <5>2, <6>1, <6>2
        <5>4. G \in SUBSET ElementNames
          BY <2>3
        <5> HIDE DEF G, h
        <5>5. LET t == Append(u, "nl") IN
                /\ t \in Seq(Tokens) /\ Read(t).place \in {"start", "bare"}
                /\ \A a \in G : Read(t).settings[a] = v[a]
          BY <5>3, <5>4, TornLine
        <5> QED
          BY <5>1, <5>5 DEF G
      <4>2. CASE D(n - 1) # <<>>
        <5>1. b = D(n - 1) /\ Read(u \o b).place = "start" /\ Has(n - 1)
          BY <2>2, <4>2
        <5>2. u \o b \in Seq(Tokens)
          BY <1>1, <3>2
        <5> QED
          BY <5>1, <5>2
      <4> QED
        BY <4>1, <4>2
    <3>4. u \o D(n) = h \o DefaultLine(e, v)
      <4> HIDE DEF b, e
      <4>1. \A p, q, r \in Seq(Tokens) : p \o (q \o r) = (p \o q) \o r
        OBVIOUS
      <4>2. u \o (b \o DefaultLine(e, v)) = (u \o b) \o DefaultLine(e, v)
        BY <1>1, <3>2, <4>1
      <4> QED
        BY <3>1, <4>2
    <3> HIDE DEF h, e
    <3> DEFINE t == u \o D(n)
    <3>5. /\ t \in Seq(Tokens) /\ Read(t).place = "start"
          /\ Read(t).settings = [Read(h).settings EXCEPT ![e] = v[e]]
      <4>1. t = h \o DefaultLine(e, v)
        BY <3>4
      <4>2. LineRead(h, h \o DefaultLine(e, v), e, v)
        BY <2>3, <3>3, LineIsRead
      <4> HIDE DEF t
      <4>3. LineRead(h, t, e, v)
        BY <4>1, <4>2
      <4> QED
        BY <4>3 DEF LineRead
    <3>6. Read(h).settings \in [ElementNames -> Int]
      BY <3>3, ReadType DEF ReaderStates
    <3>7. \A a \in saved \union Upto(n) : Read(t).settings[a] = v[a]
      <4> HIDE DEF t
      <4> QED
        BY <2>3, <3>3, <3>5, <3>6
    <3>8. P(n)
      BY <3>5, <3>7
    <3> HIDE DEF P
    <3> QED
      BY <2>1, <3>8
  <2> QED
    BY <2>4, <2>5
<1>5. N \in S
  <2>1. 0 .. N \subseteq S
    <3> HIDE DEF S
    <3> QED
      BY <1>1, <1>3, <1>4, Bounded
  <2>2. N \in 0 .. N
    BY <1>1
  <2> HIDE DEF S, N
  <2> QED
    BY <2>1, <2>2
<1> DEFINE t == u \o D(N)
<1>6. Upto(N) = ElementNames /\ D(N) \in Seq(Tokens)
  BY <1>1, <1>2, UptoFacts
<1>7. t \in Seq(Tokens)
  BY <1>1, <1>6
<1>8. /\ \A e \in ElementNames : Read(t).settings[e] = v[e]
      /\ Read(t).place = "start" \/ t = u
  <2>1. P(N)
    BY <1>5
  <2>2. CASE D(N) = <<>> /\ Upto(N) \subseteq saved
    <3>1. t = u /\ \A e \in ElementNames : e \in saved
      BY <1>1, <1>6, <2>2, NothingMore
    <3> HIDE DEF t
    <3> QED
      BY <3>1 DEF Torn
  <2>3. CASE Read(t).place = "start" /\ Has(N)
    BY <1>6, <2>3
  <2> QED
    BY <2>1, <2>2, <2>3
<1>9. Read(t).settings = v
  <2>1. Read(t).settings \in [ElementNames -> Int] /\ v \in [ElementNames -> Int]
    BY <1>1, <1>7, ReadType DEF ReaderStates, Values
  <2> HIDE DEF t
  <2> QED
    BY <1>8, <2>1
<1>10. Complete(t, u, v)
  <2> HIDE DEF t
  <2> QED
    BY <1>7, <1>8, <1>9 DEF Complete
<1> QED
  BY <1>10 DEF D

LEMMA NoDefaults ==
  ASSUME NEW v \in Values
  PROVE  DefaultLines(ElementNames, v)[Len(Elements)] = <<>>
<1> DEFINE D(n) == DefaultLines(ElementNames, v)[n]
           N == Len(Elements)
           S == {n \in 0 .. N : D(n) = <<>>}
<1>1. /\ N \in Nat /\ D(0) = <<>>
      /\ \A n \in 1 .. N : Elements[n] \in ElementNames => D(n) = D(n - 1)
  BY ElementsType, DefaultLinesDef
<1> HIDE DEF D
<1>2. 0 \in S
  BY <1>1
<1>3. ASSUME NEW n \in 1 .. N, n - 1 \in S
      PROVE  n \in S
  <2>1. D(n) = D(n - 1) /\ n \in 0 .. N
    BY <1>1, UptoFacts
  <2> QED
    BY <1>3, <2>1
<1>4. 0 .. N \subseteq S
  <2> HIDE DEF S
  <2> QED
    BY <1>1, <1>2, <1>3, Bounded
<1>5. N \in 0 .. N
  BY <1>1
<1> QED
  BY <1>4, <1>5 DEF D

-----------------------------------------------------------------------------
(* What the scanner reads of an element is never negative.                 *)
NatReader(c) ==
  /\ Default \in NatValues => c.settings \in NatValues
  /\ c.place \in {"spaces", "value"} /\ c.elem \in ElementNames =>
       \A i \in 1 .. Len(c.value) : c.value[i] # "-"

LEMMA NatNext ==
  ASSUME NEW c \in ReaderStates, NEW x \in Tokens, NatReader(c)
  PROVE  NatReader(ReadToken(c, x))
<1> DEFINE R == ReadToken(c, x)
<1>0. SUFFICES NatReader(R)
  OBVIOUS
<1>1. /\ c.value \in Seq(Tokens) /\ c.settings \in [ElementNames -> Int]
  BY DEF ReaderStates
<1>2. CASE c.place \in {"spaces", "value"} /\ x = "nl"
  <2>1. R = EndOfValue(c)
    BY <1>2 DEF ReadToken, AtValue
  <2>2. R.place = "start"
    BY <2>1 DEF EndOfValue, ReaderStates
  <2>3. CASE c.elem \in ElementNames
    <3>1. R.settings = [c.settings EXCEPT ![c.elem] = IntegerOf(c.value)]
      BY <2>1, <2>3 DEF EndOfValue, ReaderStates
    <3>2. IntegerOf(c.value) \in Nat
      BY <1>1, <1>2, <2>3, IntegerOfType DEF NatReader
    <3>3. Default \in NatValues => R.settings \in NatValues
      <4> HIDE DEF R
      <4> QED
        BY <1>1, <3>1, <3>2 DEF NatReader, NatValues
    <3> HIDE DEF R
    <3> QED
      BY <2>2, <3>3 DEF NatReader
  <2>4. CASE c.elem \notin ElementNames
    <3>1. R.settings = c.settings
      BY <2>1, <2>4 DEF EndOfValue, ReaderStates
    <3> HIDE DEF R
    <3> QED
      BY <2>2, <3>1 DEF NatReader
  <2> QED
    BY <2>3, <2>4
<1>3. CASE c.place \in {"spaces", "value"} /\ x # "nl"
  <2>1. \/ R = c \/ R = [c EXCEPT !.place = "bad"]
        \/ /\ R = [c EXCEPT !.place = "value", !.value = Append(@, x)]
           /\ ~(x = "-" /\ c.elem \in ElementNames)
    BY <1>3 DEF ReadToken, AtValue
  <2>2. CASE R = c
    BY <2>2
  <2>3. CASE R = [c EXCEPT !.place = "bad"]
    <3> HIDE DEF R
    <3>1. R.place = "bad" /\ R.settings = c.settings
      BY <2>3 DEF ReaderStates
    <3> QED
      BY <3>1 DEF NatReader
  <2>4. CASE /\ R = [c EXCEPT !.place = "value", !.value = Append(@, x)]
             /\ ~(x = "-" /\ c.elem \in ElementNames)
    <3> HIDE DEF R
    <3>1. R.elem = c.elem /\ R.settings = c.settings /\ R.value = Append(c.value, x)
      BY <2>4 DEF ReaderStates
    <3>2. c.elem \in ElementNames => \A i \in 1 .. Len(R.value) : R.value[i] # "-"
      BY <1>1, <1>3, <2>4, <3>1 DEF NatReader
    <3> QED
      BY <3>1, <3>2 DEF NatReader
  <2> QED
    BY <2>1, <2>2, <2>3, <2>4
<1>4. CASE c.place = "name"
  <2>1. \/ R = [c EXCEPT !.place = "spaces", !.value = <<>>]
        \/ \E p \in {"bare", "bad", "name"}, b \in BOOLEAN : R = [c EXCEPT !.place = p, !.clean = b]
        \/ R = [c EXCEPT !.place = "bad"]
        \/ R = c
    BY <1>4 DEF ReadToken, AtName
  <2> HIDE DEF R
  <2>2. R.settings = c.settings /\ (R.place \in {"spaces", "value"} => R.value = <<>>)
    BY <1>4, <2>1 DEF ReaderStates
  <2>3. \A i \in 1 .. Len(<<>>) : <<>>[i] # "-"
    OBVIOUS
  <2> QED
    BY <2>2, <2>3 DEF NatReader
<1>5. CASE c.place \in {"start", "comment", "stray", "bare", "dot", "bad"}
  <2>1. \/ R = c
        \/ \E p \in {"start", "comment", "stray", "dot", "bad"} : R = [c EXCEPT !.place = p]
        \/ R = [c EXCEPT !.place = "name", !.elem = x, !.clean = @ /\ x \notin c.given]
    BY <1>5 DEF ReadToken, AtStart, AtDot
  <2> HIDE DEF R
  <2>2. R.settings = c.settings /\ R.place \notin {"spaces", "value"}
    BY <1>5, <2>1 DEF ReaderStates
  <2> QED
    BY <2>2 DEF NatReader
<1> QED
  BY <1>2, <1>3, <1>4, <1>5 DEF ReaderStates, Places

LEMMA ReadsNat ==
  ASSUME NEW f \in Seq(Tokens), Default \in NatValues
  PROVE  Read(f).settings \in NatValues
<1> DEFINE S == {t \in Seq(Tokens) : NatReader(Read(t))}
<1>1. <<>> \in S
  <2>1. NatReader(Unread)
    BY DEF NatReader, Unread
  <2> QED
    BY <2>1, ReadEmpty, EmptyText
<1>2. ASSUME NEW t \in Seq(Tokens), NEW x \in Tokens, t \in S
      PROVE  Append(t, x) \in S
  <2>1. NatReader(ReadToken(Read(t), x))
    BY <1>2, ReadType, NatNext
  <2> QED
    BY <2>1, ReadAppend, AppendFacts
<1>3. Seq(Tokens) \subseteq S
  <2> HIDE DEF S
  <2> QED
    BY <1>1, <1>2, AppendInduction
<1> QED
  BY <1>3 DEF NatReader

-----------------------------------------------------------------------------
(* What load() and store() make of a file.                                 *)

(* A file that the power may have torn: load() understands it, and a line  *)
(* that is not complete does not set an element once more.                 *)
Sound(c) == c.place # "bad" /\ (c.place \in {"name", "spaces", "value"} => c.elem \notin c.given)
FileOk(f) == f \in Seq(Tokens) /\ Sound(Read(f))

Near(f, v) == FileOk(f) /\ \A e \in ElementNames : Loaded(f)[e] \in {Default[e], v[e]}
Kept(f, v) == FileOk(f) /\ Loaded(f) = v
Sure(f, v) == Clean(f, ElementNames, v)

Ends == {"ok", "failed", "fault"}

LEMMA WrittenType ==
  ASSUME NEW f \in Seq(Tokens), NEW v \in Values
  PROVE  Written(f, v) \in [text : Seq(Tokens), end : Ends]
<1> DEFINE s == Scan(f, v)[Len(f)]
           d == DefaultLines(s.saved, v)[Len(Elements)]
<1>1. s.text \in Seq(Tokens) /\ s.out \in Ends
  <2>1. Len(f) \in 0 .. Len(f)
    OBVIOUS
  <2>2. s \in ScanStates(f)
    BY <2>1, ScanDef
  <2> QED
    BY <2>2 DEF ScanStates, Ends
<1>2. d \in Seq(Tokens)
  <2>1. Len(Elements) \in 0 .. Len(Elements)
    BY ElementsType
  <2> QED
    BY <2>1, DefaultLinesDef
<1>3. Written(f, v) = [text |-> s.text \o (IF s.out = "ok" THEN d ELSE <<>>), end |-> s.out]
  BY DEF Written
<1> HIDE DEF s, d
<1>4. (IF s.out = "ok" THEN d ELSE <<>>) \in Seq(Tokens)
  BY <1>2
<1>5. s.text \o (IF s.out = "ok" THEN d ELSE <<>>) \in Seq(Tokens)
  <2> DEFINE z == IF s.out = "ok" THEN d ELSE <<>>
  <2>1. z \in Seq(Tokens)
    BY <1>4
  <2> HIDE DEF z
  <2>2. s.text \o z \in Seq(Tokens)
    BY <1>1, <2>1
  <2> QED
    BY <2>2 DEF z
<1> QED
  BY <1>1, <1>3, <1>5

LEMMA LoadedType ==
  ASSUME NEW f \in Seq(Tokens)
  PROVE  Loaded(f) \in [ElementNames -> Int]
<1>1. Len(f) \in 0 .. Len(f) /\ Default \in Values
  BY ConfigAssumption DEF Values
<1>2. Scan(f, Default)[Len(f)] \in ScanStates(f)
  BY <1>1, ScanDef
<1> QED
  BY <1>2 DEF ScanStates, Values, Loaded

LEMMA WholeIsOk ==
  ASSUME NEW f, Whole(f)
  PROVE  FileOk(f) /\ ~Stuck(f) /\ Loaded(f) = Read(f).settings
BY LoadedIsRead DEF Whole, FileOk, Sound

LEMMA NothingIsWhole == Whole(<<>>)
BY ReadEmpty, EmptyText DEF Whole, Unread

(* What a complete store() leaves is a fixed point: load() gives back the  *)
(* settings and the next store() writes the same text; cut anywhere,       *)
(* load() gives each setting its value or its default.                     *)
THEOREM SureIsKept ==
  ASSUME NEW v \in NatValues, NEW f, Sure(f, v)
  PROVE  /\ Whole(f) /\ Kept(f, v)
         /\ Written(f, v) = [text |-> f, end |-> "ok"]
         /\ \A p \in Prefixes(f) : Near(p, v)
<1> DEFINE r == Read(f)
           s == Scan(f, v)[Len(f)]
<1>1. /\ f \in Seq(Tokens) /\ r.place = "start" /\ r.clean /\ ~r.empty
      /\ r.given = ElementNames /\ r.settings = SetTo(ElementNames, v)
      /\ Tame(f, v) /\ Rewritten(f, v).text = f
  BY DEF Sure, Clean, Good
<1>2. v \in Values
  BY DEF NatValues, Values
<1>3. r.settings = v
  <2>1. SetTo(ElementNames, v) = v
    BY <1>2 DEF SetTo, Values
  <2> QED
    BY <1>1, <2>1
<1>4. Whole(f)
  BY <1>1 DEF Whole
<1>5. Kept(f, v)
  BY <1>3, <1>4, WholeIsOk DEF Kept
<1>6. Written(f, v) = [text |-> f, end |-> "ok"]
  <2>1. r.place # "bad"
    BY <1>1
  <2>2. /\ s.saved = r.given /\ (s.out = "fault" <=> r.empty) /\ s.out \in {"ok", "failed", "fault"}
        /\ r.place = "start" => s.out # "failed" /\ ~s.stuck /\ (~r.empty => s.text = Rewritten(f, v).text)
    BY <1>1, <1>2, <2>1, ScanEnd
  <2>3. s.out = "ok" /\ s.text = f /\ s.saved = ElementNames
    BY <1>1, <2>2
  <2>4. Written(f, v) =
          [text |-> s.text \o (IF s.out = "ok" THEN DefaultLines(s.saved, v)[Len(Elements)] ELSE <<>>),
           end |-> s.out]
    BY DEF Written
  <2>5. DefaultLines(ElementNames, v)[Len(Elements)] = <<>>
    BY <1>2, NoDefaults
  <2> HIDE DEF s
  <2>6. Written(f, v) = [text |-> f \o <<>>, end |-> "ok"]
    BY <2>3, <2>4, <2>5
  <2>7. f \o <<>> = f
    BY <1>1, NothingMore
  <2> QED
    BY <2>6, <2>7
<1>7. ASSUME NEW n \in 0 .. Len(f)
      PROVE  Near(SubSeq(f, 1, n), v)
  <2> DEFINE p == SubSeq(f, 1, n)
             c == Read(p)
  <2>1. p \in Seq(Tokens) /\ n \in Nat /\ n <= Len(f) /\ Len(f) \in Nat
    BY <1>1
  <2>2. Close(c, v)
    BY <1>1, TamePrefix
  <2>3. c = Reading(f)[n]
    BY <1>1, ReadingIsRead
  <2>4. c.clean
    <3>1. Len(f) \in n .. Len(f) /\ Reading(f)[Len(f)].clean
      BY <1>1, <2>1 DEF Read
    <3>2. Reading(f)[n].clean
      BY <1>1, <3>1, ReadingLasts
    <3> QED
      BY <2>3, <3>2
  <2> HIDE DEF p
  <2>5. CleanReader(c)
    BY <2>1, ReadsClean
  <2>6. FileOk(p)
    BY <2>1, <2>2, <2>4, <2>5 DEF FileOk, Sound, CleanReader, Close
  <2>7. Loaded(p) = c.settings
    BY <2>1, <2>2, LoadedIsRead DEF Close
  <2>8. Near(p, v)
    BY <2>2, <2>6, <2>7 DEF Near, Close
  <2> QED
    BY <2>8 DEF p
<1>8. ASSUME NEW p \in Prefixes(f)
      PROVE  Near(p, v)
  <2>1. PICK n \in 0 .. Len(f) : p = SubSeq(f, 1, n)
    BY DEF Prefixes
  <2> QED
    BY <1>7, <2>1
<1> QED
  BY <1>4, <1>5, <1>6, <1>8

(* store() over a file of whole lines (writeConfig(),                      *)
(* writeDefaultValues()) does not give up, leaves whole lines in which     *)
(* each element has its setting once, and keeps the comments and foreign   *)
(* fields.                                                                 *)
THEOREM WholeWritten ==
  ASSUME NEW f, Whole(f), NEW v \in NatValues
  PROVE  LET w == Written(f, v) IN
           /\ w.end = "ok" /\ Sure(w.text, v)
           /\ UserLines(w.text) = UserLines(f)
<1> DEFINE r == Read(f)
           s == Scan(f, v)[Len(f)]
           t == s.text
           D == DefaultLines(s.saved, v)[Len(Elements)]
<1>1. f \in Seq(Tokens) /\ r.place = "start" /\ r.clean /\ v \in Values
  BY DEF Whole, NatValues, Values
<1>2. ~r.empty /\ r \in ReaderStates
  BY <1>1, ReadsClean, ReadType DEF CleanReader
<1>3. s.out = "ok" /\ t = Rewritten(f, v).text /\ s.saved = r.given
  <2>1. r.place # "bad"
    BY <1>1
  <2>2. /\ s.saved = r.given /\ (s.out = "fault" <=> r.empty) /\ s.out \in {"ok", "failed", "fault"}
        /\ r.place = "start" => s.out # "failed" /\ ~s.stuck /\ (~r.empty => s.text = Rewritten(f, v).text)
    BY <1>1, <2>1, ScanEnd
  <2> HIDE DEF s
  <2> QED
    BY <1>1, <1>2, <2>2
<1>4. CopyOf(r, Rewritten(f, v), LinesOf(f), v)
  <2>1. Copied(f, v)
    BY <1>1, WrittenIsCopied
  <2> QED
    BY <1>1, <1>2, <2>1 DEF Copied
<1>5. Written(f, v) = [text |-> t \o D, end |-> "ok"]
  <2>1. Written(f, v) = [text |-> t \o (IF s.out = "ok" THEN D ELSE <<>>), end |-> s.out]
    BY DEF Written
  <2> HIDE DEF s, D
  <2> QED
    BY <1>3, <2>1
<1> HIDE DEF s
<1>6. Clean(t, s.saved, v) /\ LinesOf(t).kept = LinesOf(f).kept
  <2> DEFINE w == Rewritten(f, v)
  <2>1. /\ Good(w.text, r.given, v) /\ Read(w.text).place = PlaceOf(r)
        /\ r.clean => Read(w.text).clean /\ SameLines(r, LinesOf(f), LinesOf(w.text))
    BY <1>4 DEF CopyOf
  <2>2. PlaceOf(r) = "start"
    BY <1>1 DEF PlaceOf
  <2>3. LinesOf(w.text).kept = LinesOf(f).kept
    BY <1>1, <2>1 DEF SameLines
  <2>4. Clean(w.text, r.given, v)
    BY <1>1, <2>1, <2>2 DEF Clean
  <2> HIDE DEF w, r, t
  <2>5. t = w.text /\ s.saved = r.given
    BY <1>3 DEF w
  <2> QED
    BY <2>3, <2>4, <2>5
<1>7. s.saved \subseteq ElementNames
  BY <1>2, <1>3 DEF ReaderStates
<1>8. Lengthens(t, t \o D, ElementNames, v)
  BY <1>6, <1>7, DefaultsAdded
<1> HIDE DEF t, D
<1>9. Sure(t \o D, v) /\ LinesOf(t \o D).kept = LinesOf(f).kept
  BY <1>6, <1>8 DEF Lengthens, Sure
<1>10. UserLines(t \o D) = UserLines(f)
  BY <1>9 DEF UserLines, LinesOf
<1> QED
  BY <1>5, <1>9, <1>10

(* store() over a file that was cut once: when it does not give up, load() *)
(* gives back the settings; when it gives up at a comment that was cut,    *)
(* each setting its value or its default.                                  *)
THEOREM TornWritten ==
  ASSUME NEW f, FileOk(f), NEW v \in NatValues
  PROVE  LET w == Written(f, v) IN
           /\ w.end = "ok" => Kept(w.text, v)
           /\ w.end = "failed" => Near(w.text, v)
<1> DEFINE r == Read(f)
           s == Scan(f, v)[Len(f)]
           u == s.text
           D == DefaultLines(s.saved, v)[Len(Elements)]
<1>1. f \in Seq(Tokens) /\ r.place # "bad" /\ Sound(r) /\ v \in Values
  BY DEF FileOk, Sound, NatValues, Values
<1>2. /\ s.saved = r.given /\ (s.out = "fault" <=> r.empty)
      /\ ~r.empty => \E g : Source(f, g, v, s)
  BY <1>1, ScanEnd
<1>3. r \in ReaderStates
  BY <1>1, ReadType
<1>4. Written(f, v) = [text |-> u \o (IF s.out = "ok" THEN D ELSE <<>>), end |-> s.out]
  BY DEF Written
<1> HIDE DEF s, D
<1>5. CASE s.out = "fault"
  <2>1. Written(f, v).end = "fault"
    BY <1>4, <1>5
  <2> QED
    BY <2>1
<1>6. CASE s.out # "fault"
  <2>1. PICK g : Source(f, g, v, s)
    BY <1>2, <1>6
  <2> DEFINE c == Read(g)
             w == Rewritten(g, v)
             q == Read(u)
  <2>2. /\ g \in Seq(Tokens) /\ u = w.text /\ c.given = r.given /\ ~c.empty
        /\ c.place \in {"start", "stray", "bare", "comment", "name", "spaces"}
        /\ c.place \in {"name", "spaces"} => r.place \in {"spaces", "value"} /\ c.elem = r.elem
        /\ s.out = "failed" => c.place \in {"start", "comment"}
    BY <2>1 DEF Source
  <2>3. CopyOf(c, w, LinesOf(g), v)
    <3>1. Copied(g, v)
      BY <2>2, WrittenIsCopied
    <3> QED
      BY <2>2, <3>1 DEF Copied
  <2>4. Good(u, r.given, v) /\ q.place = PlaceOf(c)
    <3>1. Good(w.text, c.given, v) /\ Read(w.text).place = PlaceOf(c)
      BY <2>3 DEF CopyOf
    <3> HIDE DEF w, c, r, u
    <3> QED
      BY <2>2, <3>1
  <2>5. c.place \in {"name", "spaces"} => q.elem = c.elem
    <3>1. c.place \in {"name", "spaces"} => Read(w.text).elem = c.elem
      BY <2>3 DEF CopyOf
    <3> HIDE DEF w, c, r, u
    <3> QED
      BY <2>2, <3>1
  <2> HIDE DEF c, w
  <2>6. u \in Seq(Tokens) /\ q.given = r.given /\ q.settings = SetTo(r.given, v)
    BY <2>4 DEF Good
  <2>7. q.place \in {"start", "comment", "name", "spaces"}
    BY <2>2, <2>4 DEF PlaceOf
  <2>8. q.place \in {"name", "spaces"} => q.elem \notin r.given
    <3>1. q.place \in {"name", "spaces"} => c.place \in {"name", "spaces"}
      BY <2>2, <2>4 DEF PlaceOf
    <3> QED
      BY <1>1, <2>2, <2>5, <3>1 DEF Sound
  <2>9. FileOk(u) /\ Loaded(u) = q.settings
    <3>1. Sound(q)
      BY <2>6, <2>7, <2>8 DEF Sound
    <3> HIDE DEF u
    <3> QED
      BY <2>6, <3>1, LoadedIsRead DEF FileOk, Sound
  <2>10. CASE s.out = "ok"
    <3>1. Written(f, v) = [text |-> u \o D, end |-> "ok"]
      BY <1>4, <2>10
    <3>2. r.given \in SUBSET ElementNames
      BY <1>3 DEF ReaderStates
    <3>3. Torn(u, r.given, v)
      <4>1. \A e \in r.given : q.settings[e] = v[e]
        BY <2>6, <3>2 DEF SetTo
      <4> HIDE DEF r, u
      <4> QED
        BY <2>6, <2>7, <2>8, <4>1 DEF Torn
    <3>4. Complete(u \o D, u, v)
      <4>1. D = DefaultLines(r.given, v)[Len(Elements)]
        BY <1>2 DEF D
      <4> HIDE DEF u, r
      <4> QED
        BY <3>2, <3>3, <4>1, DefaultsRead
    <3> DEFINE t == u \o D
    <3>5. /\ t \in Seq(Tokens) /\ Read(t).settings = v
          /\ Read(t).place = "start" \/ t = u
      BY <3>4 DEF Complete
    <3> HIDE DEF t, u
    <3>6. FileOk(t)
      <4>1. CASE t = u
        BY <2>9, <4>1
      <4>2. CASE Read(t).place = "start"
        BY <3>5, <4>2 DEF FileOk, Sound
      <4> QED
        BY <3>5, <4>1, <4>2
    <3>7. Loaded(t) = v
      BY <3>5, <3>6, LoadedIsRead DEF FileOk, Sound
    <3>8. Written(f, v).end = "ok" /\ Written(f, v).text = t
      BY <3>1 DEF t
    <3> QED
      BY <3>6, <3>7, <3>8 DEF Kept
  <2>11. CASE s.out # "ok"
    <3>1. Written(f, v).text = u /\ Written(f, v).end = s.out
      <4>1. u \o <<>> = u
        BY <2>6, NothingMore
      <4> HIDE DEF u
      <4> QED
        BY <1>4, <2>11, <4>1
    <3>2. \A e \in ElementNames : q.settings[e] \in {Default[e], v[e]}
      BY <2>6 DEF SetTo
    <3>3. Near(u, v)
      BY <2>9, <3>2 DEF Near
    <3> HIDE DEF u
    <3> QED
      BY <2>11, <3>1, <3>3
  <2> QED
    BY <2>10, <2>11
<1> QED
  BY <1>5, <1>6

-----------------------------------------------------------------------------
(* The sessions.                                                           *)

TypeInv ==
  /\ TypeOK
  /\ file \in Seq(Tokens)
  /\ pending \in [text : Seq(Tokens), end : Ends]

LEMMA TypeInvInit ==
  ASSUME Init
  PROVE  TypeInv
<1>1. /\ settings = Default /\ phase = "off" /\ complete = FALSE /\ intact = TRUE /\ losses = 0
      /\ pending = Nothing /\ file \in UserFiles
  BY DEF Init
<1>2. file \in Seq(Tokens) /\ Default \in [ElementNames -> Int] /\ losses \in 0 .. MaxLosses
  BY <1>1, ConfigAssumption
<1>3. pending \in [text : Seq(Tokens), end : Ends] /\ pending.end = "ok"
  BY <1>1, EmptyText DEF Nothing, Ends
<1>4. TypeOK
  BY <1>1, <1>2, <1>3 DEF TypeOK
<1> QED
  BY <1>2, <1>3, <1>4 DEF TypeInv

LEMMA TypeInvNext ==
  ASSUME TypeInv, [Next]_vars
  PROVE  TypeInv'
<1> USE DEF TypeInv, TypeOK
<1>1. /\ Default \in [ElementNames -> Int] /\ MaxLosses \in Nat /\ NewValues \subseteq Int
      /\ <<>> \in Seq(Tokens) /\ Nothing \in [text : Seq(Tokens), end : Ends] /\ Nothing.end = "ok"
  BY ConfigAssumption, EmptyText DEF Nothing, Ends
<1>2. Loaded(file) \in [ElementNames -> Int]
  BY LoadedType
<1>3. \A f \in Seq(Tokens) : \A v \in Values : Written(f, v) \in [text : Seq(Tokens), end : Ends]
  BY WrittenType
<1>4. \A p \in [text : Seq(Tokens), end : Ends] : p.text \in Seq(Tokens) /\ p.end \in {"ok", "failed", "fault"}
  BY DEF Ends
<1>5. CASE Load
  BY <1>2, <1>5 DEF Load
<1>6. CASE LoadDefaults
  BY <1>1, <1>6 DEF LoadDefaults
<1>7. ASSUME NEW e \in ElementNames, NEW v \in NewValues, Change(e, v)
      PROVE  TypeInv'
  BY <1>1, <1>7 DEF Change
<1>8. CASE StoreBegin
  <2>1. pending' \in [text : Seq(Tokens), end : Ends]
    BY <1>3, <1>8 DEF StoreBegin, Values
  <2> QED
    BY <1>1, <1>4, <1>8, <2>1 DEF StoreBegin
<1>9. CASE StoreAnew
  <2>1. pending' \in [text : Seq(Tokens), end : Ends]
    BY <1>1, <1>3, <1>9 DEF StoreAnew, Values
  <2> QED
    BY <1>1, <1>4, <1>9, <2>1 DEF StoreAnew
<1>10. CASE StoreFails
  BY <1>10 DEF StoreFails
<1>11. CASE StoreEnd
  BY <1>1, <1>4, <1>11 DEF StoreEnd
<1>12. CASE Kill
  BY <1>1, <1>12 DEF Kill
<1>13. CASE PowerLoss
  <2>1. file' \in Seq(Tokens)
    <3>1. PICK n \in 0 .. Len(pending.text) : file' = SubSeq(pending.text, 1, n)
      BY <1>13 DEF PowerLoss, Prefixes
    <3>2. pending.text \in Seq(Tokens)
      BY <1>4
    <3>3. \A t \in Seq(Tokens) : \A i \in 0 .. Len(t) : SubSeq(t, 1, i) \in Seq(Tokens)
      OBVIOUS
    <3> QED
      BY <3>1, <3>2, <3>3
  <2>2. losses' \in 0 .. MaxLosses
    BY <1>1, <1>13 DEF PowerLoss
  <2> QED
    BY <1>1, <1>13, <2>1, <2>2 DEF PowerLoss
<1>14. CASE UNCHANGED vars
  BY <1>14 DEF vars
<1> QED
  BY <1>5, <1>6, <1>7, <1>8, <1>9, <1>10, <1>11, <1>12, <1>13, <1>14 DEF Next

(* In every session load() leaves an integer in each element, and store()  *)
(* ends in one of the three ways, whatever is in the file.                 *)
THEOREM SpecTypeOK == Spec => []TypeOK
<1>1. Init => TypeInv
  BY TypeInvInit
<1>2. TypeInv /\ [Next]_vars => TypeInv'
  BY TypeInvNext
<1>3. TypeInv => TypeOK
  BY DEF TypeInv
<1> QED
  BY <1>1, <1>2, <1>3, PTL DEF Spec

(* Values that the settings were given, or have by default.                *)
Meant(values, given) == values \in NatValues /\ \A e \in ElementNames : values[e] \in given[e]

MeantInv ==
  /\ meant \in [ElementNames -> SUBSET Int]
  /\ \A e \in ElementNames : Default[e] \in meant[e]

(* When the power has failed once at most.                                 *)
TornInv ==
  /\ Meant(settings, meant)
  /\ FileOk(file) /\ Meant(Loaded(file), meant)
  /\ complete => Loaded(file) = settings
  /\ phase = "storing" /\ pending.end = "ok" => Kept(pending.text, settings)
  /\ phase = "storing" /\ pending.end = "failed" => Near(pending.text, settings)

(* When it has never failed.                                               *)
WholeInv ==
  /\ phase # "hung" /\ pending.end = "ok"
  /\ Whole(file)
  /\ complete => Sure(file, settings)
  /\ phase = "storing" => Sure(pending.text, settings)

LinesInv ==
  /\ losses = 0
  /\ UserLines(IF phase = "storing" THEN pending.text ELSE file) = UserLines(original)

StoreInv ==
  /\ TypeInv /\ MeantInv
  /\ complete => phase = "off"
  /\ losses <= 1 => TornInv
  /\ losses = 0 => WholeInv
  /\ intact => LinesInv

LEMMA NearIsMeant ==
  ASSUME NEW f, NEW values, NEW given, Near(f, values), Meant(values, given),
         Default \in NatValues, \A e \in ElementNames : Default[e] \in given[e]
  PROVE  FileOk(f) /\ Meant(Loaded(f), given)
<1>1. f \in Seq(Tokens) /\ \A e \in ElementNames : Loaded(f)[e] \in {Default[e], values[e]}
  BY DEF Near, FileOk
<1>2. Loaded(f) \in [ElementNames -> Int]
  BY <1>1, LoadedType
<1>3. \A e \in ElementNames : Loaded(f)[e] \in Nat
  BY <1>1 DEF NatValues, Meant
<1>4. Loaded(f) \in NatValues
  BY <1>2, <1>3 DEF NatValues
<1> QED
  BY <1>1, <1>4 DEF Near, Meant

LEMMA KeptIsMeant ==
  ASSUME NEW f, NEW values, NEW given, Kept(f, values), Meant(values, given)
  PROVE  FileOk(f) /\ Loaded(f) = values /\ Meant(Loaded(f), given)
BY DEF Kept

LEMMA NothingLoaded == Whole(<<>>) /\ FileOk(<<>>) /\ Loaded(<<>>) = Default
BY NothingIsWhole, WholeIsOk, ReadEmpty DEF Unread

LEMMA RegularFacts ==
  ASSUME Regular
  PROVE  /\ NewValues \subseteq Nat /\ Default \in NatValues
         /\ \A f \in UserFiles : Whole(f)
BY DEF Regular, NatValues

LEMMA StoreInvInit ==
  ASSUME Regular, Init
  PROVE  StoreInv
<1>1. TypeInv
  BY TypeInvInit
<1>2. /\ file \in UserFiles /\ original = file /\ settings = Default /\ phase = "off" /\ pending = Nothing
      /\ meant = [e \in ElementNames |-> {Default[e], Loaded(file)[e]}]
      /\ complete = FALSE /\ losses = 0
  BY DEF Init
<1>3. Whole(file) /\ file \in Seq(Tokens) /\ Default \in NatValues
  BY <1>2, RegularFacts, <1>1 DEF TypeInv
<1>4. Loaded(file) \in NatValues /\ FileOk(file)
  BY <1>3, WholeIsOk, ReadsNat
<1>5. MeantInv
  BY <1>2, <1>3, <1>4 DEF MeantInv, NatValues
<1>6. Meant(settings, meant) /\ Meant(Loaded(file), meant)
  BY <1>2, <1>3, <1>4 DEF Meant
<1>7. TornInv
  BY <1>2, <1>4, <1>6 DEF TornInv
<1>8. WholeInv
  BY <1>2, <1>3 DEF WholeInv, Nothing
<1>9. LinesInv
  BY <1>2 DEF LinesInv
<1> QED
  BY <1>1, <1>2, <1>5, <1>7, <1>8, <1>9 DEF StoreInv

LEMMA MoreMeant ==
  ASSUME NEW values, NEW given, Meant(values, given), given \in [ElementNames -> SUBSET Int],
         NEW e \in ElementNames, NEW v \in Nat, NEW more, more = [given EXCEPT ![e] = @ \union {v}]
  PROVE  Meant(values, more) /\ Meant([values EXCEPT ![e] = v], more)
<1>1. values \in [ElementNames -> Nat] /\ \A a \in ElementNames : values[a] \in given[a]
  BY DEF Meant, NatValues
<1>2. \A a \in ElementNames : given[a] \subseteq more[a] /\ (a = e => v \in more[a])
  OBVIOUS
<1>3. Meant(values, more)
  BY <1>1, <1>2 DEF Meant, NatValues
<1>4. Meant([values EXCEPT ![e] = v], more)
  <2>1. [values EXCEPT ![e] = v] \in [ElementNames -> Nat]
    BY <1>1
  <2>2. \A a \in ElementNames : [values EXCEPT ![e] = v][a] \in more[a]
    BY <1>1, <1>2
  <2> QED
    BY <2>1, <2>2 DEF Meant, NatValues
<1> QED
  BY <1>3, <1>4

LEMMA LoadStep ==
  ASSUME Regular, StoreInv, TypeInv', Load
  PROVE  StoreInv'
<1>1. /\ phase = "off" /\ complete' = FALSE
      /\ UNCHANGED <<file, pending, meant, original, intact, losses>>
      /\ \/ Stuck(file) /\ phase' = "hung" /\ settings' = settings
         \/ ~Stuck(file) /\ phase' = "running" /\ settings' = Loaded(file)
  BY DEF Load
<1>2. MeantInv'
  BY <1>1 DEF StoreInv, MeantInv
<1>3. losses <= 1 => TornInv'
  <2> SUFFICES ASSUME losses <= 1
               PROVE  TornInv'
    OBVIOUS
  <2>1. TornInv
    BY DEF StoreInv
  <2>2. Meant(settings, meant) /\ FileOk(file) /\ Meant(Loaded(file), meant)
    BY <2>1 DEF TornInv
  <2>3. Meant(settings', meant)
    BY <1>1, <2>2
  <2> QED
    BY <1>1, <2>2, <2>3 DEF TornInv
<1>4. losses = 0 => WholeInv'
  <2> SUFFICES ASSUME losses = 0
               PROVE  WholeInv'
    OBVIOUS
  <2>1. pending.end = "ok" /\ Whole(file)
    BY DEF StoreInv, WholeInv
  <2>2. ~Stuck(file)
    BY <2>1, WholeIsOk
  <2> QED
    BY <1>1, <2>1, <2>2 DEF WholeInv
<1>5. intact => LinesInv'
  <2> SUFFICES ASSUME intact
               PROVE  LinesInv'
    OBVIOUS
  <2>1. LinesInv
    BY DEF StoreInv
  <2> QED
    BY <1>1, <2>1 DEF LinesInv
<1> QED
  BY <1>1, <1>2, <1>3, <1>4, <1>5 DEF StoreInv

LEMMA LoadDefaultsStep ==
  ASSUME Regular, StoreInv, TypeInv', LoadDefaults
  PROVE  StoreInv'
<1>1. /\ phase = "off" /\ phase' = "running" /\ complete' = FALSE /\ settings' = Default
      /\ UNCHANGED <<file, pending, meant, original, intact, losses>>
  BY DEF LoadDefaults
<1>2. MeantInv /\ MeantInv'
  BY <1>1 DEF StoreInv, MeantInv
<1>3. losses <= 1 => TornInv'
  <2> SUFFICES ASSUME losses <= 1
               PROVE  TornInv'
    OBVIOUS
  <2>1. FileOk(file) /\ Meant(Loaded(file), meant)
    BY DEF StoreInv, TornInv
  <2>2. Meant(Default, meant)
    BY <1>2, RegularFacts DEF Meant, MeantInv
  <2> QED
    BY <1>1, <2>1, <2>2 DEF TornInv
<1>4. losses = 0 => WholeInv'
  BY <1>1 DEF StoreInv, WholeInv
<1>5. intact => LinesInv'
  BY <1>1 DEF StoreInv, LinesInv
<1> QED
  BY <1>1, <1>2, <1>3, <1>4, <1>5 DEF StoreInv

LEMMA ChangeStep ==
  ASSUME Regular, StoreInv, TypeInv', NEW e \in ElementNames, NEW v \in NewValues, Change(e, v)
  PROVE  StoreInv'
<1>1. /\ phase = "running" /\ settings' = [settings EXCEPT ![e] = v]
      /\ meant' = [meant EXCEPT ![e] = @ \union {v}]
      /\ UNCHANGED <<file, phase, pending, complete, original, intact, losses>>
  BY DEF Change
<1>2. v \in Nat /\ v \in Int
  BY RegularFacts
<1>3. MeantInv /\ complete = FALSE
  BY <1>1 DEF StoreInv, TypeInv, TypeOK
<1>4. MeantInv'
  <2>1. meant \in [ElementNames -> SUBSET Int] /\ \A a \in ElementNames : Default[a] \in meant[a]
    BY <1>3 DEF MeantInv
  <2>2. meant' \in [ElementNames -> SUBSET Int] /\ \A a \in ElementNames : meant[a] \subseteq meant'[a]
    BY <1>1, <1>2, <2>1
  <2> QED
    BY <2>1, <2>2 DEF MeantInv
<1>5. losses <= 1 => TornInv'
  <2> SUFFICES ASSUME losses <= 1
               PROVE  TornInv'
    OBVIOUS
  <2>1. Meant(settings, meant) /\ FileOk(file) /\ Meant(Loaded(file), meant)
    BY DEF StoreInv, TornInv
  <2>2. Meant(settings', meant') /\ Meant(Loaded(file), meant')
    <3>1. meant \in [ElementNames -> SUBSET Int]
      BY <1>3 DEF MeantInv
    <3> QED
      BY <1>1, <1>2, <2>1, <3>1, MoreMeant
  <2> QED
    BY <1>1, <1>3, <2>1, <2>2 DEF TornInv
<1>6. losses = 0 => WholeInv'
  BY <1>1, <1>3 DEF StoreInv, WholeInv
<1>7. intact => LinesInv'
  BY <1>1 DEF StoreInv, LinesInv
<1> QED
  BY <1>1, <1>3, <1>4, <1>5, <1>6, <1>7 DEF StoreInv

LEMMA StoreBeginStep ==
  ASSUME Regular, StoreInv, TypeInv', StoreBegin
  PROVE  StoreInv'
<1> DEFINE w == Written(file, settings)
<1>1. /\ phase = "running" /\ phase' = "storing" /\ pending' = w /\ file' = <<>>
      /\ UNCHANGED <<settings, meant, complete, original, intact, losses>>
  BY DEF StoreBegin
<1>2. MeantInv /\ MeantInv' /\ complete = FALSE
  BY <1>1 DEF StoreInv, MeantInv, TypeInv, TypeOK
<1>3. losses <= 1 => TornInv'
  <2> SUFFICES ASSUME losses <= 1
               PROVE  TornInv'
    OBVIOUS
  <2>1. Meant(settings, meant) /\ FileOk(file)
    BY DEF StoreInv, TornInv
  <2>2. (w.end = "ok" => Kept(w.text, settings)) /\ (w.end = "failed" => Near(w.text, settings))
    BY <2>1, TornWritten DEF Meant
  <2>3. FileOk(<<>>) /\ Meant(Loaded(<<>>), meant)
    BY <1>2, NothingLoaded, RegularFacts DEF Meant, MeantInv
  <2> HIDE DEF w
  <2> QED
    BY <1>1, <1>2, <2>1, <2>2, <2>3 DEF TornInv
<1>4. losses = 0 => w.end = "ok" /\ Sure(w.text, settings) /\ UserLines(w.text) = UserLines(file)
  <2> SUFFICES ASSUME losses = 0
               PROVE  w.end = "ok" /\ Sure(w.text, settings) /\ UserLines(w.text) = UserLines(file)
    OBVIOUS
  <2>1. Whole(file) /\ settings \in NatValues
    BY DEF StoreInv, WholeInv, TornInv, Meant
  <2> QED
    BY <2>1, WholeWritten
<1> HIDE DEF w
<1>5. losses = 0 => WholeInv'
  BY <1>1, <1>2, <1>4, NothingLoaded DEF WholeInv
<1>6. intact => LinesInv'
  <2> SUFFICES ASSUME intact
               PROVE  LinesInv'
    OBVIOUS
  <2>1. losses = 0 /\ UserLines(file) = UserLines(original)
    BY <1>1 DEF StoreInv, LinesInv
  <2> QED
    BY <1>1, <1>4, <2>1 DEF LinesInv
<1> QED
  BY <1>1, <1>2, <1>3, <1>5, <1>6 DEF StoreInv

LEMMA StoreAnewStep ==
  ASSUME Regular, StoreInv, TypeInv', StoreAnew
  PROVE  StoreInv'
<1> DEFINE w == Written(<<>>, settings)
<1>1. /\ phase = "running" /\ phase' = "storing" /\ pending' = w /\ file' = <<>> /\ intact' = FALSE
      /\ UNCHANGED <<settings, meant, complete, original, losses>>
  BY DEF StoreAnew
<1>2. MeantInv /\ MeantInv' /\ complete = FALSE
  BY <1>1 DEF StoreInv, MeantInv, TypeInv, TypeOK
<1>3. losses <= 1 => w.end = "ok" /\ Sure(w.text, settings) /\ Kept(w.text, settings)
  <2> SUFFICES ASSUME losses <= 1
               PROVE  w.end = "ok" /\ Sure(w.text, settings) /\ Kept(w.text, settings)
    OBVIOUS
  <2>1. settings \in NatValues
    BY DEF StoreInv, TornInv, Meant
  <2>2. w.end = "ok" /\ Sure(w.text, settings)
    BY <2>1, NothingLoaded, WholeWritten
  <2> HIDE DEF w
  <2> QED
    BY <2>1, <2>2, SureIsKept
<1> HIDE DEF w
<1>4. losses <= 1 => TornInv'
  <2> SUFFICES ASSUME losses <= 1
               PROVE  TornInv'
    OBVIOUS
  <2>1. Meant(settings, meant)
    BY DEF StoreInv, TornInv
  <2>2. FileOk(<<>>) /\ Meant(Loaded(<<>>), meant)
    BY <1>2, NothingLoaded, RegularFacts DEF Meant, MeantInv
  <2> QED
    BY <1>1, <1>2, <1>3, <2>1, <2>2 DEF TornInv
<1>5. losses = 0 => WholeInv'
  BY <1>1, <1>2, <1>3, NothingLoaded DEF WholeInv
<1> QED
  BY <1>1, <1>2, <1>4, <1>5 DEF StoreInv

LEMMA StoreFailsStep ==
  ASSUME Regular, StoreInv, TypeInv', StoreFails
  PROVE  StoreInv'
<1>1. /\ phase = "running" /\ phase' = "off"
      /\ UNCHANGED <<file, settings, pending, meant, complete, original, intact, losses>>
  BY DEF StoreFails
<1>2. MeantInv'
  BY <1>1 DEF StoreInv, MeantInv
<1>3. losses <= 1 => TornInv'
  BY <1>1 DEF StoreInv, TornInv
<1>4. losses = 0 => WholeInv'
  BY <1>1 DEF StoreInv, WholeInv
<1>5. intact => LinesInv'
  BY <1>1 DEF StoreInv, LinesInv
<1> QED
  BY <1>1, <1>2, <1>3, <1>4, <1>5 DEF StoreInv

LEMMA StoreEndStep ==
  ASSUME Regular, StoreInv, TypeInv', StoreEnd
  PROVE  StoreInv'
<1>1. /\ phase = "storing" /\ phase' = "off" /\ pending' = Nothing /\ Nothing.end = "ok"
      /\ file' = IF pending.end = "fault" THEN file ELSE pending.text
      /\ complete' = (pending.end = "ok")
      /\ UNCHANGED <<settings, meant, original, intact, losses>>
  BY DEF StoreEnd, Nothing
<1>2. MeantInv /\ MeantInv' /\ pending.end \in {"ok", "failed", "fault"}
  BY <1>1 DEF StoreInv, MeantInv, TypeInv, TypeOK
<1>3. losses <= 1 => TornInv'
  <2> SUFFICES ASSUME losses <= 1
               PROVE  TornInv'
    OBVIOUS
  <2>1. /\ Meant(settings, meant) /\ FileOk(file) /\ Meant(Loaded(file), meant)
        /\ pending.end = "ok" => Kept(pending.text, settings)
        /\ pending.end = "failed" => Near(pending.text, settings)
    BY <1>1 DEF StoreInv, TornInv
  <2>2. /\ FileOk(file') /\ Meant(Loaded(file'), meant)
        /\ pending.end = "ok" => Loaded(file') = settings
    <3>1. CASE pending.end = "fault"
      BY <1>1, <2>1, <3>1
    <3>2. CASE pending.end = "ok"
      BY <1>1, <2>1, <3>2, KeptIsMeant
    <3>3. CASE pending.end = "failed"
      <4>1. Default \in NatValues /\ \A e \in ElementNames : Default[e] \in meant[e]
        BY <1>2, RegularFacts DEF MeantInv
      <4> QED
        BY <1>1, <2>1, <3>3, <4>1, NearIsMeant
    <3> QED
      BY <1>2, <3>1, <3>2, <3>3
  <2> QED
    BY <1>1, <2>1, <2>2 DEF TornInv
<1>4. losses = 0 => WholeInv'
  <2> SUFFICES ASSUME losses = 0
               PROVE  WholeInv'
    OBVIOUS
  <2>1. pending.end = "ok" /\ Sure(pending.text, settings)
    BY <1>1 DEF StoreInv, WholeInv
  <2>2. settings \in NatValues
    BY DEF StoreInv, TornInv, Meant
  <2>3. Whole(pending.text)
    BY <2>1, <2>2, SureIsKept
  <2> QED
    BY <1>1, <2>1, <2>3 DEF WholeInv
<1>5. intact => LinesInv'
  <2> SUFFICES ASSUME intact
               PROVE  LinesInv'
    OBVIOUS
  <2>1. losses = 0 /\ UserLines(pending.text) = UserLines(original)
    BY <1>1 DEF StoreInv, LinesInv
  <2>2. pending.end = "ok"
    BY <2>1 DEF StoreInv, WholeInv
  <2> QED
    BY <1>1, <2>1, <2>2 DEF LinesInv
<1> QED
  BY <1>1, <1>2, <1>3, <1>4, <1>5 DEF StoreInv

LEMMA KillStep ==
  ASSUME Regular, StoreInv, TypeInv', Kill
  PROVE  StoreInv'
<1>1. /\ phase # "off" /\ phase' = "off" /\ pending' = Nothing /\ Nothing.end = "ok"
      /\ intact' = (intact /\ phase # "storing")
      /\ UNCHANGED <<file, settings, meant, complete, original, losses>>
  BY DEF Kill, Nothing
<1>2. MeantInv' /\ complete = FALSE
  BY <1>1 DEF StoreInv, MeantInv, TypeInv, TypeOK
<1>3. losses <= 1 => TornInv'
  BY <1>1 DEF StoreInv, TornInv
<1>4. losses = 0 => WholeInv'
  BY <1>1, <1>2 DEF StoreInv, WholeInv
<1>5. intact' => LinesInv'
  BY <1>1 DEF StoreInv, LinesInv
<1> QED
  BY <1>1, <1>2, <1>3, <1>4, <1>5 DEF StoreInv

LEMMA PowerLossStep ==
  ASSUME Regular, StoreInv, TypeInv', PowerLoss
  PROVE  StoreInv'
<1>1. /\ phase = "storing" /\ phase' = "off" /\ pending' = Nothing
      /\ file' \in Prefixes(pending.text) /\ losses' = losses + 1 /\ intact' = FALSE
      /\ UNCHANGED <<settings, meant, complete, original>>
  BY DEF PowerLoss
<1>2. MeantInv /\ MeantInv' /\ complete = FALSE /\ losses \in Nat
  <2>1. MaxLosses \in Nat
    BY ConfigAssumption
  <2> QED
    BY <1>1, <2>1 DEF StoreInv, MeantInv, TypeInv, TypeOK
<1>3. losses' <= 1 => TornInv'
  <2> SUFFICES ASSUME losses' <= 1
               PROVE  TornInv'
    OBVIOUS
  <2>1. losses = 0
    BY <1>1, <1>2
  <2>2. Sure(pending.text, settings) /\ Meant(settings, meant)
    BY <1>1, <2>1 DEF StoreInv, WholeInv, TornInv
  <2>3. Near(file', settings)
    BY <1>1, <2>2, SureIsKept DEF Meant
  <2>4. Default \in NatValues /\ \A e \in ElementNames : Default[e] \in meant[e]
    BY <1>2, RegularFacts DEF MeantInv
  <2>5. FileOk(file') /\ Meant(Loaded(file'), meant)
    BY <2>2, <2>3, <2>4, NearIsMeant
  <2> QED
    BY <1>1, <1>2, <2>2, <2>5 DEF TornInv
<1>4. losses' # 0
  BY <1>1, <1>2
<1> QED
  BY <1>1, <1>2, <1>3, <1>4 DEF StoreInv

LEMMA StoreInvNext ==
  ASSUME Regular, StoreInv, [Next]_vars
  PROVE  StoreInv'
<1>1. TypeInv'
  BY TypeInvNext DEF StoreInv
<1>2. CASE Load
  BY <1>1, <1>2, LoadStep
<1>3. CASE LoadDefaults
  BY <1>1, <1>3, LoadDefaultsStep
<1>4. ASSUME NEW e \in ElementNames, NEW v \in NewValues, Change(e, v)
      PROVE  StoreInv'
  BY <1>1, <1>4, ChangeStep
<1>5. CASE StoreBegin
  BY <1>1, <1>5, StoreBeginStep
<1>6. CASE StoreAnew
  BY <1>1, <1>6, StoreAnewStep
<1>7. CASE StoreFails
  BY <1>1, <1>7, StoreFailsStep
<1>8. CASE StoreEnd
  BY <1>1, <1>8, StoreEndStep
<1>9. CASE Kill
  BY <1>1, <1>9, KillStep
<1>10. CASE PowerLoss
  BY <1>1, <1>10, PowerLossStep
<1>11. CASE UNCHANGED vars
  BY <1>1, <1>11 DEF vars, StoreInv, MeantInv, TornInv, WholeInv, LinesInv
<1> QED
  BY <1>2, <1>3, <1>4, <1>5, <1>6, <1>7, <1>8, <1>9, <1>10, <1>11 DEF Next

(* The inductive invariant holds in every state, when no setting is        *)
(* negative and the user's files are of whole lines: what is on the disk,  *)
(* or about to be, is sure when the power never failed, and gives each     *)
(* setting a value it was given, or its default, when it failed once.      *)
THEOREM SpecStoreInv == Regular => (Spec => []StoreInv)
<1> SUFFICES ASSUME Regular
             PROVE  Spec => []StoreInv
  OBVIOUS
<1>1. Init => StoreInv
  BY StoreInvInit
<1>2. StoreInv /\ [Next]_vars => StoreInv'
  BY StoreInvNext
<1> QED
  BY <1>1, <1>2, PTL DEF Spec

(* With at most one power loss, what load() makes of the file after a      *)
(* complete store() are the settings that the last session ended with.     *)
THEOREM SpecSurvives == Regular => (Spec => []Survives)
<1> SUFFICES ASSUME Regular
             PROVE  Spec => []Survives
  OBVIOUS
<1>1. StoreInv => Survives
  BY DEF StoreInv, TornInv, Survives
<1>2. Spec => []StoreInv
  BY SpecStoreInv
<1> QED
  BY <1>1, <1>2, PTL

(* With at most one power loss, no running session has a setting that is   *)
(* neither its default nor a value it was given before: load() never takes *)
(* a torn value for a whole one.                                           *)
THEOREM SpecNeverTorn == Regular => (Spec => []NeverTorn)
<1> SUFFICES ASSUME Regular
             PROVE  Spec => []NeverTorn
  OBVIOUS
<1>1. StoreInv => NeverTorn
  BY DEF StoreInv, TornInv, Meant, NeverTorn
<1>2. Spec => []StoreInv
  BY SpecStoreInv
<1> QED
  BY <1>1, <1>2, PTL

(* After a complete store() the next one, of the same settings, writes the *)
(* same text: the file does not grow from session to session.              *)
THEOREM SpecSettled == Regular => (Spec => []Settled)
<1> SUFFICES ASSUME Regular
             PROVE  Spec => []Settled
  OBVIOUS
<1>1. StoreInv => Settled
  <2> SUFFICES ASSUME StoreInv, phase = "off", complete, intact
               PROVE  Written(file, settings) = [text |-> file, end |-> "ok"]
    BY DEF Settled
  <2>1. losses = 0
    BY DEF StoreInv, LinesInv
  <2>2. Sure(file, settings) /\ settings \in NatValues
    BY <2>1 DEF StoreInv, WholeInv, TornInv, Meant
  <2> QED
    BY <2>2, SureIsKept
<1>2. Spec => []StoreInv
  BY SpecStoreInv
<1> QED
  BY <1>1, <1>2, PTL

(* While every store() has ended, the comments and foreign fields in the   *)
(* file are those that the user wrote, between all sessions.               *)
THEOREM SpecUserLinesKept == Regular => (Spec => []UserLinesKept)
<1> SUFFICES ASSUME Regular
             PROVE  Spec => []UserLinesKept
  OBVIOUS
<1>1. StoreInv => UserLinesKept
  BY DEF StoreInv, LinesInv, UserLinesKept
<1>2. Spec => []StoreInv
  BY SpecStoreInv
<1> QED
  BY <1>1, <1>2, PTL

(* While every store() has ended, load() is never held for ever, and       *)
(* writeConfig() neither gives up nor writes a text of negative length.    *)
THEOREM SpecNeverStuck == Regular => (Spec => []NeverStuck)
<1> SUFFICES ASSUME Regular
             PROVE  Spec => []NeverStuck
  OBVIOUS
<1>1. StoreInv => NeverStuck
  BY DEF StoreInv, LinesInv, WholeInv, NeverStuck
<1>2. Spec => []StoreInv
  BY SpecStoreInv
<1> QED
  BY <1>1, <1>2, PTL
==============================================================================
