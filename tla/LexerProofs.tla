------------------------------ MODULE LexerProofs ------------------------------
(***************************************************************************)
(* For every text: the stack of indentations grows strictly from 0, and      *)
(* INDENT and DEDENT balance.                                               *)
(***************************************************************************)
EXTENDS LexerProperties, FiniteSetTheorems, SequenceTheorems, WellFoundedInduction, TLAPS

Tokens == Words \cup DOMAIN Spelling \cup {"NEWLINE", "INDENT", "DEDENT", "EOF"}

(* The inductive invariant. *)
Typed == text \in Seq(STRING) /\ tokens \in Seq(Tokens) /\ indent_stack \in Seq(Nat)
NeverOver(ts) == \A k \in DOMAIN ts : Opened(SubSeq(ts, 1, k)) >= 0
LexInv ==
  /\ Typed /\ TypeOK
  /\ Opened(tokens) = Len(indent_stack) - 1 /\ NeverOver(tokens)
  /\ lexing = "done" => Len(indent_stack) = 1

--------------------------------------------------------------------------------
LEMMA Least ==
  ASSUME NEW S \in SUBSET Nat, S # {}
  PROVE  \E m \in S : \A n \in S : m <= n
<1> DEFINE R == {ss \in Nat \X Nat : ss[1] < ss[2]}
<1>1. IsWellFoundedOn(R, Nat)
  BY NatLessThanWellFounded DEF OpToRel
<1>2. PICK m \in S : \A n \in S : <<n, m>> \notin R
  BY <1>1, WFMin
<1>3. ASSUME NEW n \in S  PROVE m <= n
  <2>1. <<n, m>> \in Nat \X Nat /\ <<n, m>>[1] = n /\ <<n, m>>[2] = m
    OBVIOUS
  <2>2. ~(n < m)
    BY <1>2, <2>1
  <2> QED BY <2>2
<1> QED BY <1>3

(* The searches end: at a symbol, or at the end of the text.                 *)
LEMMA Searches ==
  ASSUME Typed, NEW k \in 1..End, NEW S
  PROVE  /\ Beyond(k, S) \in k..End /\ First(k, S) \in k..End
         /\ Beyond(k, S) \in Nat /\ First(k, S) \in Nat /\ k \in Nat /\ End \in Nat
<1>0. End \in Nat /\ k \in Nat
  BY DEF Typed, End
<1> DEFINE Outside == {j \in k..End : j = End \/ text[j] \notin S}
           Inside == {j \in k..End : j = End \/ text[j] \in S}
<1>1. Outside \in SUBSET Nat /\ Outside # {} /\ Inside \in SUBSET Nat /\ Inside # {}
  BY <1>0
<1>2. Beyond(k, S) \in k..End
  <2>1. PICK j \in Outside : \A i \in Outside : j <= i
    <3> HIDE DEF Outside
    <3> QED BY <1>1, Least
  <2>2. \A i \in k..j - 1 : i \in k..End /\ ~(j <= i) /\ i # End
    BY <1>0
  <2>3. \A i \in k..j - 1 : text[i] \in S
    BY <2>1, <2>2
  <2> QED BY <2>3 DEF Beyond
<1>3. First(k, S) \in k..End
  <2>1. PICK j \in Inside : \A i \in Inside : j <= i
    <3> HIDE DEF Inside
    <3> QED BY <1>1, Least
  <2>2. \A i \in k..j - 1 : i \in k..End /\ ~(j <= i) /\ i # End
    BY <1>0
  <2>3. \A i \in k..j - 1 : text[i] \notin S
    BY <2>1, <2>2
  <2> QED BY <2>3 DEF First
<1> QED BY <1>0, <1>2, <1>3

--------------------------------------------------------------------------------
(* No operator is longer than three symbols, and none has the name of a token
   of blocks.                                                                *)
LEMMA Spelled ==
  ASSUME NEW t \in DOMAIN Spelling
  PROVE  Len(Spelling[t]) \in 1..3 /\ t \notin {"INDENT", "DEDENT"}
<1>1. t \in Single \cup Double \cup Triple
  BY DEF Spelling
<1>2. t \notin {"INDENT", "DEDENT"}
  BY <1>1 DEF Single, Double, Triple, Opening, Closing
<1>3. CASE t \in Single
  <2>0. t \notin Double \cup Triple
    BY <1>3 DEF Single, Double, Triple, Opening, Closing
  <2>1. Spelling[t] = <<t>>
    BY <1>1, <1>3, <2>0 DEF Spelling, Double, Triple
  <2>2. Len(<<t>>) = 1
    OBVIOUS
  <2> QED BY <1>2, <2>1, <2>2
<1>4. CASE t \notin Single /\ t \in Triple
  <2>1. Len(Spelling[t]) = 3
    BY <1>4 DEF Spelling, Triple
  <2> QED BY <1>2, <2>1
<1>5. CASE t \notin Single /\ t \in Double
  <2>1. CASE t \in {"==", "!=", "<=", ">=", "//", "**", "+=", "-="}
    <3>1. Len(Spelling[t]) = 2
      BY <1>1, <1>5, <2>1 DEF Spelling
    <3> QED BY <1>2, <3>1
  <2>2. CASE t \in {"*=", "/=", "%=", "<<", ">>", "&=", "|=", "^=", "->"}
    <3>1. Len(Spelling[t]) = 2
      BY <1>1, <1>5, <2>2 DEF Spelling
    <3> QED BY <1>2, <3>1
  <2> QED BY <1>5, <2>1, <2>2 DEF Double
<1> QED BY <1>1, <1>2, <1>3, <1>4, <1>5

(* The longest operator is one, and ends within the text. *)
LEMMA LongestIs ==
  ASSUME Typed, pos \in 1..End, pos < End, Operators # {}
  PROVE  /\ Longest \in DOMAIN Spelling
         /\ Longest \notin {"INDENT", "DEDENT"}
         /\ pos + Len(Spelling[Longest]) \in 1..End
<1>1. Operators \subseteq DOMAIN Spelling
  BY DEF Operators
<1>2. \A t \in Operators : Len(Spelling[t]) \in 1..3
  BY <1>1, Spelled
<1>3. \E t \in Operators : \A u \in Operators : Len(Spelling[u]) <= Len(Spelling[t])
  <2> DEFINE Size(t) == Len(Spelling[t])
  <2> HIDE DEF Size
  <2>1. \A t \in Operators : Size(t) \in 1..3
    BY <1>2 DEF Size
  <2>2. \E t \in Operators : \A u \in Operators : Size(u) <= Size(t)
    <3>1. CASE \E t \in Operators : Size(t) = 3
      BY <2>1, <3>1
    <3>2. CASE (\A t \in Operators : Size(t) # 3) /\ \E t \in Operators : Size(t) = 2
      BY <2>1, <3>2
    <3>3. CASE \A t \in Operators : Size(t) # 3 /\ Size(t) # 2
      BY <2>1, <3>3
    <3> QED BY <3>1, <3>2, <3>3
  <2> QED BY <2>2 DEF Size
<1>4. Longest \in Operators
  BY <1>3 DEF Longest
<1>5. Len(Spelling[Longest]) <= Len(Here)
  BY <1>4 DEF Operators, IsPrefix
<1>6. Len(Here) \in Nat /\ pos + Len(Here) <= End
  <2>1. End \in Nat /\ pos \in Nat /\ End = Len(text) + 1 /\ text \in Seq(STRING)
    BY DEF Typed, End
  <2> DEFINE last == IF pos + 2 < End THEN pos + 2 ELSE End - 1
  <2>2. last \in Int /\ pos <= last /\ last < End
    BY <2>1
  <2>3. \A i \in pos..last : text[i] \in STRING
    BY <2>1, <2>2
  <2> HIDE DEF last
  <2>4. Len(SubSeq(text, pos, last)) = last - pos + 1
    BY <2>1, <2>2, <2>3, SubSeqProperties
  <2>5. Here = SubSeq(text, pos, last)
    BY DEF Here, last
  <2> QED BY <2>1, <2>2, <2>4, <2>5
<1>7. Len(Spelling[Longest]) \in 1..3 /\ pos \in Nat /\ End \in Nat
  BY <1>2, <1>4 DEF Typed, End
<1> QED BY <1>1, <1>4, <1>5, <1>6, <1>7, Spelled

--------------------------------------------------------------------------------
(* Counting INDENT and DEDENT. *)
LEMMA PlacesFinite ==
  ASSUME NEW S, NEW ts \in Seq(S), NEW t
  PROVE  IsFiniteSet(Places(ts, t)) /\ Cardinality(Places(ts, t)) \in Nat
<1>1. IsFiniteSet(1..Len(ts))
  BY FS_Interval
<1>2. Places(ts, t) \subseteq 1..Len(ts)
  BY DEF Places
<1> QED BY <1>1, <1>2, FS_Subset, FS_CardinalityType

LEMMA PlacesAppend ==
  ASSUME NEW S, NEW ts \in Seq(S), NEW x \in S, NEW t
  PROVE  Cardinality(Places(Append(ts, x), t)) =
           Cardinality(Places(ts, t)) + IF x = t THEN 1 ELSE 0
<1> DEFINE n == Len(ts) + 1
<1>1. /\ DOMAIN Append(ts, x) = DOMAIN ts \cup {n} /\ n \notin DOMAIN ts
      /\ Append(ts, x)[n] = x /\ \A i \in DOMAIN ts : Append(ts, x)[i] = ts[i]
  OBVIOUS
<1>2. n \notin Places(ts, t) /\ IsFiniteSet(Places(ts, t))
      /\ Cardinality(Places(ts, t)) \in Nat
  BY <1>1, PlacesFinite DEF Places
<1> HIDE DEF n
<1>3. CASE x = t
  <2>1. Places(Append(ts, x), t) = Places(ts, t) \cup {n}
    BY <1>1, <1>3 DEF Places
  <2> QED BY <1>2, <1>3, <2>1, FS_AddElement
<1>4. CASE x # t
  <2>1. Places(Append(ts, x), t) = Places(ts, t)
    BY <1>1, <1>4 DEF Places
  <2> QED BY <1>2, <1>4, <2>1
<1> QED BY <1>3, <1>4

LEMMA OpenedAppend ==
  ASSUME NEW S, NEW ts \in Seq(S), NEW x \in S
  PROVE  /\ Opened(ts) \in Int
         /\ Opened(Append(ts, x)) = Opened(ts) + (IF x = "INDENT" THEN 1 ELSE 0)
                                               - (IF x = "DEDENT" THEN 1 ELSE 0)
<1>1. /\ Cardinality(Places(ts, "INDENT")) \in Nat
      /\ Cardinality(Places(ts, "DEDENT")) \in Nat
  BY PlacesFinite
<1>2. /\ Cardinality(Places(Append(ts, x), "INDENT")) =
           Cardinality(Places(ts, "INDENT")) + IF x = "INDENT" THEN 1 ELSE 0
      /\ Cardinality(Places(Append(ts, x), "DEDENT")) =
           Cardinality(Places(ts, "DEDENT")) + IF x = "DEDENT" THEN 1 ELSE 0
  BY PlacesAppend
<1> QED BY <1>1, <1>2 DEF Opened

(* One more token, which does not close more than is open. *)
LEMMA OverAppend ==
  ASSUME NEW ts \in Seq(Tokens), NEW x \in Tokens, NeverOver(ts), Opened(Append(ts, x)) >= 0
  PROVE  NeverOver(Append(ts, x)) /\ Append(ts, x) \in Seq(Tokens)
<1> PICK s : s = Append(ts, x)
  OBVIOUS
<1>1. /\ s \in Seq(Tokens) /\ Len(s) = Len(ts) + 1 /\ Len(ts) \in Nat
      /\ \A i \in 1..Len(ts) : s[i] = ts[i]
  OBVIOUS
<1>2. ASSUME NEW k \in DOMAIN s  PROVE Opened(SubSeq(s, 1, k)) >= 0
  <2>1. CASE k = Len(s)
    <3>1. SubSeq(s, 1, Len(s)) = s
      BY <1>1
    <3> QED BY <2>1, <3>1
  <2>2. CASE k # Len(s)
    <3>1. k \in 1..Len(ts)
      BY <1>1, <2>2
    <3>2. SubSeq(s, 1, k) = SubSeq(ts, 1, k)
      BY <1>1, <3>1
    <3>3. k \in DOMAIN ts
      BY <3>1
    <3> QED BY <3>2, <3>3 DEF NeverOver
  <2> QED BY <2>1, <2>2
<1> QED BY <1>1, <1>2 DEF NeverOver

(* What each kind of token does to the count of open blocks. *)
LEMMA EmitPlain ==
  ASSUME NEW ts \in Seq(Tokens), NEW d \in Nat, Opened(ts) = d, NeverOver(ts),
         NEW x \in Tokens, x \notin {"INDENT", "DEDENT"}
  PROVE  /\ Append(ts, x) \in Seq(Tokens)
         /\ Opened(Append(ts, x)) = d /\ NeverOver(Append(ts, x))
<1>1. Opened(Append(ts, x)) = d
  BY OpenedAppend
<1> QED BY <1>1, OverAppend

LEMMA EmitIndent ==
  ASSUME NEW ts \in Seq(Tokens), NEW d \in Nat, Opened(ts) = d, NeverOver(ts)
  PROVE  /\ Append(ts, "INDENT") \in Seq(Tokens)
         /\ Opened(Append(ts, "INDENT")) = d + 1 /\ NeverOver(Append(ts, "INDENT"))
<1>1. "INDENT" \in Tokens
  BY DEF Tokens
<1>2. Opened(Append(ts, "INDENT")) = d + 1
  BY <1>1, OpenedAppend
<1> QED BY <1>1, <1>2, OverAppend

LEMMA EmitDedent ==
  ASSUME NEW ts \in Seq(Tokens), NEW d \in Nat, Opened(ts) = d, NeverOver(ts), d > 0
  PROVE  /\ Append(ts, "DEDENT") \in Seq(Tokens)
         /\ Opened(Append(ts, "DEDENT")) = d - 1 /\ NeverOver(Append(ts, "DEDENT"))
<1>1. "DEDENT" \in Tokens
  BY DEF Tokens
<1>2. Opened(Append(ts, "DEDENT")) = d - 1
  BY <1>1, OpenedAppend
<1> QED BY <1>1, <1>2, OverAppend

(* The stack of indentations. *)
Stacked(st) ==
  /\ st \in Seq(Nat) /\ st # << >> /\ st[1] = 0
  /\ \A i \in 2..Len(st) : st[i - 1] < st[i]

LEMMA Pushed ==
  ASSUME NEW st, Stacked(st), NEW w \in Nat, w > Last(st)
  PROVE  Stacked(Append(st, w)) /\ Len(Append(st, w)) = Len(st) + 1
<1>1. st \in Seq(Nat) /\ Len(st) \in Nat /\ Len(st) > 0 /\ Last(st) = st[Len(st)]
  BY DEF Stacked, Last
<1> PICK s : s = Append(st, w)
  OBVIOUS
<1>2. /\ s \in Seq(Nat) /\ Len(s) = Len(st) + 1 /\ s[Len(st) + 1] = w
      /\ \A i \in 1..Len(st) : s[i] = st[i]
  BY <1>1
<1>3. ASSUME NEW i \in 2..Len(s)  PROVE s[i - 1] < s[i]
  <2>1. CASE i = Len(st) + 1
    BY <1>1, <1>2, <2>1
  <2>2. CASE i # Len(st) + 1
    <3>1. i \in 2..Len(st) /\ i \in 1..Len(st) /\ i - 1 \in 1..Len(st)
      BY <1>1, <1>2, <2>2
    <3> QED BY <1>2, <3>1 DEF Stacked
  <2> QED BY <2>1, <2>2
<1>4. s # << >> /\ s[1] = 0
  BY <1>1, <1>2 DEF Stacked
<1> QED BY <1>2, <1>3, <1>4 DEF Stacked

LEMMA Popped ==
  ASSUME NEW st, Stacked(st), Len(st) > 1
  PROVE  Stacked(Front(st)) /\ Len(Front(st)) = Len(st) - 1
<1>1. st \in Seq(Nat) /\ Len(st) \in Nat /\ Front(st) = SubSeq(st, 1, Len(st) - 1)
  BY DEF Stacked, Front
<1> PICK s : s = Front(st)
  OBVIOUS
<1>2. /\ s \in Seq(Nat) /\ Len(s) = Len(st) - 1
      /\ \A i \in 1..Len(st) - 1 : s[i] = st[i]
  BY <1>1
<1>3. ASSUME NEW i \in 2..Len(s)  PROVE s[i - 1] < s[i]
  <2>1. /\ i \in 2..Len(st) /\ i \in 1..Len(st) - 1 /\ i - 1 \in 1..Len(st) - 1
    BY <1>1, <1>2
  <2> QED BY <1>2, <2>1 DEF Stacked
<1>4. s # << >> /\ s[1] = 0
  <2>1. 1 \in 1..Len(st) - 1 /\ Len(s) # 0
    BY <1>1, <1>2
  <2>2. s[1] = st[1] /\ s # << >>
    BY <1>2, <2>1
  <2> QED BY <2>2 DEF Stacked
<1> QED BY <1>2, <1>3, <1>4 DEF Stacked

(* Only a block that was opened is wider than a line can be narrow. *)
LEMMA Nested ==
  ASSUME NEW st, Stacked(st), NEW w \in Nat, w < Last(st)
  PROVE  Len(st) > 1
<1>1. st \in Seq(Nat) /\ Len(st) \in Nat /\ Len(st) > 0 /\ st[1] = 0
      /\ Last(st) = st[Len(st)]
  BY DEF Stacked, Last
<1> QED BY <1>1

--------------------------------------------------------------------------------
(* What a step of the tokenizer starts from. *)
LEMMA Known ==
  ASSUME LexInv
  PROVE  /\ text \in Seq(STRING) /\ tokens \in Seq(Tokens) /\ Stacked(indent_stack)
         /\ pos \in 1..End /\ End \in Nat /\ pos \in Nat /\ paren_depth \in Nat
         /\ at_line_start \in BOOLEAN
         /\ Len(indent_stack) - 1 \in Nat /\ Opened(tokens) = Len(indent_stack) - 1
         /\ NeverOver(tokens)
         /\ Text \in pos..End /\ Width \in Nat /\ Text \in 1..End
<1>1. Text \in pos..End /\ Text \in Nat /\ pos \in Nat /\ End \in Nat
  BY Searches DEF LexInv, TypeOK, Text
<1> QED BY <1>1 DEF LexInv, Typed, TypeOK, Stacked, Width

(* A step that leaves tokens and stack alone. *)
LEMMA Moves ==
  ASSUME LexInv, text' = text, UNCHANGED <<tokens, indent_stack>>, pos' \in 1..End,
         paren_depth' = paren_depth, at_line_start' \in BOOLEAN,
         lexing' \in {"scan", "error"}
  PROVE  LexInv'
BY DEF LexInv, Typed, TypeOK, End

LEMMA MovingSteps ==
  ASSUME LexInv, BlankLine \/ OnlySpaces \/ SameIndent \/ Dedented \/ Space \/ Comment
                 \/ BadSymbol
  PROVE  LexInv'
<1>1. /\ pos \in 1..End /\ End \in Nat /\ pos \in Nat /\ at_line_start \in BOOLEAN
      /\ Text \in 1..End
  BY Known
<1>2. Typed
  BY DEF LexInv
<1>3. CASE BlankLine
  <2>1. First(Text, {"\n"}) \in Text..End /\ First(Text, {"\n"}) \in Nat
    BY <1>1, <1>2, Searches
  <2>2. pos' \in 1..End
    BY <1>1, <1>3, <2>1 DEF BlankLine
  <2> QED BY <1>1, <1>3, <2>2, Moves DEF BlankLine, LineStart
<1>4. CASE OnlySpaces
  BY <1>1, <1>4, Moves DEF OnlySpaces, LineStart
<1>5. CASE SameIndent
  BY <1>1, <1>5, Moves DEF SameIndent, CodeLine, LineStart, BeginLine
<1>6. CASE Dedented
  BY <1>1, <1>6, Moves DEF Dedented, BeginLine
<1>7. CASE Space
  <2>0. InLine /\ pos' = pos + 1 /\ UNCHANGED lexing /\ text' = text
    BY <1>7 DEF Space, At
  <2>1. pos' \in 1..End /\ lexing' = "scan" /\ text' = text
    BY <1>1, <2>0 DEF InLine
  <2>2. /\ UNCHANGED <<tokens, indent_stack>>
        /\ paren_depth' = paren_depth /\ at_line_start' \in BOOLEAN
    BY <1>1, <1>7 DEF Space
  <2> QED BY <2>1, <2>2, Moves
<1>8. CASE Comment
  <2>1. First(pos, {"\n"}) \in pos..End /\ First(pos, {"\n"}) \in Nat
    BY <1>1, <1>2, Searches
  <2>2. pos' \in 1..End
    BY <1>1, <1>8, <2>1 DEF Comment
  <2> QED BY <1>1, <1>8, <2>2, Moves DEF Comment, At, InLine
<1>9. CASE BadSymbol
  BY <1>1, <1>9, Moves DEF BadSymbol
<1> QED BY <1>3, <1>4, <1>5, <1>6, <1>7, <1>8, <1>9

(* A step that emits a token of no block. *)
LEMMA Emits ==
  ASSUME LexInv, text' = text, UNCHANGED indent_stack, pos' \in 1..End,
         NEW x \in Tokens, x \notin {"INDENT", "DEDENT"},
         tokens' = tokens \/ tokens' = Append(tokens, x),
         paren_depth' \in Nat, at_line_start' \in BOOLEAN,
         lexing' \in {"scan", "close", "done"}, lexing' = "done" => Len(indent_stack) = 1
  PROVE  LexInv'
<1> PICK d \in Nat : d = Len(indent_stack) - 1
  BY Known
<1>1. tokens \in Seq(Tokens) /\ Opened(tokens) = d /\ NeverOver(tokens)
  BY Known
<1> PICK ts : ts = Append(tokens, x)
  OBVIOUS
<1>2. ts \in Seq(Tokens) /\ Opened(ts) = d /\ NeverOver(ts)
  BY <1>1, EmitPlain
<1>3. tokens' \in Seq(Tokens) /\ Opened(tokens') = d /\ NeverOver(tokens')
  BY <1>1, <1>2
<1> QED BY <1>3 DEF LexInv, Typed, TypeOK, End

LEMMA EmittingSteps ==
  ASSUME LexInv, Newline \/ Word \/ Operator \/ FinalNewline \/ EndOfFile
  PROVE  LexInv'
<1>1. /\ pos \in 1..End /\ End \in Nat /\ pos \in Nat /\ at_line_start \in BOOLEAN
      /\ paren_depth \in Nat
  BY Known
<1>2. Typed
  BY DEF LexInv
<1>3. "NEWLINE" \in Tokens /\ "EOF" \in Tokens
  BY DEF Tokens
<1>4. CASE Newline
  <2>1. pos' \in 1..End /\ lexing' = "scan" /\ text' = text
    BY <1>1, <1>4 DEF Newline, At, InLine
  <2>2. tokens' = tokens \/ tokens' = Append(tokens, "NEWLINE")
    BY <1>4 DEF Newline
  <2> QED BY <1>1, <1>3, <1>4, <2>1, <2>2, Emits DEF Newline
<1>5. CASE Word
  <2>1. pos' \in 1..End /\ lexing' = "scan" /\ text' = text /\ text[pos] \in Words
    BY <1>1, <1>5 DEF Word, At, InLine
  <2>2. text[pos] \in Tokens /\ text[pos] \notin {"INDENT", "DEDENT"}
    BY <2>1, BlockTokensAssumption DEF Tokens
  <2>3. tokens' = Append(tokens, text[pos])
    BY <1>5 DEF Word, Emit
  <2> QED BY <1>1, <1>5, <2>1, <2>2, <2>3, Emits DEF Word
<1>6. CASE Operator
  <2>1. pos < End /\ Operators # {} /\ lexing' = "scan" /\ text' = text
    BY <1>6 DEF Operator, InLine
  <2>2. /\ Longest \in DOMAIN Spelling /\ Longest \notin {"INDENT", "DEDENT"}
        /\ pos + Len(Spelling[Longest]) \in 1..End
    BY <1>1, <1>2, <2>1, LongestIs
  <2>3. Longest \in Tokens /\ pos' \in 1..End /\ tokens' = Append(tokens, Longest)
    BY <1>6, <2>2 DEF Tokens, Operator, Emit
  <2>4. paren_depth' \in Nat
    <3>1. paren_depth' = Depth(Longest)
      BY <1>6 DEF Operator
    <3> QED BY <1>1, <3>1 DEF Depth
  <2> QED BY <1>1, <1>6, <2>1, <2>2, <2>3, <2>4, Emits DEF Operator
<1>7. CASE FinalNewline
  <2>1. tokens' = tokens \/ tokens' = Append(tokens, "NEWLINE")
    BY <1>7 DEF FinalNewline
  <2> QED BY <1>1, <1>3, <1>7, <2>1, Emits DEF FinalNewline
<1>8. CASE EndOfFile
  <2>1. tokens' = Append(tokens, "EOF")
    BY <1>8 DEF EndOfFile, Emit
  <2> QED BY <1>1, <1>3, <1>8, <2>1, Emits DEF EndOfFile
<1> QED BY <1>4, <1>5, <1>6, <1>7, <1>8

(* The steps that open a block or close one. *)
LEMMA IndentStep ==
  ASSUME LexInv, Indent
  PROVE  LexInv'
<1> PICK d \in Nat : d = Len(indent_stack) - 1
  BY Known
<1>1. tokens \in Seq(Tokens) /\ Opened(tokens) = d /\ NeverOver(tokens)
  BY Known
<1> PICK ts, st : ts = Append(tokens, "INDENT") /\ st = Append(indent_stack, Width)
  OBVIOUS
<1>2. ts \in Seq(Tokens) /\ Opened(ts) = d + 1 /\ NeverOver(ts)
  BY <1>1, EmitIndent
<1>3. Stacked(st) /\ Len(st) = Len(indent_stack) + 1
  BY Known, Pushed DEF Indent
<1>4. /\ tokens' = ts /\ indent_stack' = st /\ text' = text /\ pos' = Text
      /\ at_line_start' = FALSE /\ paren_depth' = paren_depth /\ lexing' = "scan"
  BY DEF Indent, Emit, BeginLine, CodeLine, LineStart
<1>5. Text \in 1..End /\ paren_depth \in Nat /\ text \in Seq(STRING)
      /\ Len(indent_stack) \in Nat
  BY Known DEF Stacked
<1>6. Typed' /\ TypeOK'
  BY <1>2, <1>3, <1>4, <1>5 DEF Typed, TypeOK, End, Stacked
<1>7. /\ Opened(tokens') = Len(indent_stack') - 1 /\ NeverOver(tokens')
      /\ lexing' # "done"
  BY <1>2, <1>3, <1>4, <1>5
<1> QED BY <1>6, <1>7 DEF LexInv

LEMMA ClosingSteps ==
  ASSUME LexInv, Dedent \/ CloseBlock
  PROVE  LexInv'
<1>1. Len(indent_stack) > 1
  <2>1. CASE Dedent
    BY <2>1, Known, Nested DEF Dedent, Shallower
  <2>2. CASE CloseBlock
    BY <2>2 DEF CloseBlock
  <2> QED BY <2>1, <2>2
<1> PICK d \in Nat : d = Len(indent_stack) - 1
  BY Known
<1>2. tokens \in Seq(Tokens) /\ Opened(tokens) = d /\ NeverOver(tokens) /\ d > 0
      /\ Len(indent_stack) \in Nat
  BY <1>1, Known DEF Stacked
<1> PICK ts, st : ts = Append(tokens, "DEDENT") /\ st = Front(indent_stack)
  OBVIOUS
<1>3. ts \in Seq(Tokens) /\ Opened(ts) = d - 1 /\ NeverOver(ts)
  BY <1>2, EmitDedent
<1>4. Stacked(st) /\ Len(st) = Len(indent_stack) - 1
  BY <1>1, Known, Popped
<1>5. /\ tokens' = ts /\ indent_stack' = st /\ text' = text /\ pos' = pos
      /\ at_line_start' = at_line_start /\ paren_depth' = paren_depth
      /\ lexing' \in {"dedent", "close"}
  BY DEF Dedent, CloseBlock, Emit
<1>6. /\ pos \in 1..End /\ paren_depth \in Nat /\ text \in Seq(STRING)
      /\ at_line_start \in BOOLEAN
  BY Known
<1> QED BY <1>2, <1>3, <1>4, <1>5, <1>6 DEF LexInv, Typed, TypeOK, End, Stacked

LEMMA LexInit ==
  ASSUME NEW source \in Seq(STRING), LexerInit(source)
  PROVE  LexInv
<1>1. text \in Seq(STRING) /\ End \in Nat /\ End >= 1 /\ Len(text) \in Nat
  BY DEF LexerInit, End
<1>2. Opened(<< >>) = 0
  <2>1. Places(<< >>, "INDENT") = {} /\ Places(<< >>, "DEDENT") = {}
    BY DEF Places
  <2>2. Cardinality({}) = 0
    BY FS_EmptySet
  <2>3. /\ Cardinality(Places(<< >>, "INDENT")) = 0
        /\ Cardinality(Places(<< >>, "DEDENT")) = 0
    BY <2>1, <2>2, Zenon
  <2>4. Opened(<< >>) = Cardinality(Places(<< >>, "INDENT"))
                        - Cardinality(Places(<< >>, "DEDENT"))
    BY Zenon DEF Opened
  <2> QED BY <2>3, <2>4
<1>3. tokens = << >> /\ indent_stack = <<0>> /\ Len(<<0>>) = 1
  BY DEF LexerInit
<1>4. NeverOver(tokens) /\ tokens \in Seq(Tokens) /\ indent_stack \in Seq(Nat)
  BY <1>3 DEF NeverOver
<1>5. TypeOK
  BY <1>1, <1>3 DEF LexerInit, TypeOK
<1> QED BY <1>1, <1>2, <1>3, <1>4, <1>5 DEF LexInv, Typed, LexerInit

LEMMA LexInductive == LexerSpec => []LexInv
<1>1. (\E source \in Seq(STRING) : LexerInit(source)) => LexInv
  BY LexInit
<1>2. LexInv /\ [Tokenize]_lexer => LexInv'
  <2>1. ASSUME LexInv, Tokenize  PROVE LexInv'
    BY <2>1, MovingSteps, EmittingSteps, IndentStep, ClosingSteps DEF Tokenize
  <2>2. ASSUME LexInv, UNCHANGED lexer  PROVE LexInv'
    BY <2>2 DEF lexer, LexInv, Typed, TypeOK, End
  <2> QED BY <2>1, <2>2
<1> QED BY <1>1, <1>2, PTL DEF LexerSpec

(* The position stays in the text and the stack of indentations, which the
   tokenizer unwraps the last of (lexer.rs:158), is never empty and grows
   strictly, for every text and every set of words.                          *)
THEOREM LexerTypeCorrect == LexerSpec => []TypeOK
<1>1. LexInv => TypeOK
  BY DEF LexInv
<1> QED BY <1>1, LexInductive, PTL

(* Every block the tokens open is on the stack, no token closes a block that
   none opened, and a text read to its end leaves none open.                 *)
THEOREM BlocksAlwaysBalanced == LexerSpec => []BlocksBalanced
<1>1. LexInv => BlocksBalanced
  BY DEF LexInv, BlocksBalanced, NeverOver
<1> QED BY <1>1, LexInductive, PTL
================================================================================
