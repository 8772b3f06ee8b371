----------------------------- MODULE ConsoleProofs -----------------------------
(***************************************************************************)
(* Theorems about Console, for every set of operations that are studied    *)
(* and that follow: its types, and that each operation leaves the console  *)
(* as the next one needs it.                                               *)
(*                                                                         *)
(* The first holds by what is true of all scripts.  For the second each    *)
(* script has an annotation (Annotations).  Here it is shown that a state  *)
(* of the annotation and what the script found in the buffer, which is     *)
(* unbounded, together stay what the console shows.  A console that was    *)
(* out of step when the operation began has no annotation: what an         *)
(* operation returns that waits for its echo is proved by itself.          *)
(***************************************************************************)
EXTENDS Annotations, SequenceTheorems, WellFoundedInduction, TLAPS

-----------------------------------------------------------------------------
(* What the console shows of a state                                       *)

Owners == {"own", "old"}
Shells == {"idle", "own", "old", "asks", "waits"}
Jobs == {"none", "own", "old"}
States ==
    [unread : Seq(Tokens), shell : Shells, ahead : Seq(Owners), job : Jobs, late : BOOLEAN, past : BOOLEAN]

(* What a script found in the buffer: no prompt, and nothing of its own    *)
(* once that is past.                                                      *)
Leftover(found, past) ==
    /\ found \in Seq(Tokens)
    /\ \A i \in DOMAIN found : found[i].kind # "prompt" /\ (past => found[i].of = "old")

(* The console shows a state behind what the script found in the buffer.   *)
Shows(s, found) ==
    /\ s \in States /\ Leftover(found, s.past)
    /\ unread = found \o s.unread
    /\ shell = s.shell /\ ahead = s.ahead /\ job = s.job /\ late = s.late

(* The least of some numbers.                                              *)
LEMMA LeastIndex ==
    ASSUME NEW S \in SUBSET Nat, S # {}
    PROVE  \E n \in S : \A m \in S : n <= m
<1>1. PICK n \in S : \A m \in S : ~(<<m, n>> \in OpToRel(<, Nat))
  BY NatLessThanWellFounded, WFMin
<1>2. \A m \in S : ~(m < n)
  BY <1>1 DEF OpToRel
<1> QED
  BY <1>2

(* A token that belongs to an earlier line.                                *)
Older(t) == [t EXCEPT !.of = "old"]

(* Tokens, and what becomes of them when the next line is typed.           *)
LEMMA TokenTypes ==
    /\ \A kind \in {"echo", "out", "prompt"}, of \in Owners : Token(kind, of) \in Tokens
    /\ \A t \in Tokens : t.kind \in {"echo", "out", "prompt"} /\ t.of \in Owners
    /\ \A t \in Tokens : Older(t) \in Tokens /\ Older(t).of = "old" /\ Older(t).kind = t.kind
  BY DEF Token, Tokens, Owners, Older

(* What is there when a line is typed belongs to earlier lines, and stays  *)
(* where it is.                                                            *)
LEMMA AgedTokens ==
    ASSUME NEW a \in Seq(Tokens)
    PROVE  /\ Aged(a) \in Seq(Tokens) /\ Len(Aged(a)) = Len(a) /\ DOMAIN Aged(a) = DOMAIN a
           /\ \A i \in DOMAIN a : Aged(a)[i] = Older(a[i])
           /\ \A i \in DOMAIN a : Aged(a)[i].of = "old" /\ Aged(a)[i].kind = a[i].kind
<1>1. Len(a) \in Nat /\ DOMAIN a = 1 .. Len(a) /\ \A i \in DOMAIN a : a[i] \in Tokens
  OBVIOUS
<1>2. Aged(a) = [i \in DOMAIN a |-> Older(a[i])]
  BY DEF Aged, Older
<1>3. \A i \in DOMAIN a : Older(a[i]) \in Tokens /\ Older(a[i]).of = "old" /\ Older(a[i]).kind = a[i].kind
  BY <1>1, TokenTypes
<1>4. Aged(a) \in [1 .. Len(a) -> Tokens]
  BY <1>1, <1>2, <1>3
<1>5. Aged(a) \in Seq(Tokens)
  BY <1>1, <1>4, SeqDef
<1>6. Len(Aged(a)) = Len(a)
  BY <1>1, <1>4, <1>5, LenProperties
<1> QED
  BY <1>1, <1>2, <1>3, <1>5, <1>6

(* Two sequences, one behind the other.                                    *)
LEMMA Joined ==
    ASSUME NEW S, NEW a \in Seq(S), NEW b \in Seq(S)
    PROVE  /\ a \o b \in Seq(S) /\ Len(a \o b) = Len(a) + Len(b)
           /\ DOMAIN (a \o b) = 1 .. Len(a) + Len(b)
           /\ DOMAIN a = 1 .. Len(a) /\ DOMAIN b = 1 .. Len(b) /\ Len(a) \in Nat /\ Len(b) \in Nat
           /\ \A i \in DOMAIN a : (a \o b)[i] = a[i]
           /\ \A i \in DOMAIN b : (a \o b)[Len(a) + i] = b[i]
           /\ \A i \in DOMAIN (a \o b) : i \in DOMAIN a \/ i - Len(a) \in DOMAIN b
<1>1. /\ a \o b \in Seq(S) /\ Len(a \o b) = Len(a) + Len(b)
      /\ \A i \in 1 .. Len(a) + Len(b) : (a \o b)[i] = IF i <= Len(a) THEN a[i] ELSE b[i - Len(a)]
  BY ConcatProperties
<1>2. /\ DOMAIN a = 1 .. Len(a) /\ DOMAIN b = 1 .. Len(b) /\ Len(a) \in Nat /\ Len(b) \in Nat
      /\ DOMAIN (a \o b) = 1 .. Len(a \o b)
  BY <1>1, LenProperties
<1> QED
  BY <1>1, <1>2

(* What two of them hold grows old together.                               *)
LEMMA AgedJoined ==
    ASSUME NEW a \in Seq(Tokens), NEW b \in Seq(Tokens)
    PROVE  Aged(a \o b) = Aged(a) \o Aged(b)
<1>1. /\ Aged(a) \in Seq(Tokens) /\ Aged(b) \in Seq(Tokens) /\ a \o b \in Seq(Tokens)
      /\ Aged(a \o b) \in Seq(Tokens) /\ Aged(a) \o Aged(b) \in Seq(Tokens)
  BY AgedTokens, Joined
<1>2. /\ Len(Aged(a)) = Len(a) /\ Len(Aged(b)) = Len(b) /\ Len(a \o b) = Len(a) + Len(b)
      /\ Len(Aged(a \o b)) = Len(a) + Len(b) /\ Len(Aged(a) \o Aged(b)) = Len(a) + Len(b)
      /\ Len(a) \in Nat /\ Len(b) \in Nat
  <2>1. Len(Aged(a)) = Len(a) /\ Len(Aged(b)) = Len(b) /\ Len(Aged(a \o b)) = Len(a \o b)
    BY <1>1, AgedTokens
  <2>2. Len(a \o b) = Len(a) + Len(b) /\ Len(a) \in Nat /\ Len(b) \in Nat
    BY Joined
  <2>3. Len(Aged(a) \o Aged(b)) = Len(Aged(a)) + Len(Aged(b))
    BY <1>1, Joined
  <2> QED
    BY <2>1, <2>2, <2>3
<1>3. ASSUME NEW i \in 1 .. Len(a) + Len(b)
      PROVE  Aged(a \o b)[i] = (Aged(a) \o Aged(b))[i]
  <2>1. Aged(a \o b)[i] = Older((a \o b)[i])
    BY <1>1, <1>2, AgedTokens, LenProperties
  <2>2. CASE i \in 1 .. Len(a)
    <3>1. (a \o b)[i] = a[i] /\ (Aged(a) \o Aged(b))[i] = Aged(a)[i] /\ i \in DOMAIN a
      BY <1>1, <1>2, <2>2, Joined
    <3> QED
      BY <2>1, <3>1, AgedTokens
  <2>3. CASE i \notin 1 .. Len(a)
    <3>1. PICK j \in 1 .. Len(b) : i = Len(a) + j
      <4>1. i - Len(a) \in 1 .. Len(b) /\ i = Len(a) + (i - Len(a))
        BY <1>2, <2>3
      <4> QED
        BY <4>1
    <3>2. (a \o b)[i] = b[j] /\ (Aged(a) \o Aged(b))[i] = Aged(b)[j] /\ j \in DOMAIN b
      BY <1>1, <1>2, <3>1, Joined
    <3> QED
      BY <2>1, <3>2, AgedTokens
  <2> QED
    BY <2>2, <2>3
<1> QED
  BY <1>1, <1>2, <1>3, SeqEqual

(* What matches is the script's own or a prompt.                           *)
LEMMA MatchesOwn ==
    ASSUME NEW t \in Tokens, NEW word, Matches(t, word)
    PROVE  t.of = "own" \/ t.kind = "prompt"
  BY DEF Matches, Token, Tokens

(* What it says of both that the console shows a state.                    *)
LEMMA ShownTypes ==
    ASSUME NEW s, NEW found, Shows(s, found)
    PROVE  /\ s \in States /\ s.unread \in Seq(Tokens) /\ s.ahead \in Seq(Owners) /\ s.shell \in Shells
           /\ s.job \in Jobs /\ s.late \in BOOLEAN /\ s.past \in BOOLEAN
           /\ found \in Seq(Tokens) /\ Leftover(found, s.past)
           /\ unread = found \o s.unread /\ unread \in Seq(Tokens)
           /\ shell = s.shell /\ ahead = s.ahead /\ job = s.job /\ late = s.late
<1>1. /\ s \in States /\ s.unread \in Seq(Tokens) /\ s.ahead \in Seq(Owners) /\ s.shell \in Shells
      /\ s.job \in Jobs /\ s.late \in BOOLEAN /\ s.past \in BOOLEAN
      /\ found \in Seq(Tokens) /\ Leftover(found, s.past) /\ unread = found \o s.unread
      /\ shell = s.shell /\ ahead = s.ahead /\ job = s.job /\ late = s.late
  BY DEF Shows, States, Leftover
<1> QED
  BY <1>1, Joined

(* What an expect consumes: there is a first of what matches.              *)
LEMMA EarliestFound ==
    ASSUME unread \in Seq(Tokens), NEW word, Found(word) # {}
    PROVE  /\ Earliest(word) \in DOMAIN unread /\ Matches(unread[Earliest(word)], word)
           /\ \A j \in Found(word) : Earliest(word) <= j
<1>1. DOMAIN unread = 1 .. Len(unread) /\ Len(unread) \in Nat
  OBVIOUS
<1>2. Found(word) \in SUBSET Nat
  BY <1>1 DEF Found
<1>3. \E i \in Found(word) : \A j \in Found(word) : i <= j
  BY <1>2, LeastIndex
<1>4. Earliest(word) \in Found(word) /\ \A j \in Found(word) : Earliest(word) <= j
  BY <1>3 DEF Earliest
<1> QED
  BY <1>4 DEF Found

(* The first match in the buffer is the first of what the script knows, or *)
(* it is in what the script found there.                                   *)
LEMMA FirstInBuffer ==
    ASSUME NEW s, NEW found, Shows(s, found), NEW word, Found(word) # {}
    PROVE  /\ Earliest(word) \in DOMAIN unread /\ Matches(unread[Earliest(word)], word)
           /\ \/ /\ Hits(s, word) # {} /\ FirstHit(s, word) \in DOMAIN s.unread
                 /\ Earliest(word) = Len(found) + FirstHit(s, word)
                 /\ unread[Earliest(word)] = s.unread[FirstHit(s, word)]
              \/ Earliest(word) \in DOMAIN found
<1> DEFINE e == Earliest(word)
           n == Len(found)
<1>1. /\ s.unread \in Seq(Tokens) /\ found \in Seq(Tokens) /\ unread = found \o s.unread /\ unread \in Seq(Tokens)
  BY ShownTypes
<1>2. /\ DOMAIN unread = 1 .. n + Len(s.unread) /\ DOMAIN found = 1 .. n /\ DOMAIN s.unread = 1 .. Len(s.unread)
      /\ n \in Nat /\ Len(s.unread) \in Nat
      /\ \A i \in DOMAIN s.unread : unread[n + i] = s.unread[i]
  BY <1>1, Joined
<1>3. \A j \in Found(word) : e <= j
  BY <1>1, EarliestFound
<1>4. e \in DOMAIN unread /\ Matches(unread[e], word)
  BY <1>1, EarliestFound
<1>5. ASSUME e \notin DOMAIN found
      PROVE  /\ Hits(s, word) # {} /\ FirstHit(s, word) \in DOMAIN s.unread
             /\ e = n + FirstHit(s, word) /\ unread[e] = s.unread[FirstHit(s, word)]
  <2>1. PICK h \in DOMAIN s.unread : e = n + h
    <3>1. e - n \in DOMAIN s.unread /\ e = n + (e - n)
      BY <1>2, <1>4, <1>5
    <3> QED
      BY <3>1
  <2>2. h \in Hits(s, word)
    BY <1>2, <1>4, <2>1 DEF Hits
  <2>3. ASSUME NEW j \in Hits(s, word)
        PROVE  h <= j
    <3>1. j \in DOMAIN s.unread /\ n + j \in Found(word)
      BY <1>2 DEF Hits, Found
    <3>2. e <= n + j
      BY <1>3, <3>1
    <3> QED
      BY <1>2, <2>1, <3>1, <3>2
  <2>4. FirstHit(s, word) \in Hits(s, word) /\ \A j \in Hits(s, word) : FirstHit(s, word) <= j
    BY <2>2, <2>3 DEF FirstHit
  <2>5. FirstHit(s, word) \in DOMAIN s.unread
    BY <2>4 DEF Hits
  <2>6. FirstHit(s, word) = h
    BY <1>2, <2>1, <2>2, <2>3, <2>4, <2>5
  <2> QED
    BY <1>2, <2>1, <2>2, <2>6
<1> QED
  BY <1>4, <1>5

(* What is nowhere in the buffer is not in the state.                      *)
LEMMA NothingToHit ==
    ASSUME NEW s, NEW found, Shows(s, found), NEW word, Found(word) = {}
    PROVE  Hits(s, word) = {}
<1>1. /\ s.unread \in Seq(Tokens) /\ found \in Seq(Tokens) /\ unread = found \o s.unread
  BY ShownTypes
<1>2. \A i \in DOMAIN s.unread : Len(found) + i \in DOMAIN unread /\ unread[Len(found) + i] = s.unread[i]
  BY <1>1, Joined
<1> QED
  BY <1>2 DEF Hits, Found

(* What is behind a place in a sequence.                                   *)
LEMMA BehindAPlace ==
    ASSUME NEW S, NEW s \in Seq(S), NEW h \in 0 .. Len(s)
    PROVE  /\ SubSeq(s, h + 1, Len(s)) \in Seq(S) /\ Len(SubSeq(s, h + 1, Len(s))) = Len(s) - h
           /\ \A i \in 1 .. Len(s) - h : SubSeq(s, h + 1, Len(s))[i] = s[h + i]
<1>1. Len(s) \in Nat /\ \A i \in 1 .. Len(s) : s[i] \in S
  OBVIOUS
<1>2. h + 1 \in Int /\ Len(s) \in Int /\ \A i \in h + 1 .. Len(s) : s[i] \in S
  BY <1>1
<1>3. /\ SubSeq(s, h + 1, Len(s)) \in Seq(S)
      /\ Len(SubSeq(s, h + 1, Len(s))) = IF h + 1 <= Len(s) THEN Len(s) - (h + 1) + 1 ELSE 0
      /\ \A i \in 1 .. Len(s) - (h + 1) + 1 : SubSeq(s, h + 1, Len(s))[i] = s[h + 1 + i - 1]
  BY <1>2, SubSeqProperties
<1>4. Len(SubSeq(s, h + 1, Len(s))) = Len(s) - h
  BY <1>1, <1>3
<1>5. ASSUME NEW i \in 1 .. Len(s) - h
      PROVE  SubSeq(s, h + 1, Len(s))[i] = s[h + i]
  <2>1. i \in 1 .. Len(s) - (h + 1) + 1 /\ h + 1 + i - 1 = h + i
    BY <1>1
  <2> QED
    BY <1>3, <2>1
<1> QED
  BY <1>3, <1>4, <1>5

(* What is behind a place in a sequence that two make.                     *)
LEMMA BehindInSecond ==
    ASSUME NEW S, NEW a \in Seq(S), NEW b \in Seq(S), NEW h \in DOMAIN b
    PROVE  SubSeq(a \o b, Len(a) + h + 1, Len(a \o b)) = SubSeq(b, h + 1, Len(b))
<1> DEFINE left == SubSeq(a \o b, Len(a) + h + 1, Len(a \o b))
           right == SubSeq(b, h + 1, Len(b))
<1>1. /\ a \o b \in Seq(S) /\ Len(a \o b) = Len(a) + Len(b) /\ Len(a) \in Nat /\ Len(b) \in Nat
      /\ DOMAIN b = 1 .. Len(b) /\ \A i \in DOMAIN b : (a \o b)[Len(a) + i] = b[i]
      /\ DOMAIN (a \o b) = 1 .. Len(a) + Len(b)
      /\ \A i \in DOMAIN b : b[i] \in S
  BY Joined
<1>2. \A i \in Len(a) + h + 1 .. Len(a) + Len(b) : (a \o b)[i] \in S
  BY <1>1
<1>3. \A i \in h + 1 .. Len(b) : b[i] \in S
  BY <1>1
<1>4. /\ left \in Seq(S) /\ Len(left) = Len(b) - h
      /\ \A i \in 1 .. Len(b) - h : left[i] = (a \o b)[(Len(a) + h) + i]
  <2>1. PICK c \in Seq(S) : c = a \o b
    BY <1>1
  <2>2. Len(c) = Len(a) + Len(b) /\ Len(a) + h \in 0 .. Len(c) /\ Len(c) - (Len(a) + h) = Len(b) - h
    BY <1>1, <2>1
  <2>3. /\ SubSeq(c, Len(a) + h + 1, Len(c)) \in Seq(S)
        /\ Len(SubSeq(c, Len(a) + h + 1, Len(c))) = Len(c) - (Len(a) + h)
        /\ \A i \in 1 .. Len(c) - (Len(a) + h) : SubSeq(c, Len(a) + h + 1, Len(c))[i] = c[(Len(a) + h) + i]
    BY <2>2, BehindAPlace
  <2> QED
    BY <2>1, <2>2, <2>3
<1>5. /\ right \in Seq(S) /\ Len(right) = Len(b) - h
      /\ \A i \in 1 .. Len(b) - h : right[i] = b[h + i]
  <2>1. h \in 0 .. Len(b)
    BY <1>1
  <2> QED
    BY <2>1, BehindAPlace
<1> HIDE DEF left, right
<1>7. ASSUME NEW i \in 1 .. Len(b) - h
      PROVE  left[i] = right[i]
  <2>1. h + i \in DOMAIN b /\ (Len(a) + h) + i = Len(a) + (h + i)
    BY <1>1
  <2>2. left[i] = (a \o b)[Len(a) + (h + i)] /\ right[i] = b[h + i]
    BY <1>4, <1>5, <2>1
  <2> QED
    BY <1>1, <2>1, <2>2
<1>8. left = right
  BY <1>4, <1>5, <1>7, SeqEqual
<1> QED
  BY <1>8 DEF left, right

(* The same, of a place in the first of the two.                           *)
LEMMA BehindInFirst ==
    ASSUME NEW S, NEW a \in Seq(S), NEW b \in Seq(S), NEW h \in DOMAIN a
    PROVE  /\ SubSeq(a, h + 1, Len(a)) \in Seq(S)
           /\ SubSeq(a \o b, h + 1, Len(a \o b)) = SubSeq(a, h + 1, Len(a)) \o b
<1> DEFINE left == SubSeq(a \o b, h + 1, Len(a \o b))
           rest == SubSeq(a, h + 1, Len(a))
<1>1. /\ a \o b \in Seq(S) /\ Len(a \o b) = Len(a) + Len(b) /\ Len(a) \in Nat /\ Len(b) \in Nat
      /\ DOMAIN a = 1 .. Len(a) /\ DOMAIN b = 1 .. Len(b)
      /\ \A i \in DOMAIN a : (a \o b)[i] = a[i]
      /\ \A i \in DOMAIN b : (a \o b)[Len(a) + i] = b[i]
      /\ DOMAIN (a \o b) = 1 .. Len(a) + Len(b)
      /\ \A i \in DOMAIN a : a[i] \in S
  BY Joined
<1>2. \A i \in h + 1 .. Len(a) + Len(b) : (a \o b)[i] \in S
  BY <1>1
<1>3. \A i \in h + 1 .. Len(a) : a[i] \in S
  BY <1>1
<1>4. /\ left \in Seq(S) /\ Len(left) = Len(a) + Len(b) - h
      /\ \A i \in 1 .. Len(a) + Len(b) - h : left[i] = (a \o b)[h + i]
  <2>1. PICK c \in Seq(S) : c = a \o b
    BY <1>1
  <2>2. Len(c) = Len(a) + Len(b) /\ h \in 0 .. Len(c)
    BY <1>1, <2>1
  <2>3. /\ SubSeq(c, h + 1, Len(c)) \in Seq(S) /\ Len(SubSeq(c, h + 1, Len(c))) = Len(c) - h
        /\ \A i \in 1 .. Len(c) - h : SubSeq(c, h + 1, Len(c))[i] = c[h + i]
    BY <2>2, BehindAPlace
  <2> QED
    BY <2>1, <2>2, <2>3
<1>5. /\ rest \in Seq(S) /\ Len(rest) = Len(a) - h
      /\ \A i \in 1 .. Len(a) - h : rest[i] = a[h + i]
  <2>1. h \in 0 .. Len(a)
    BY <1>1
  <2> QED
    BY <2>1, BehindAPlace
<1> HIDE DEF left, rest
<1>6. /\ rest \o b \in Seq(S) /\ Len(rest \o b) = Len(a) - h + Len(b)
      /\ DOMAIN rest = 1 .. Len(a) - h
      /\ \A i \in DOMAIN rest : (rest \o b)[i] = rest[i]
      /\ \A i \in DOMAIN b : (rest \o b)[Len(a) - h + i] = b[i]
  <2>1. /\ rest \o b \in Seq(S) /\ Len(rest \o b) = Len(rest) + Len(b)
        /\ DOMAIN rest = 1 .. Len(rest)
        /\ \A i \in DOMAIN rest : (rest \o b)[i] = rest[i]
        /\ \A i \in DOMAIN b : (rest \o b)[Len(rest) + i] = b[i]
    BY <1>5, Joined
  <2> QED
    BY <1>5, <2>1
<1>7. ASSUME NEW i \in 1 .. Len(a) + Len(b) - h
      PROVE  left[i] = (rest \o b)[i]
  <2>1. CASE i \in 1 .. Len(a) - h
    <3>1. left[i] = (a \o b)[h + i] /\ h + i \in DOMAIN a /\ rest[i] = a[h + i] /\ (rest \o b)[i] = rest[i]
      BY <1>1, <1>4, <1>5, <1>6, <2>1
    <3> QED
      BY <1>1, <3>1
  <2>2. CASE i \notin 1 .. Len(a) - h
    <3>1. PICK j \in DOMAIN b : i = Len(a) - h + j
      <4>1. i - (Len(a) - h) \in DOMAIN b /\ i = Len(a) - h + (i - (Len(a) - h))
        BY <1>1, <2>2
      <4> QED
        BY <4>1
    <3>2. h + i = Len(a) + j
      BY <1>1, <3>1
    <3> QED
      BY <1>1, <1>4, <1>6, <3>1, <3>2
  <2> QED
    BY <2>1, <2>2
<1>8. left = rest \o b
  BY <1>1, <1>4, <1>6, <1>7, SeqEqual
<1> QED
  BY <1>5, <1>8 DEF left, rest

(* A token more at the end of the second of the two.                       *)
LEMMA TokenAppended ==
    /\ \A a, b \in Seq(Tokens), e \in Tokens : Append(a \o b, e) = a \o Append(b, e)
    /\ \A b \in Seq(Tokens), e \in Tokens : Append(b, e) \in Seq(Tokens)
<1>1. ASSUME NEW a \in Seq(Tokens), NEW b \in Seq(Tokens), NEW e \in Tokens
      PROVE  Append(a \o b, e) = a \o Append(b, e)
  OBVIOUS
<1>2. ASSUME NEW b \in Seq(Tokens), NEW e \in Tokens
      PROVE  Append(b, e) \in Seq(Tokens)
  OBVIOUS
<1> QED
  BY <1>1, <1>2

(* The console shows a state when the terminal is as it says.              *)
LEMMA ShowsNext ==
    ASSUME NEW t \in States, NEW f \in Seq(Tokens), Leftover(f, t.past),
           unread' = f \o t.unread, shell' = t.shell, ahead' = t.ahead, job' = t.job, late' = t.late
    PROVE  Shows(t, f)'
  BY DEF Shows

(* What was found is of earlier lines once a line is typed.                *)
LEMMA AgedLeftover ==
    ASSUME NEW found \in Seq(Tokens), NEW past \in BOOLEAN, Leftover(found, past)
    PROVE  Leftover(Aged(found), TRUE)
  BY AgedTokens DEF Leftover

(* So is what was typed ahead, but for the new line.                       *)
LEMMA AgedAhead ==
    ASSUME NEW a \in Seq(Owners)
    PROVE  Append([i \in DOMAIN a |-> "old"], "own") \in Seq(Owners)
<1>1. Len(a) \in Nat /\ DOMAIN a = 1 .. Len(a)
  OBVIOUS
<1>2. [i \in DOMAIN a |-> "old"] \in [1 .. Len(a) -> Owners] /\ "own" \in Owners
  BY <1>1 DEF Owners
<1>3. [i \in DOMAIN a |-> "old"] \in Seq(Owners)
  BY <1>1, <1>2, SeqDef
<1> QED
  BY <1>2, <1>3

(* A line is typed.                                                        *)
LEMMA TypedShows ==
    ASSUME NEW s, NEW found, Shows(s, found), NEW takes \in Shells, Typed(takes),
           NEW j \in Jobs, job' = j, late' = late
    PROVE  Shows([TypedIn(s, takes) EXCEPT !.job = j], Aged(found))'
<1> DEFINE t == TypedIn(s, takes)
           echo == Token("echo", "own")
<1>1. /\ s \in States /\ s.unread \in Seq(Tokens) /\ s.ahead \in Seq(Owners) /\ s.shell \in Shells
      /\ s.job \in Jobs /\ s.late \in BOOLEAN /\ s.past \in BOOLEAN
      /\ found \in Seq(Tokens) /\ Leftover(found, s.past)
      /\ unread = found \o s.unread
      /\ shell = s.shell /\ ahead = s.ahead /\ late = s.late
  BY ShownTypes
<1>2. Aged(found) \in Seq(Tokens) /\ Aged(s.unread) \in Seq(Tokens) /\ echo \in Tokens
  BY <1>1, AgedTokens, TokenTypes DEF Owners
<1>3. unread' = Aged(found) \o Append(Aged(s.unread), echo)
  <2>1. unread' = Append(Aged(unread), echo)
    BY DEF Typed
  <2>2. Aged(unread) = Aged(found) \o Aged(s.unread)
    BY <1>1, AgedJoined
  <2>3. Append(Aged(found) \o Aged(s.unread), echo) = Aged(found) \o Append(Aged(s.unread), echo)
    BY <1>2, TokenAppended, Zenon
  <2> QED
    BY <2>1, <2>2, <2>3
<1>4. Append(Aged(s.unread), echo) \in Seq(Tokens)
  BY <1>2
<1>5. Append([i \in DOMAIN s.ahead |-> "old"], "own") \in Seq(Owners)
  BY <1>1, AgedAhead
<1>6. /\ t \in States /\ t.unread = Append(Aged(s.unread), echo) /\ t.past = TRUE /\ t.late = s.late
      /\ t.shell = (IF s.shell = "idle" THEN takes ELSE "old")
      /\ t.ahead = IF s.shell = "idle" THEN s.ahead ELSE Append([i \in DOMAIN s.ahead |-> "old"], "own")
  BY <1>1, <1>4, <1>5 DEF TypedIn, States, Shells
<1> HIDE DEF t
<1>7. PICK r : r = [t EXCEPT !.job = j]
  OBVIOUS
<1>8. /\ r \in States /\ r.unread = t.unread /\ r.past = TRUE /\ r.late = t.late /\ r.shell = t.shell
      /\ r.ahead = t.ahead /\ r.job = j
  BY <1>6, <1>7 DEF States
<1>9. shell' = t.shell /\ ahead' = t.ahead
  BY <1>1, <1>6 DEF Typed
<1>10. Leftover(Aged(found), TRUE)
  BY <1>1, AgedLeftover
<1>11. Shows(r, Aged(found))'
  BY <1>1, <1>2, <1>3, <1>6, <1>8, <1>9, <1>10, ShowsNext
<1> QED
  BY <1>6, <1>7, <1>11 DEF t

-----------------------------------------------------------------------------
(* Each step of the terminal shows what Annotations says of it             *)

(* A token behind a state is the only thing that changes in it.            *)
LEMMA BehindFields ==
    ASSUME NEW s \in States, NEW e \in Tokens
    PROVE  /\ Behind(s, e) \in States /\ Behind(s, e).unread = Append(s.unread, e)
           /\ Behind(s, e).unread \in Seq(Tokens)
           /\ Behind(s, e).shell = s.shell /\ Behind(s, e).ahead = s.ahead /\ Behind(s, e).job = s.job
           /\ Behind(s, e).late = s.late /\ Behind(s, e).past = s.past
<1>1. s.unread \in Seq(Tokens)
  BY DEF States
<1>2. Append(s.unread, e) \in Seq(Tokens)
  BY <1>1, TokenAppended, Zenon
<1>3. Behind(s, e) = [s EXCEPT !.unread = Append(s.unread, e)]
  BY DEF Behind
<1> QED
  BY <1>2, <1>3 DEF States

(* It is then behind the buffer, too.                                      *)
LEMMA BehindBuffer ==
    ASSUME NEW s, NEW found, Shows(s, found), NEW e \in Tokens
    PROVE  Append(unread, e) = found \o Append(s.unread, e)
<1>1. unread = found \o s.unread /\ found \in Seq(Tokens) /\ s.unread \in Seq(Tokens)
  BY ShownTypes
<1> QED
  BY <1>1, TokenAppended, Zenon

(* What the shell runs is the script's own or an earlier line's.           *)
LEMMA OwnerTypes ==
    ASSUME NEW s \in States
    PROVE  /\ s.shell # "idle" => OwnerOf(s) \in Owners
           /\ shell = s.shell => Whose = OwnerOf(s)
  BY DEF OwnerOf, Whose, States, Shells, Owners

(* An empty line is typed.                                                 *)
LEMMA BlankShows ==
    ASSUME NEW s, NEW found, Shows(s, found), TypeBlank
    PROVE  Shows(BlankIn(s), found)'
<1>1. /\ s \in States /\ s.unread \in Seq(Tokens) /\ s.ahead \in Seq(Owners) /\ s.shell \in Shells
      /\ s.past \in BOOLEAN /\ found \in Seq(Tokens) /\ Leftover(found, s.past)
      /\ unread = found \o s.unread
      /\ shell = s.shell /\ ahead = s.ahead /\ job = s.job /\ late = s.late
  BY ShownTypes
<1>2. shell' = shell /\ late' = late /\ job' = job
  BY DEF TypeBlank
<1>3. CASE s.shell = "idle"
  <2>1. Token("prompt", "own") \in Tokens
    BY TokenTypes DEF Owners
  <2>2. PICK e \in Tokens : e = Token("prompt", "own")
    BY <2>1
  <2>3. unread' = Append(unread, e) /\ ahead' = ahead /\ BlankIn(s) = Behind(s, e)
    BY <1>1, <1>3, <2>2 DEF TypeBlank, BlankIn
  <2>4. unread' = found \o Append(s.unread, e)
    BY <2>3, BehindBuffer
  <2>5. PICK t : t = Behind(s, e)
    OBVIOUS
  <2>6. /\ t \in States /\ t.unread = Append(s.unread, e) /\ t.shell = s.shell /\ t.ahead = s.ahead
        /\ t.job = s.job /\ t.late = s.late /\ t.past = s.past
    BY <1>1, <2>5, BehindFields
  <2>7. Shows(t, found)'
    BY <1>1, <1>2, <2>3, <2>4, <2>6, ShowsNext
  <2> QED
    BY <2>3, <2>5, <2>7
<1>4. CASE s.shell # "idle"
  <2>1. PICK t : t = [s EXCEPT !.ahead = Append(s.ahead, "own")]
    OBVIOUS
  <2>2. Append(s.ahead, "own") \in Seq(Owners)
    BY <1>1 DEF Owners
  <2>3. t \in States /\ t.unread = s.unread /\ t.shell = s.shell /\ t.job = s.job /\ t.late = s.late
        /\ t.past = s.past /\ t.ahead = Append(s.ahead, "own")
    BY <1>1, <2>1, <2>2 DEF States
  <2>4. unread' = unread /\ ahead' = Append(ahead, "own") /\ BlankIn(s) = t
    BY <1>1, <1>4, <2>1 DEF TypeBlank, BlankIn
  <2> QED
    BY <1>1, <1>2, <2>3, <2>4, ShowsNext
<1> QED
  BY <1>3, <1>4

(* The shell turns to something, and nothing else happens.                 *)
LEMMA TurnedShows ==
    ASSUME NEW s, NEW found, Shows(s, found), NEW to \in Shells, NEW prints \in Jobs,
           shell' = to, job' = prints, UNCHANGED <<unread, ahead, late>>
    PROVE  Shows([s EXCEPT !.shell = to, !.job = prints], found)'
<1>1. /\ s \in States /\ found \in Seq(Tokens) /\ Leftover(found, s.past) /\ unread = found \o s.unread
      /\ ahead = s.ahead /\ late = s.late
  BY ShownTypes
<1>2. PICK t : t = [s EXCEPT !.shell = to, !.job = prints]
  OBVIOUS
<1>3. t \in States /\ t.unread = s.unread /\ t.shell = to /\ t.job = prints /\ t.late = s.late
      /\ t.past = s.past /\ t.ahead = s.ahead
  BY <1>1, <1>2 DEF States
<1> QED
  BY <1>1, <1>2, <1>3, ShowsNext

(* A record of the same fields.                                            *)
LEMMA SameField ==
    ASSUME NEW s \in States
    PROVE  /\ \A to : [s EXCEPT !.shell = to, !.job = s.job] = [s EXCEPT !.shell = to]
           /\ \A j : [s EXCEPT !.shell = s.shell, !.job = j] = [s EXCEPT !.job = j]
           /\ [s EXCEPT !.shell = s.shell, !.job = s.job] = s
  BY DEF States

(* A reply is typed, to a program that asks or to the shell.               *)
LEMMA ReplyShows ==
    ASSUME NEW s, NEW found, Shows(s, found), NEW again \in BOOLEAN, TypeReply, Doing("answer") = again
    PROVE  \E rest : Shows(ReplyIn(s, again), rest)'
<1>1. /\ s \in States /\ s.shell \in Shells /\ shell = s.shell /\ job = s.job /\ s.job \in Jobs
      /\ unread = found \o s.unread
  BY ShownTypes
<1>2. job' = s.job /\ late' = late
  BY <1>1 DEF TypeReply
<1>3. CASE s.shell = "idle"
  <2>1. Typed("own") /\ "own" \in Shells /\ ReplyIn(s, again) = TypedIn(s, "own")
    BY <1>1, <1>3 DEF TypeReply, ReplyIn, Shells
  <2>2. Shows([TypedIn(s, "own") EXCEPT !.job = s.job], Aged(found))'
    BY <1>1, <1>2, <2>1, TypedShows
  <2>3. [TypedIn(s, "own") EXCEPT !.job = s.job] = TypedIn(s, "own")
    BY <1>1, <1>3 DEF TypedIn, States
  <2> QED
    BY <2>1, <2>2, <2>3, Zenon
<1>4. CASE s.shell # "idle"
  <2>1. PICK to : to = IF s.shell # "waits" THEN s.shell ELSE IF again THEN "asks" ELSE "own"
    OBVIOUS
  <2>2. to \in Shells /\ shell' = to /\ UNCHANGED <<unread, ahead, late>>
    BY <1>1, <1>4, <2>1 DEF TypeReply, Shells
  <2>3. Shows([s EXCEPT !.shell = to, !.job = s.job], found)'
    BY <1>1, <1>2, <2>2, TurnedShows
  <2>4. CASE s.shell # "waits"
    <3>1. ReplyIn(s, again) = s /\ to = s.shell
      BY <1>4, <2>1, <2>4 DEF ReplyIn
    <3>2. [s EXCEPT !.shell = to, !.job = s.job] = s
      BY <1>1, <3>1, SameField
    <3> QED
      BY <2>3, <3>1, <3>2, Zenon
  <2>5. CASE s.shell = "waits"
    <3>1. ReplyIn(s, again) = [s EXCEPT !.shell = to]
      BY <1>4, <2>1, <2>5 DEF ReplyIn
    <3>2. [s EXCEPT !.shell = to, !.job = s.job] = [s EXCEPT !.shell = to]
      BY <1>1, SameField
    <3> QED
      BY <2>3, <3>1, <3>2, Zenon
  <2> QED
    BY <2>4, <2>5
<1> QED
  BY <1>3, <1>4

(* A process begins that asks.                                             *)
LEMMA SpawnShows ==
    ASSUME NEW s, NEW found, Shows(s, found), SpawnProcess
    PROVE  Shows([s EXCEPT !.shell = "asks"], found)'
<1>1. s \in States /\ job = s.job /\ s.job \in Jobs /\ "asks" \in Shells
  BY ShownTypes DEF Shells
<1>2. shell' = "asks" /\ job' = s.job /\ UNCHANGED <<unread, ahead, late>>
  BY <1>1 DEF SpawnProcess
<1>3. Shows([s EXCEPT !.shell = "asks", !.job = s.job], found)'
  BY <1>1, <1>2, TurnedShows
<1> QED
  BY <1>1, <1>3, SameField

(* A terminal is attached whose output comes when it likes.                *)
LEMMA AttachShows ==
    ASSUME NEW s, NEW found, Shows(s, found), AttachTerminal
    PROVE  Shows([s EXCEPT !.job = "own"], found)'
<1>1. s \in States /\ shell = s.shell /\ s.shell \in Shells /\ "own" \in Jobs
  BY ShownTypes DEF Jobs
<1>2. shell' = s.shell /\ job' = "own" /\ UNCHANGED <<unread, ahead, late>>
  BY <1>1 DEF AttachTerminal
<1>3. Shows([s EXCEPT !.shell = s.shell, !.job = "own"], found)'
  BY <1>1, <1>2, TurnedShows
<1> QED
  BY <1>1, <1>3, SameField

(* The console shows more behind what it showed.                           *)
LEMMA MoreShows ==
    ASSUME NEW s, NEW found, Shows(s, found), NEW e \in Tokens, NEW to \in Shells,
           NEW rest \in Seq(Owners), NEW prints \in Jobs,
           unread' = Append(unread, e), shell' = to, ahead' = rest, job' = prints, late' = late
    PROVE  Shows([Behind(s, e) EXCEPT !.shell = to, !.ahead = rest, !.job = prints], found)'
<1>1. /\ s \in States /\ found \in Seq(Tokens) /\ Leftover(found, s.past) /\ late = s.late
  BY ShownTypes
<1>2. unread' = found \o Append(s.unread, e)
  BY BehindBuffer
<1>3. PICK b : b = Behind(s, e)
  OBVIOUS
<1>4. b \in States /\ b.unread = Append(s.unread, e) /\ b.late = s.late /\ b.past = s.past
  BY <1>1, <1>3, BehindFields
<1>5. PICK t : t = [b EXCEPT !.shell = to, !.ahead = rest, !.job = prints]
  OBVIOUS
<1>6. t \in States /\ t.unread = b.unread /\ t.shell = to /\ t.job = prints /\ t.late = b.late
      /\ t.past = b.past /\ t.ahead = rest
  BY <1>4, <1>5 DEF States
<1>7. Shows(t, found)'
  BY <1>1, <1>2, <1>4, <1>6, ShowsNext
<1> QED
  BY <1>3, <1>5, <1>7

(* Ctrl-C is typed.                                                        *)
LEMMA InterruptShows ==
    ASSUME NEW s, NEW found, Shows(s, found), SendInterrupt
    PROVE  Shows(InterruptIn(s), found)'
<1>1. s \in States /\ s.job \in Jobs /\ job = s.job /\ shell = s.shell
  BY ShownTypes
<1>2. PICK e : e = Token("prompt", IF s.shell = "idle" THEN "own" ELSE OwnerOf(s))
  OBVIOUS
<1>3. e \in Tokens
  BY <1>1, <1>2, OwnerTypes, TokenTypes DEF Owners
<1>4. /\ unread' = Append(unread, e) /\ shell' = "idle" /\ ahead' = <<>> /\ job' = s.job /\ late' = late
      /\ "idle" \in Shells /\ <<>> \in Seq(Owners)
  BY <1>1, <1>2, OwnerTypes DEF SendInterrupt, Shells
<1>5. Shows([Behind(s, e) EXCEPT !.shell = "idle", !.ahead = <<>>, !.job = s.job], found)'
  BY <1>1, <1>3, <1>4, MoreShows
<1>6. [Behind(s, e) EXCEPT !.shell = "idle", !.ahead = <<>>, !.job = s.job] = InterruptIn(s)
  <2>1. PICK b : b = Behind(s, e)
    OBVIOUS
  <2>2. b \in States /\ b.job = s.job
    BY <1>1, <1>3, <2>1, BehindFields
  <2>3. [b EXCEPT !.shell = "idle", !.ahead = <<>>, !.job = s.job] = [b EXCEPT !.shell = "idle", !.ahead = <<>>]
    BY <2>2 DEF States
  <2> QED
    BY <1>2, <2>1, <2>3 DEF InterruptIn
<1> QED
  BY <1>5, <1>6

(* The command prints.                                                     *)
LEMMA PrintsShows ==
    ASSUME NEW s, NEW found, Shows(s, found), Prints
    PROVE  \E t \in PrintedIn(s) : Shows(t, found)'
<1>1. /\ s \in States /\ s.job \in Jobs /\ job = s.job /\ shell = s.shell /\ ahead = s.ahead
      /\ s.ahead \in Seq(Owners) /\ s.shell \in Shells /\ s.unread \in Seq(Tokens) /\ found \in Seq(Tokens)
      /\ unread = found \o s.unread
  BY ShownTypes
<1>2. PICK e : e = Token("out", OwnerOf(s))
  OBVIOUS
<1>3. e \in Tokens /\ Token("out", Whose) = e
  BY <1>1, <1>2, OwnerTypes, TokenTypes DEF Prints
<1>4. PICK to : to = IF s.shell = "asks" THEN "waits" ELSE s.shell
  OBVIOUS
<1>5. /\ unread' = Append(unread, e) /\ shell' = to /\ ahead' = s.ahead /\ job' = s.job /\ late' = late
      /\ to \in Shells /\ s.shell \notin {"idle", "waits"}
  BY <1>1, <1>3, <1>4 DEF Prints, Shells
<1>6. Shows([Behind(s, e) EXCEPT !.shell = to, !.ahead = s.ahead, !.job = s.job], found)'
  BY <1>1, <1>3, <1>5, MoreShows
<1>7. [Behind(s, e) EXCEPT !.shell = to, !.ahead = s.ahead, !.job = s.job] \in PrintedIn(s)
  <2>1. PICK b : b = Behind(s, e)
    OBVIOUS
  <2>2. b \in States /\ b.job = s.job /\ b.ahead = s.ahead /\ b.shell = s.shell
    BY <1>1, <1>3, <2>1, BehindFields
  <2>3. [b EXCEPT !.shell = to, !.ahead = s.ahead, !.job = s.job]
            = [b EXCEPT !.shell = IF @ = "asks" THEN "waits" ELSE @]
    BY <1>4, <2>2 DEF States
  <2>4. \A i \in DOMAIN s.unread : s.unread[i] # e
    <3>1. \A i \in DOMAIN s.unread : Len(found) + i \in DOMAIN unread /\ unread[Len(found) + i] = s.unread[i]
      BY <1>1, Joined
    <3>2. \A i \in DOMAIN unread : unread[i] # e
      BY <1>3 DEF Prints
    <3> QED
      BY <3>1, <3>2
  <2> QED
    BY <1>2, <1>5, <2>1, <2>3, <2>4 DEF PrintedIn
<1> QED
  BY <1>6, <1>7

(* The job prints.                                                         *)
LEMMA JobPrintsShows ==
    ASSUME NEW s, NEW found, Shows(s, found), JobPrints
    PROVE  \E t \in JobPrintedIn(s) : Shows(t, found)'
<1>1. /\ s \in States /\ s.job \in Jobs /\ job = s.job /\ shell = s.shell /\ ahead = s.ahead
      /\ s.ahead \in Seq(Owners) /\ s.shell \in Shells
  BY ShownTypes
<1>2. PICK e : e = Token("out", s.job)
  OBVIOUS
<1>3. e \in Tokens /\ s.job # "none"
  BY <1>1, <1>2, TokenTypes DEF JobPrints, Jobs, Owners
<1>4. /\ unread' = Append(unread, e) /\ shell' = s.shell /\ ahead' = s.ahead /\ job' = "none" /\ late' = late
      /\ "none" \in Jobs
  BY <1>1, <1>2 DEF JobPrints, Jobs
<1>5. Shows([Behind(s, e) EXCEPT !.shell = s.shell, !.ahead = s.ahead, !.job = "none"], found)'
  BY <1>1, <1>3, <1>4, MoreShows
<1>6. [Behind(s, e) EXCEPT !.shell = s.shell, !.ahead = s.ahead, !.job = "none"] \in JobPrintedIn(s)
  <2>1. PICK b : b = Behind(s, e)
    OBVIOUS
  <2>2. b \in States /\ b.ahead = s.ahead /\ b.shell = s.shell
    BY <1>1, <1>3, <2>1, BehindFields
  <2>3. [b EXCEPT !.shell = s.shell, !.ahead = s.ahead, !.job = "none"] = [b EXCEPT !.job = "none"]
    BY <2>2 DEF States
  <2> QED
    BY <1>2, <1>3, <2>1, <2>3 DEF JobPrintedIn
<1> QED
  BY <1>5, <1>6

(* The command ends, and the next line that was typed ahead begins.        *)
LEMMA FinishesShows ==
    ASSUME NEW s, NEW found, Shows(s, found), Finishes
    PROVE  \E t \in FinishedIn(s) : Shows(t, found)'
<1>1. /\ s \in States /\ s.job \in Jobs /\ job = s.job /\ shell = s.shell /\ ahead = s.ahead /\ late = s.late
      /\ s.ahead \in Seq(Owners) /\ s.shell \in Shells /\ s.unread \in Seq(Tokens) /\ found \in Seq(Tokens)
      /\ unread = found \o s.unread /\ unread \in Seq(Tokens) /\ Leftover(found, s.past)
  BY ShownTypes
<1>2. PICK e : e = Token("prompt", OwnerOf(s))
  OBVIOUS
<1>3. e \in Tokens /\ Token("prompt", Whose) = e /\ s.shell \notin {"idle", "waits"}
  BY <1>1, <1>2, OwnerTypes, TokenTypes DEF Finishes
<1>4. CASE s.ahead = <<>>
  <2>1. /\ unread' = Append(unread, e) /\ shell' = "idle" /\ ahead' = s.ahead /\ job' = s.job /\ late' = late
        /\ "idle" \in Shells
    BY <1>1, <1>3, <1>4 DEF Finishes, Shells
  <2>2. Shows([Behind(s, e) EXCEPT !.shell = "idle", !.ahead = s.ahead, !.job = s.job], found)'
    BY <1>1, <1>3, <2>1, MoreShows
  <2>3. [Behind(s, e) EXCEPT !.shell = "idle", !.ahead = s.ahead, !.job = s.job] \in FinishedIn(s)
    <3>1. PICK b : b = Behind(s, e)
      OBVIOUS
    <3>2. b \in States /\ b.job = s.job /\ b.ahead = s.ahead
      BY <1>1, <1>3, <3>1, BehindFields
    <3>3. [b EXCEPT !.shell = "idle", !.ahead = s.ahead, !.job = s.job] = [b EXCEPT !.shell = "idle"]
      BY <3>2 DEF States
    <3> QED
      BY <1>2, <1>3, <1>4, <3>1, <3>3 DEF FinishedIn
  <2> QED
    BY <2>2, <2>3
<1>5. CASE s.ahead # <<>>
  <2>1. Head(s.ahead) \in Owners /\ Tail(s.ahead) \in Seq(Owners)
    BY <1>1, <1>5, HeadTailProperties
  <2>2. PICK h, rest : h = Head(s.ahead) /\ rest = Tail(s.ahead)
    OBVIOUS
  <2>3. PICK again : again = Token("echo", h)
    OBVIOUS
  <2>4. again \in Tokens /\ h \in Shells /\ rest \in Seq(Owners)
    BY <2>1, <2>2, <2>3, TokenTypes DEF Owners, Shells
  <2>5. PICK b : b = Behind(s, e)
    OBVIOUS
  <2>6. /\ b \in States /\ b.unread = Append(s.unread, e) /\ b.unread \in Seq(Tokens) /\ b.job = s.job
        /\ b.late = s.late /\ b.past = s.past
    BY <1>1, <1>3, <2>5, BehindFields
  <2>7. PICK c : c = Behind(b, again)
    OBVIOUS
  <2>8. /\ c \in States /\ c.unread = Append(b.unread, again) /\ c.unread \in Seq(Tokens) /\ c.job = s.job
        /\ c.late = s.late /\ c.past = s.past
    BY <2>4, <2>6, <2>7, BehindFields
  <2>9. PICK t : t = [c EXCEPT !.shell = h, !.ahead = rest]
    OBVIOUS
  <2>10. /\ t \in States /\ t.unread = c.unread /\ t.job = s.job /\ t.late = s.late /\ t.past = s.past
         /\ t.shell = h /\ t.ahead = rest
    BY <2>4, <2>8, <2>9 DEF States
  <2>11. t \in FinishedIn(s)
    BY <1>2, <1>3, <1>5, <2>2, <2>3, <2>5, <2>7, <2>9 DEF FinishedIn
  <2>12. unread' = found \o t.unread
    <3>1. unread' = unread \o <<e, again>>
      BY <1>1, <1>3, <1>5, <2>2, <2>3 DEF Finishes
    <3>2. unread \o <<e, again>> = Append(Append(unread, e), again)
      BY <1>1, <1>3, <2>4
    <3>3. Append(unread, e) = found \o b.unread
      BY <1>3, <2>6, BehindBuffer
    <3>4. Append(found \o b.unread, again) = found \o Append(b.unread, again)
      BY <1>1, <2>4, <2>6, TokenAppended, Zenon
    <3> QED
      BY <2>8, <2>10, <3>1, <3>2, <3>3, <3>4
  <2>13. shell' = h /\ ahead' = rest /\ job' = s.job /\ late' = s.late
    BY <1>1, <1>5, <2>2 DEF Finishes
  <2>14. Shows(t, found)'
    BY <1>1, <2>10, <2>12, <2>13, ShowsNext
  <2> QED
    BY <2>11, <2>14
<1> QED
  BY <1>4, <1>5

(* What is behind a place in what was found is still of that kind.         *)
LEMMA BehindLeftover ==
    ASSUME NEW found \in Seq(Tokens), NEW b \in Seq(Tokens), NEW past, Leftover(found, past), NEW e \in DOMAIN found
    PROVE  \E rest \in Seq(Tokens) :
               Leftover(rest, past) /\ SubSeq(found \o b, e + 1, Len(found \o b)) = rest \o b
<1> DEFINE rest == SubSeq(found, e + 1, Len(found))
<1>1. rest \in Seq(Tokens)
  BY BehindInFirst
<1>2. \A i \in DOMAIN rest : e + i \in DOMAIN found /\ rest[i] = found[e + i]
  <2>1. DOMAIN found = 1 .. Len(found) /\ Len(found) \in Nat
    OBVIOUS
  <2>2. e \in 0 .. Len(found)
    BY <2>1
  <2>3. Len(rest) = Len(found) - e /\ \A i \in 1 .. Len(found) - e : rest[i] = found[e + i]
    BY <2>2, BehindAPlace
  <2> HIDE DEF rest
  <2> QED
    BY <1>1, <2>1, <2>3
<1>3. SubSeq(found \o b, e + 1, Len(found \o b)) = rest \o b
  BY BehindInFirst
<1> HIDE DEF rest
<1>4. Leftover(rest, past)
  BY <1>1, <1>2 DEF Leftover
<1> QED
  BY <1>1, <1>3, <1>4

(* What is consumed behind what the script found leaves nothing of that;   *)
(* what is consumed within it leaves the state as it was.                  *)
LEMMA ConsumedShows ==
    ASSUME NEW s, NEW found, Shows(s, found), NEW word, Found(word) # {},
           Consumed(Earliest(word)), UNCHANGED <<shell, ahead, job, late>>
    PROVE  \/ /\ Hits(s, word) # {}
              /\ unread[Earliest(word)] = s.unread[FirstHit(s, word)]
              /\ Shows(After(s, FirstHit(s, word)), <<>>)'
           \/ /\ ~s.past /\ unread[Earliest(word)].kind # "prompt" /\ Matches(unread[Earliest(word)], word)
              /\ \E rest : Shows(s, rest)'
<1>1. /\ s \in States /\ s.unread \in Seq(Tokens) /\ found \in Seq(Tokens) /\ Leftover(found, s.past)
      /\ unread = found \o s.unread /\ s.past \in BOOLEAN /\ unread \in Seq(Tokens)
      /\ shell = s.shell /\ ahead = s.ahead /\ job = s.job /\ late = s.late
  BY ShownTypes
<1>2. PICK e : e = Earliest(word)
  OBVIOUS
<1>3. unread' = SubSeq(unread, e + 1, Len(unread)) /\ shell' = shell /\ ahead' = ahead /\ job' = job /\ late' = late
  BY <1>2 DEF Consumed
<1>4. e \in DOMAIN unread /\ Matches(unread[e], word)
  BY <1>2, FirstInBuffer
<1>5. CASE /\ Hits(s, word) # {} /\ FirstHit(s, word) \in DOMAIN s.unread
           /\ e = Len(found) + FirstHit(s, word) /\ unread[e] = s.unread[FirstHit(s, word)]
  <2>1. PICK h \in DOMAIN s.unread : h = FirstHit(s, word)
    BY <1>5
  <2>2. unread' = SubSeq(s.unread, h + 1, Len(s.unread))
    <3>1. SubSeq(found \o s.unread, Len(found) + h + 1, Len(found \o s.unread))
              = SubSeq(s.unread, h + 1, Len(s.unread))
      BY <1>1, BehindInSecond
    <3> QED
      BY <1>1, <1>3, <1>5, <2>1, <3>1
  <2>3. PICK rest : rest = SubSeq(s.unread, h + 1, Len(s.unread))
    OBVIOUS
  <2>4. rest \in Seq(Tokens)
    <3>1. h \in 0 .. Len(s.unread)
      BY <1>1
    <3> QED
      BY <1>1, <2>3, <3>1, BehindAPlace
  <2>5. PICK t : t = [s EXCEPT !.unread = rest, !.past = TRUE]
    OBVIOUS
  <2>6. /\ t \in States /\ t.unread = rest /\ t.shell = s.shell /\ t.ahead = s.ahead /\ t.job = s.job
        /\ t.late = s.late /\ t.past = TRUE
    BY <1>1, <2>4, <2>5 DEF States
  <2>7. t = After(s, h)
    BY <2>3, <2>5 DEF After
  <2>8. <<>> \in Seq(Tokens) /\ Leftover(<<>>, t.past) /\ <<>> \o rest = rest
    BY <2>4, ConcatEmptySeq DEF Leftover
  <2>9. Shows(t, <<>>)'
    BY <1>1, <1>3, <2>2, <2>3, <2>6, <2>8, ShowsNext
  <2> QED
    BY <1>2, <1>5, <2>1, <2>7, <2>9
<1>6. CASE e \in DOMAIN found
  <2>1. unread[e] = found[e] /\ found[e] \in Tokens
    BY <1>1, <1>6, Joined
  <2>2. ~s.past /\ unread[e].kind # "prompt"
    BY <1>1, <1>4, <1>6, <2>1, MatchesOwn DEF Leftover
  <2>3. PICK rest \in Seq(Tokens) :
                 /\ Leftover(rest, s.past)
                 /\ SubSeq(found \o s.unread, e + 1, Len(found \o s.unread)) = rest \o s.unread
    <3>1. PICK b \in Seq(Tokens) : b = s.unread
      BY <1>1
    <3>2. found \in Seq(Tokens) /\ Leftover(found, s.past) /\ e \in DOMAIN found
      BY <1>1, <1>6
    <3>3. \E rest \in Seq(Tokens) :
             Leftover(rest, s.past) /\ SubSeq(found \o b, e + 1, Len(found \o b)) = rest \o b
      BY <3>2, BehindLeftover, Zenon
    <3> QED
      BY <3>1, <3>3
  <2>4. unread' = rest \o s.unread
    BY <1>1, <1>3, <2>3
  <2>6. Shows(s, rest)'
    BY <1>1, <1>3, <2>3, <2>4, ShowsNext
  <2> QED
    BY <1>2, <1>4, <2>2, <2>6
<1> QED
  BY <1>2, <1>5, <1>6, FirstInBuffer

(* An expect gives up: nothing of the terminal changes.                    *)
LEMMA GivenUpShows ==
    ASSUME NEW s, NEW found, Shows(s, found), UNCHANGED <<unread, shell, ahead, job>>, late' = TRUE
    PROVE  Shows([s EXCEPT !.late = TRUE], found)'
<1>1. /\ s \in States /\ found \in Seq(Tokens) /\ Leftover(found, s.past) /\ unread = found \o s.unread
      /\ shell = s.shell /\ ahead = s.ahead /\ job = s.job
  BY ShownTypes
<1>2. PICK t : t = [s EXCEPT !.late = TRUE]
  OBVIOUS
<1>3. /\ t \in States /\ t.unread = s.unread /\ t.shell = s.shell /\ t.ahead = s.ahead /\ t.job = s.job
      /\ t.late = TRUE /\ t.past = s.past
  BY <1>1, <1>2 DEF States
<1> QED
  BY <1>1, <1>2, <1>3, ShowsNext

(* Nothing changes at all.                                                 *)
LEMMA UnchangedShows ==
    ASSUME NEW s, NEW found, Shows(s, found), UNCHANGED <<unread, shell, ahead, job, late>>
    PROVE  Shows(s, found)'
  BY DEF Shows

-----------------------------------------------------------------------------
(* Types                                                                   *)

(* The steps of a script, and its handlers, are within it.                 *)
LEMMA Within ==
    ASSUME script \in Codes
    PROVE  /\ Len(script) \in Nat /\ Land(script, 1) \in 1 .. Len(script) + 1
           /\ \A i \in 1 .. Len(script) :
                /\ Land(script, i + 1) \in 1 .. Len(script) + 1
                /\ script[i].do = "either" => \A n \in script[i].by : Land(script, i + n) \in 1 .. Len(script) + 1
                /\ script[i].do = "spot" => Land(script, i + script[i].unseen) \in 1 .. Len(script) + 1
                /\ Handlers(script, i) # {} => Handling(script, i) \in 1 .. Len(script) + 1
<1>1. StaysWithin(script)
  BY WithinAssumption
<1> QED
  BY <1>1 DEF StaysWithin, Targets

(* The operation under way is at a step of its script, one of those        *)
(* studied.                                                                *)
AtAStep ==
    /\ turn \in 1 .. 2 /\ at \in 1 .. Len(script) + 1 /\ result \in {"running", "done", "raised"}
    /\ level \in BOOLEAN /\ script \in Codes

(* A step to a place of the script.                                        *)
LEMMA Going ==
    ASSUME NEW step, Goes(step), AtAStep, Land(script, step) \in 1 .. Len(script) + 1
    PROVE  AtAStep'
  BY DEF Goes, AtAStep

(* Where the steps of a script go.                                         *)
LEMMA StepTypes ==
    ASSUME AtAStep, ConsoleNext
    PROVE  AtAStep'
<1>1. /\ script \in Codes /\ turn \in 1 .. 2 /\ at \in 1 .. Len(script) + 1
      /\ result \in {"running", "done", "raised"} /\ level \in BOOLEAN
  BY DEF AtAStep
<1>2. ASSUME NEW word, Doing(word)
      PROVE  at \in 1 .. Len(script) /\ Land(script, at + 1) \in 1 .. Len(script) + 1
  BY <1>1, <1>2, Within DEF Doing
<1>3. CASE /\ UNCHANGED <<turn, at, script, level>> /\ result' \in {"running", "done", "raised"}
  BY <1>1, <1>3 DEF AtAStep
<1>4. CASE \E word : Doing(word) /\ Goes(at + 1)
  BY <1>2, <1>4, Going
<1>5. CASE Spotted
  <2>1. at \in 1 .. Len(script) /\ Land(script, at + 1) \in 1 .. Len(script) + 1 /\ script[at].do = "spot"
    BY <1>2, <1>5 DEF Spotted, Doing
  <2>2. Land(script, at + script[at].unseen) \in 1 .. Len(script) + 1
    BY <1>1, <2>1, Within
  <2>3. \/ Goes(at + 1) \/ Goes(at + script[at].unseen)
    BY <1>5 DEF Spotted
  <2> QED
    BY <2>1, <2>2, <2>3, Going
<1>6. ASSUME NEW w \in Words, GivesUp(w)
      PROVE  AtAStep'
  <2>1. at \in 1 .. Len(script) /\ Thrown
    BY <1>2, <1>6 DEF GivesUp
  <2>2. Tries = Handlers(script, at)
    BY DEF Tries, Handlers
  <2>3. CASE Tries = {}
    BY <1>1, <2>1, <2>3 DEF Thrown, AtAStep
  <2>4. CASE Tries # {}
    <3>1. Handling(script, at) \in 1 .. Len(script) + 1
      BY <1>1, <2>1, <2>2, <2>4, Within
    <3>2. /\ at' = Handling(script, at) /\ UNCHANGED <<script, result, turn, level>>
      BY <2>1, <2>2, <2>4 DEF Thrown, Goes, Handling
    <3> QED
      BY <1>1, <3>1, <3>2 DEF AtAStep
  <2> QED
    BY <2>3, <2>4
<1>7. CASE Chooses
  <2>1. at \in 1 .. Len(script) /\ script[at].do = "either"
    BY <1>2, <1>7 DEF Chooses, Doing
  <2>2. PICK n \in script[at].by : Goes(at + n)
    BY <1>7 DEF Chooses
  <2> QED
    BY <1>1, <2>1, <2>2, Within, Going
<1>8. ASSUME NEW name \in Probes, Follows(name)
      PROVE  AtAStep'
  <2>1. script' \in Codes /\ at' = Land(script', 1) /\ turn' = 2 /\ result' = "running" /\ level' \in BOOLEAN
    BY <1>8 DEF Follows, Codes, InStep
  <2>2. Land(script', 1) \in 1 .. Len(script') + 1
    BY <2>1, WithinAssumption DEF StaysWithin
  <2> QED
    BY <2>1, <2>2 DEF AtAStep
<1>9. CASE TypeLine \/ TypeAsk \/ TypeJob \/ TypeBlank \/ TypeReply \/ SpawnProcess \/ AttachTerminal \/ SendInterrupt
  BY <1>4, <1>9 DEF TypeLine, TypeAsk, TypeJob, TypeBlank, TypeReply, SpawnProcess, AttachTerminal, SendInterrupt
<1>10. ASSUME NEW w \in Words, Expected(w)
       PROVE  \E word : Doing(word) /\ Goes(at + 1)
  BY <1>10 DEF Expected
<1>11. CASE Raises \/ Returns \/ Prints \/ JobPrints \/ Finishes
  BY <1>3, <1>1, <1>11 DEF Raises, Returns, Prints, JobPrints, Finishes
<1> QED
  BY <1>4, <1>5, <1>6, <1>7, <1>8, <1>9, <1>10, <1>11 DEF ConsoleNext

(* The types of the terminal and of what an operation remembers.           *)
TtyTypes ==
    /\ late \in BOOLEAN /\ asked \in BOOLEAN
    /\ unread \in Seq(Tokens) /\ ahead \in Seq(Owners)
    /\ shell \in Shells /\ answer \in Jobs /\ job \in Jobs
    /\ shell = "idle" => ahead = <<>>

(* The types, with where the operation stands.                             *)
ConsoleTypes == AtAStep /\ TtyTypes

(* These are the types Console declares, and a little more.                *)
LEMMA TypesAreTyped == ConsoleTypes => ConsoleTypeOK
  BY DEF ConsoleTypes, AtAStep, TtyTypes, ConsoleTypeOK, Owners, Shells, Jobs

(* Typing a line keeps the types.                                          *)
LEMMA TypedTypes ==
    ASSUME TtyTypes, NEW takes \in Shells \ {"idle"}, Typed(takes), job' \in Jobs, UNCHANGED <<late, answer>>
    PROVE  TtyTypes'
<1>1. Aged(unread) \in Seq(Tokens) /\ Token("echo", "own") \in Tokens
  BY AgedTokens, TokenTypes DEF TtyTypes, Owners
<1>2. unread' \in Seq(Tokens)
  BY <1>1, TokenAppended DEF Typed
<1>3. Append([i \in DOMAIN ahead |-> "old"], "own") \in Seq(Owners)
  BY AgedAhead DEF TtyTypes
<1>4. asked' \in BOOLEAN
  BY DEF Typed
<1>5. ahead' \in Seq(Owners) /\ shell' \in Shells /\ shell' # "idle"
  BY <1>3 DEF Typed, TtyTypes, Shells
<1> QED
  BY <1>2, <1>4, <1>5 DEF TtyTypes

(* So does whatever else a script types,                                   *)
LEMMA SentTypes ==
    ASSUME TtyTypes,
           TypeLine \/ TypeAsk \/ TypeJob \/ TypeBlank \/ TypeReply \/ SpawnProcess \/ AttachTerminal \/ SendInterrupt
    PROVE  TtyTypes'
<1>1. CASE TypeLine \/ TypeAsk \/ TypeJob
  <2>1. "own" \in Shells \ {"idle"} /\ "asks" \in Shells \ {"idle"} /\ "own" \in Jobs
    BY DEF Shells, Jobs
  <2>2. job' \in Jobs /\ UNCHANGED <<late, answer>>
    BY <1>1, <2>1 DEF TypeLine, TypeAsk, TypeJob, TtyTypes
  <2>3. Typed("own") \/ Typed("asks")
    BY <1>1 DEF TypeLine, TypeAsk, TypeJob
  <2> QED
    BY <2>1, <2>2, <2>3, TypedTypes
<1>2. CASE TypeBlank
  <2>1. Token("prompt", "own") \in Tokens /\ "own" \in Owners
    BY TokenTypes DEF Owners
  <2>2. unread' \in Seq(Tokens)
    BY <1>2, <2>1, TokenAppended DEF TypeBlank, TtyTypes
  <2>3. ahead' \in Seq(Owners) /\ (shell = "idle" => ahead' = ahead)
    BY <1>2, <2>1 DEF TypeBlank, TtyTypes
  <2> QED
    BY <1>2, <2>2, <2>3 DEF TypeBlank, TtyTypes
<1>3. CASE TypeReply
  <2>1. CASE shell = "idle"
    <3>1. "own" \in Shells \ {"idle"} /\ job' \in Jobs /\ UNCHANGED <<late, answer>> /\ Typed("own")
      BY <1>3, <2>1 DEF TypeReply, TtyTypes, Shells
    <3> QED
      BY <3>1, TypedTypes
  <2>2. CASE shell # "idle"
    <3>1. shell' \in Shells /\ shell' # "idle"
      BY <1>3, <2>2 DEF TypeReply, TtyTypes, Shells
    <3>2. UNCHANGED <<unread, ahead, asked, late, job, answer>>
      BY <1>3, <2>2 DEF TypeReply
    <3> QED
      BY <3>1, <3>2 DEF TtyTypes
  <2> QED
    BY <2>1, <2>2
<1>4. CASE SpawnProcess
  <2>1. shell' \in Shells /\ shell' # "idle"
    BY <1>4 DEF SpawnProcess, Shells
  <2> QED
    BY <1>4, <2>1 DEF SpawnProcess, TtyTypes
<1>5. CASE AttachTerminal
  <2>1. job' \in Jobs
    BY <1>5 DEF AttachTerminal, Jobs
  <2> QED
    BY <1>5, <2>1 DEF AttachTerminal, TtyTypes
<1>6. CASE SendInterrupt
  <2>1. (IF shell = "idle" THEN "own" ELSE Whose) \in Owners
    BY DEF TtyTypes, Shells, Whose, Owners
  <2>2. Token("prompt", IF shell = "idle" THEN "own" ELSE Whose) \in Tokens
    BY <2>1, TokenTypes
  <2>3. unread' \in Seq(Tokens)
    BY <1>6, <2>2, TokenAppended DEF SendInterrupt, TtyTypes
  <2>4. shell' \in Shells /\ ahead' = <<>> /\ ahead' \in Seq(Owners)
    BY <1>6 DEF SendInterrupt, Shells
  <2> QED
    BY <1>6, <2>3, <2>4 DEF SendInterrupt, TtyTypes
<1> QED
  BY <1>1, <1>2, <1>3, <1>4, <1>5, <1>6

(* what it consumes,                                                       *)
LEMMA ConsumedTypes ==
    ASSUME TtyTypes, NEW word, Found(word) # {}, Consumed(Earliest(word)), Answered(Earliest(word)),
           UNCHANGED <<late, shell, ahead, job, asked>>
    PROVE  TtyTypes'
<1>1. PICK e : e = Earliest(word)
  OBVIOUS
<1>2. e \in DOMAIN unread /\ unread[e] \in Tokens /\ unread \in Seq(Tokens)
  BY <1>1, EarliestFound DEF TtyTypes
<1>3. unread' \in Seq(Tokens)
  <2>1. e \in 0 .. Len(unread)
    BY <1>2
  <2>2. SubSeq(unread, e + 1, Len(unread)) \in Seq(Tokens)
    BY <1>2, <2>1, BehindAPlace
  <2> QED
    BY <1>1, <2>2 DEF Consumed
<1>4. answer' \in Jobs
  BY <1>1, <1>2, TokenTypes DEF Answered, TtyTypes, Owners, Jobs
<1> QED
  BY <1>3, <1>4 DEF TtyTypes

(* what the shell and its job do,                                          *)
LEMMA ShellTypes ==
    ASSUME TtyTypes, Prints \/ JobPrints \/ Finishes
    PROVE  TtyTypes'
<1>1. shell \in Shells /\ ahead \in Seq(Owners) /\ job \in Jobs /\ unread \in Seq(Tokens)
  BY DEF TtyTypes
<1>2. shell # "idle" => Whose \in Owners
  BY <1>1 DEF Whose, Shells, Owners
<1>3. CASE Prints
  <2>1. Token("out", Whose) \in Tokens
    BY <1>2, <1>3, TokenTypes DEF Prints
  <2>2. unread' \in Seq(Tokens)
    BY <1>1, <1>3, <2>1, TokenAppended DEF Prints
  <2>3. shell' \in Shells /\ shell' # "idle"
    BY <1>1, <1>3 DEF Prints, Shells
  <2> QED
    BY <1>3, <2>2, <2>3 DEF Prints, TtyTypes
<1>4. CASE JobPrints
  <2>1. Token("out", job) \in Tokens /\ job' \in Jobs
    BY <1>1, <1>4, TokenTypes DEF JobPrints, Jobs, Owners
  <2>2. unread' \in Seq(Tokens)
    BY <1>1, <1>4, <2>1, TokenAppended DEF JobPrints
  <2> QED
    BY <1>4, <2>1, <2>2 DEF JobPrints, TtyTypes
<1>5. CASE Finishes
  <2>1. Token("prompt", Whose) \in Tokens
    BY <1>2, <1>5, TokenTypes DEF Finishes
  <2>2. CASE ahead = <<>>
    <3>1. unread' \in Seq(Tokens) /\ shell' = "idle" /\ ahead' = ahead
      BY <1>1, <1>5, <2>1, <2>2, TokenAppended DEF Finishes
    <3>2. shell' \in Shells
      BY <3>1 DEF Shells
    <3> QED
      BY <1>5, <2>2, <3>1, <3>2 DEF Finishes, TtyTypes
  <2>3. CASE ahead # <<>>
    <3>1. Head(ahead) \in Owners /\ Tail(ahead) \in Seq(Owners)
      BY <1>1, <2>3, HeadTailProperties
    <3>2. Token("echo", Head(ahead)) \in Tokens /\ Head(ahead) \in Shells \ {"idle"}
      BY <3>1, TokenTypes DEF Owners, Shells
    <3>3. <<Token("prompt", Whose), Token("echo", Head(ahead))>> \in Seq(Tokens)
      BY <2>1, <3>2
    <3>4. unread' = unread \o <<Token("prompt", Whose), Token("echo", Head(ahead))>>
      BY <1>5, <2>3 DEF Finishes
    <3>5. unread' \in Seq(Tokens)
      BY <1>1, <3>3, <3>4, ConcatProperties
    <3>6. shell' \in Shells /\ shell' # "idle" /\ ahead' \in Seq(Owners)
      BY <1>5, <2>3, <3>1, <3>2 DEF Finishes
    <3> QED
      BY <1>5, <3>5, <3>6 DEF Finishes, TtyTypes
  <2> QED
    BY <2>2, <2>3
<1> QED
  BY <1>3, <1>4, <1>5

(* and with them every step.                                               *)
LEMMA TypesStep ==
    ASSUME ConsoleTypes, [ConsoleNext]_consoleVars
    PROVE  ConsoleTypes'
<1>1. AtAStep /\ TtyTypes
  BY DEF ConsoleTypes
<1>2. CASE UNCHANGED consoleVars
  <2>1. AtAStep'
    BY <1>1, <1>2 DEF consoleVars, AtAStep
  <2>2. TtyTypes'
    BY <1>1, <1>2 DEF consoleVars, TtyTypes
  <2> QED
    BY <2>1, <2>2 DEF ConsoleTypes
<1>3. CASE ConsoleNext
  <2>1. AtAStep'
    BY <1>1, <1>3, StepTypes
  <2>2. ASSUME NEW w \in Words, Expected(w) \/ GivesUp(w)
        PROVE  TtyTypes'
    <3>1. CASE Expected(w)
      BY <1>1, <3>1, ConsumedTypes DEF Expected
    <3>2. CASE GivesUp(w)
      BY <1>1, <3>2 DEF GivesUp, tty, TtyTypes
    <3> QED
      BY <2>2, <3>1, <3>2
  <2>3. ASSUME Spotted
        PROVE  TtyTypes'
    <3>1. /\ Found("spot") # {} /\ Consumed(Earliest("spot")) /\ Answered(Earliest("spot"))
          /\ UNCHANGED <<late, shell, ahead, job, asked>>
      BY <2>3 DEF Spotted
    <3> QED
      BY <1>1, <3>1, ConsumedTypes
  <2>4. ASSUME Raises \/ Chooses \/ Returns
        PROVE  TtyTypes'
    <3>1. UNCHANGED <<late, asked, answer, unread, shell, ahead, job>>
      BY <2>4 DEF Raises, Chooses, Returns, tty
    <3> QED
      BY <1>1, <3>1 DEF TtyTypes
  <2>5. ASSUME NEW name \in Probes, Follows(name)
        PROVE  TtyTypes'
    <3>1. job' \in Jobs /\ answer' \in Jobs /\ asked' \in BOOLEAN
      BY <1>1, <2>5 DEF Follows, TtyTypes, Jobs
    <3> QED
      BY <1>1, <2>5, <3>1 DEF Follows, TtyTypes
  <2>6. TtyTypes'
    <3>1. CASE TypeLine \/ TypeAsk \/ TypeJob \/ TypeBlank \/ TypeReply \/ SpawnProcess \/ AttachTerminal
               \/ SendInterrupt
      BY <1>1, <3>1, SentTypes
    <3>2. CASE Prints \/ JobPrints \/ Finishes
      BY <1>1, <3>2, ShellTypes
    <3> QED
      BY <1>3, <2>2, <2>3, <2>4, <2>5, <3>1, <3>2 DEF ConsoleNext
  <2> QED
    BY <2>1, <2>6 DEF ConsoleTypes
<1> QED
  BY <1>2, <1>3

(* They hold where the first operation begins.                             *)
LEMMA TypesInit == ConsoleInit => ConsoleTypes
<1> SUFFICES ASSUME ConsoleInit
             PROVE  ConsoleTypes
  OBVIOUS
<1>1. script \in Codes
  BY DEF ConsoleInit, Codes
<1>2. at \in 1 .. Len(script) + 1
  BY <1>1, Within DEF ConsoleInit
<1>3. TtyTypes
  <2>1. <<>> \in Seq(Tokens) /\ <<>> \in Seq(Owners)
    BY EmptySeq
  <2> QED
    BY <2>1 DEF ConsoleInit, TtyTypes, Shells, Jobs
<1> QED
  BY <1>1, <1>2, <1>3 DEF ConsoleInit, AtAStep, ConsoleTypes

-----------------------------------------------------------------------------
(* The operations that wait for the echo of their command                  *)

(* The echo of the operation's own line is in the buffer, behind nothing   *)
(* but what is older, and every prompt behind it is the line's own.        *)
OwnEchoed ==
    /\ shell \in {"idle", "own"} /\ ahead = <<>>
    /\ \E k \in DOMAIN unread :
           /\ unread[k] = Token("echo", "own")
           /\ \A i \in DOMAIN unread : i < k => unread[i].of = "old"
           /\ \A i \in DOMAIN unread : i > k /\ unread[i].kind = "prompt" => unread[i].of = "own"

(* The echo was consumed: every prompt that is left is the line's own.     *)
OwnPrompts ==
    /\ shell \in {"idle", "own"} /\ ahead = <<>>
    /\ \A i \in DOMAIN unread : unread[i].kind = "prompt" => unread[i].of = "own"

(* Where an operation that waits for its echo stands, if the shell was     *)
(* idle when it typed its line.                                            *)
EchoKept ==
    result # "raised" /\ asked /\ script \in Echoed =>
        at # 1 /\ (at = 2 => OwnEchoed) /\ (at = 3 => OwnPrompts) /\ (at = 4 => answer = "own")

(* The script of an operation that waits for its echo has three steps.     *)
LEMMA EchoScript ==
    ASSUME AtAStep, script \in Echoed
    PROVE  /\ Len(script) = 3 /\ script[1].do = "line" /\ script[2].do = "echo" /\ script[3].do = "prompt"
           /\ Land(script, 1) = 1 /\ Land(script, 2) = 2 /\ Land(script, 3) = 3 /\ Land(script, 4) = 4
           /\ at \in 1 .. 4
           /\ at \in 1 .. 3 => script[at].do \in {"line", "echo", "prompt"} /\ Tries = {}
<1>1. WaitsForEcho(script)
  BY EchoedAssumption
<1>2. /\ Len(script) = 3 /\ script[1].do = "line" /\ script[2].do = "echo" /\ script[3].do = "prompt"
      /\ Land(script, 1) = 1 /\ Land(script, 2) = 2 /\ Land(script, 3) = 3 /\ Land(script, 4) = 4
  BY <1>1 DEF WaitsForEcho
<1>3. at \in 1 .. 4
  BY <1>2 DEF AtAStep
<1>4. ASSUME at \in 1 .. 3
      PROVE  script[at].do \in {"line", "echo", "prompt"} /\ Tries = {}
  <2>1. \A i \in 1 .. at : i = 1 \/ i = 2 \/ i = 3
    BY <1>4
  <2>2. \A i \in 1 .. at : script[i].do \in {"line", "echo", "prompt"}
    BY <1>2, <2>1
  <2> QED
    BY <1>4, <2>2 DEF Tries
<1> QED
  BY <1>2, <1>3, <1>4

(* More behind: nothing of what was expected is lost.                      *)
LEMMA MoreIsOwn ==
    ASSUME NEW e \in Tokens, unread \in Seq(Tokens), unread' = Append(unread, e),
           e.kind = "prompt" => e.of = "own", shell' \in {"idle", "own"}, ahead' = <<>>
    PROVE  (OwnEchoed => OwnEchoed') /\ (OwnPrompts => OwnPrompts')
<1>1. /\ DOMAIN unread' = DOMAIN unread \cup {Len(unread) + 1} /\ DOMAIN unread = 1 .. Len(unread)
      /\ Len(unread) \in Nat /\ unread'[Len(unread) + 1] = e /\ \A i \in DOMAIN unread : unread'[i] = unread[i]
  OBVIOUS
<1>2. ASSUME OwnEchoed
      PROVE  OwnEchoed'
  <2>1. PICK k \in DOMAIN unread :
               /\ unread[k] = Token("echo", "own")
               /\ \A i \in DOMAIN unread : i < k => unread[i].of = "old"
               /\ \A i \in DOMAIN unread : i > k /\ unread[i].kind = "prompt" => unread[i].of = "own"
    BY <1>2 DEF OwnEchoed
  <2>2. /\ k \in DOMAIN unread' /\ unread'[k] = Token("echo", "own")
        /\ \A i \in DOMAIN unread' : i < k => unread'[i].of = "old"
        /\ \A i \in DOMAIN unread' : i > k /\ unread'[i].kind = "prompt" => unread'[i].of = "own"
    BY <1>1, <2>1
  <2> QED
    BY <2>2 DEF OwnEchoed
<1>3. ASSUME OwnPrompts
      PROVE  OwnPrompts'
  BY <1>1, <1>3 DEF OwnPrompts
<1> QED
  BY <1>2, <1>3

(* What the shell does loses neither the echo nor the prompt.              *)
LEMMA ShellEchoes ==
    ASSUME AtAStep, TtyTypes, EchoKept, Prints \/ JobPrints \/ Finishes
    PROVE  EchoKept'
<1> SUFFICES ASSUME result' # "raised", asked', script' \in Echoed
             PROVE  /\ at' # 1 /\ (at' = 2 => OwnEchoed') /\ (at' = 3 => OwnPrompts') /\ (at' = 4 => answer' = "own")
  BY DEF EchoKept
<1>1. UNCHANGED <<result, asked, script, at, answer>>
  BY DEF Prints, JobPrints, Finishes
<1>2. at # 1 /\ (at = 2 => OwnEchoed) /\ (at = 3 => OwnPrompts) /\ (at = 4 => answer = "own")
  BY <1>1 DEF EchoKept
<1>3. unread \in Seq(Tokens) /\ job \in Jobs
  BY DEF TtyTypes
<1>4. ASSUME at \in {2, 3}
      PROVE  (OwnEchoed => OwnEchoed') /\ (OwnPrompts => OwnPrompts')
  <2>1. shell \in {"idle", "own"} /\ ahead = <<>>
    BY <1>2, <1>4 DEF OwnEchoed, OwnPrompts
  <2>2. CASE Prints
    <3>1. /\ unread' = Append(unread, Token("out", "own")) /\ shell' = "own" /\ ahead' = <<>>
      BY <2>1, <2>2 DEF Prints, Whose
    <3>2. Token("out", "own") \in Tokens /\ Token("out", "own").kind = "out"
      BY TokenTypes DEF Token, Owners
    <3> QED
      BY <1>3, <3>1, <3>2, MoreIsOwn
  <2>3. CASE JobPrints
    <3>1. PICK e : e = Token("out", job)
      OBVIOUS
    <3>2. /\ unread' = Append(unread, e) /\ shell' = shell /\ ahead' = <<>> /\ job \in Owners
      BY <1>3, <2>1, <2>3, <3>1 DEF JobPrints, Jobs, Owners
    <3>3. e \in Tokens /\ e.kind = "out"
      BY <3>1, <3>2, TokenTypes DEF Token
    <3> QED
      BY <1>3, <2>1, <3>2, <3>3, MoreIsOwn
  <2>4. CASE Finishes
    <3>1. /\ unread' = Append(unread, Token("prompt", "own")) /\ shell' = "idle" /\ ahead' = <<>>
      BY <2>1, <2>4 DEF Finishes, Whose
    <3>2. Token("prompt", "own") \in Tokens /\ Token("prompt", "own").of = "own"
      BY TokenTypes DEF Token, Owners
    <3> QED
      BY <1>3, <3>1, <3>2, MoreIsOwn
  <2> QED
    BY <2>2, <2>3, <2>4
<1> QED
  BY <1>1, <1>2, <1>4

(* No step does.                                                           *)
LEMMA EchoStep ==
    ASSUME AtAStep, TtyTypes, EchoKept, ConsoleNext
    PROVE  EchoKept'
<1>1. CASE Prints \/ JobPrints \/ Finishes
  BY <1>1, ShellEchoes
<1>2. ASSUME NEW name \in Probes, Follows(name)
      PROVE  EchoKept'
  BY <1>2 DEF Follows, EchoKept
<1>3. CASE Returns
  <2>1. UNCHANGED <<script, at, asked, answer, unread, shell, ahead>> /\ result = "running"
    BY <1>3 DEF Returns, tty
  <2> QED
    BY <2>1 DEF EchoKept, OwnEchoed, OwnPrompts
<1>4. CASE script \notin Echoed /\ script' = script
  BY <1>4 DEF EchoKept
<1>5. CASE script \in Echoed /\ \E word : Doing(word)
  <2>1. /\ at \in 1 .. 3 /\ script[at].do \in {"line", "echo", "prompt"} /\ Tries = {} /\ result = "running"
        /\ at = 1 => script[at].do = "line"
        /\ at = 2 => script[at].do = "echo"
        /\ at = 3 => script[at].do = "prompt"
        /\ Land(script, at + 1) = at + 1
    <3>1. /\ Len(script) = 3 /\ script[1].do = "line" /\ script[2].do = "echo" /\ script[3].do = "prompt"
          /\ Land(script, 1) = 1 /\ Land(script, 2) = 2 /\ Land(script, 3) = 3 /\ Land(script, 4) = 4
          /\ at \in 1 .. 4 /\ (at \in 1 .. 3 => script[at].do \in {"line", "echo", "prompt"} /\ Tries = {})
      BY <1>5, EchoScript
    <3>2. at <= Len(script) /\ result = "running"
      BY <1>5 DEF Doing
    <3>3. at \in 1 .. 3
      BY <3>1, <3>2
    <3>4. at = 1 \/ at = 2 \/ at = 3
      BY <3>3
    <3> QED
      BY <3>1, <3>2, <3>3, <3>4
  <2>2. ASSUME NEW w, GivesUp(w)
        PROVE  EchoKept'
    BY <2>1, <2>2 DEF GivesUp, Thrown, EchoKept
  <2>3. CASE TypeLine
    <3>1. at = 1 /\ at' = 2 /\ asked' = (shell = "idle") /\ Typed("own")
      BY <2>1, <2>3 DEF TypeLine, Doing, Goes, Typed
    <3>2. ASSUME shell = "idle"
          PROVE  OwnEchoed'
      <4>1. /\ shell' = "own" /\ ahead' = <<>> /\ unread' = Append(Aged(unread), Token("echo", "own"))
        BY <3>1, <3>2 DEF Typed, TtyTypes
      <4>2. PICK a \in Seq(Tokens) : a = Aged(unread)
        BY AgedTokens DEF TtyTypes
      <4>3. \A i \in DOMAIN a : a[i].of = "old"
        BY <4>2, AgedTokens DEF TtyTypes
      <4>4. PICK e \in Tokens : e = Token("echo", "own")
        BY TokenTypes DEF Owners
      <4>5. /\ DOMAIN Append(a, e) = DOMAIN a \cup {Len(a) + 1} /\ DOMAIN a = 1 .. Len(a)
            /\ Len(a) \in Nat /\ Append(a, e)[Len(a) + 1] = e /\ \A i \in DOMAIN a : Append(a, e)[i] = a[i]
        OBVIOUS
      <4>6. PICK k : k = Len(a) + 1
        OBVIOUS
      <4>7. /\ k \in DOMAIN unread' /\ unread'[k] = e
            /\ \A i \in DOMAIN unread' : i < k => unread'[i].of = "old"
            /\ \A i \in DOMAIN unread' : ~(i > k)
        BY <4>1, <4>2, <4>3, <4>4, <4>5, <4>6
      <4> QED
        BY <4>1, <4>4, <4>7 DEF OwnEchoed
    <3>3. asked' => shell = "idle"
      BY <3>1
    <3>4. asked' => OwnEchoed'
      BY <3>2, <3>3
    <3> QED
      BY <3>1, <3>4 DEF EchoKept
  <2>4. ASSUME NEW w \in Words, Expected(w)
        PROVE  EchoKept'
    <3>1. /\ script[at].do = w /\ at \in {2, 3} /\ at' = at + 1 /\ UNCHANGED <<script, shell, ahead, asked, result>>
          /\ Found(w) # {} /\ Consumed(Earliest(w)) /\ Answered(Earliest(w))
      BY <2>1, <2>4 DEF Expected, Doing, Goes
    <3>2. PICK e : e = Earliest(w)
      OBVIOUS
    <3>3. /\ e \in DOMAIN unread /\ Matches(unread[e], w) /\ \A j \in Found(w) : e <= j
          /\ unread \in Seq(Tokens)
      BY <3>1, <3>2, EarliestFound DEF TtyTypes
    <3>4. ASSUME at = 2, OwnEchoed
          PROVE  OwnPrompts'
      <4>1. PICK k \in DOMAIN unread :
                   /\ unread[k] = Token("echo", "own")
                   /\ \A i \in DOMAIN unread : i < k => unread[i].of = "old"
                   /\ \A i \in DOMAIN unread : i > k /\ unread[i].kind = "prompt" => unread[i].of = "own"
        BY <3>4 DEF OwnEchoed
      <4>2. w = "echo"
        BY <2>1, <3>1, <3>4
      <4>3. k \in Found(w) /\ unread[e] = Token("echo", "own") /\ Token("echo", "own").of = "own"
        BY <3>3, <4>1, <4>2 DEF Found, Matches, Token
      <4>4. e <= k /\ ~(e < k) /\ e \in Nat /\ k \in Nat
        BY <3>3, <4>1, <4>3
      <4>5. e = k
        BY <4>4
      <4>6. /\ unread' = SubSeq(unread, k + 1, Len(unread)) /\ k \in 0 .. Len(unread) /\ Len(unread) \in Nat
            /\ DOMAIN unread = 1 .. Len(unread)
        BY <3>1, <3>2, <3>3, <4>5 DEF Consumed
      <4>7. /\ unread' \in Seq(Tokens) /\ Len(unread') = Len(unread) - k
            /\ \A i \in 1 .. Len(unread) - k : unread'[i] = unread[k + i]
        BY <3>3, <4>6, BehindAPlace
      <4>8. ASSUME NEW i \in DOMAIN unread', unread'[i].kind = "prompt"
            PROVE  unread'[i].of = "own"
        <5>1. i \in 1 .. Len(unread) - k
          BY <4>7
        <5>2. k + i \in DOMAIN unread /\ k + i > k /\ unread'[i] = unread[k + i]
          BY <4>6, <4>7, <5>1
        <5> QED
          BY <4>1, <4>8, <5>2
      <4> QED
        BY <3>1, <3>4, <4>8 DEF OwnEchoed, OwnPrompts
    <3>5. ASSUME at = 3, OwnPrompts
          PROVE  answer' = "own"
      <4>1. w = "prompt" /\ unread[e].kind = "prompt"
        BY <2>1, <3>1, <3>3, <3>5 DEF Matches
      <4> QED
        BY <3>1, <3>2, <3>3, <3>5, <4>1 DEF OwnPrompts, Answered
    <3>6. CASE at = 2
      <4>1. at' = 3 /\ (asked => OwnPrompts')
        BY <1>5, <2>1, <3>1, <3>4, <3>6 DEF EchoKept
      <4> QED
        BY <3>1, <4>1 DEF EchoKept
    <3>7. CASE at = 3
      <4>1. at' = 4 /\ (asked => answer' = "own")
        BY <1>5, <2>1, <3>1, <3>5, <3>7 DEF EchoKept
      <4> QED
        BY <3>1, <4>1 DEF EchoKept
    <3> QED
      BY <3>1, <3>6, <3>7
  <2>5. ~(TypeAsk \/ TypeJob \/ TypeBlank \/ TypeReply \/ SpawnProcess \/ AttachTerminal \/ SendInterrupt
              \/ Spotted \/ Raises \/ Chooses)
    BY <2>1 DEF TypeAsk, TypeJob, TypeBlank, TypeReply, SpawnProcess, AttachTerminal, SendInterrupt, Spotted,
       Raises, Chooses, Doing
  <2> QED
    BY <1>1, <1>2, <1>3, <2>2, <2>3, <2>4, <2>5 DEF ConsoleNext
<1>6. CASE \E word : Doing(word) /\ script' = script
  BY <1>4, <1>5, <1>6
<1>7. CASE \/ TypeLine \/ TypeAsk \/ TypeJob \/ TypeBlank \/ TypeReply
           \/ SpawnProcess \/ AttachTerminal \/ SendInterrupt
           \/ Spotted \/ Raises \/ Chooses
  <2>1. \E word : Doing(word) /\ script' = script
    BY <1>7 DEF TypeLine, TypeAsk, TypeJob, TypeBlank, TypeReply, SpawnProcess, AttachTerminal, SendInterrupt, Spotted,
       Raises, Chooses, Goes
  <2> QED
    BY <1>6, <2>1
<1>8. ASSUME NEW w \in Words, Expected(w) \/ GivesUp(w)
      PROVE  EchoKept'
  <2>1. Doing(w) /\ script' = script
    BY <1>8 DEF Expected, GivesUp, Thrown, Goes
  <2> QED
    BY <1>6, <2>1
<1> QED
  BY <1>1, <1>2, <1>3, <1>7, <1>8 DEF ConsoleNext

-----------------------------------------------------------------------------
(* The annotation holds                                                    *)

(* The annotation of the script holds, as long as nothing was raised and   *)
(* the console was in step when the operation began.                       *)
Held(code, step) == \E s \in Annotation(code)[step] : \E found : Shows(s, found)
AsAnnotated == level /\ result # "raised" /\ script \notin Unpaced => Held(script, at)

(* The step of a script leads from its annotation to its annotation.       *)
LEMMA MovesOn ==
    ASSUME AtAStep, script \notin Unpaced, NEW s \in Annotation(script)[at]
    PROVE  /\ Meanwhile(s) \subseteq Annotation(script)[at]
           /\ at <= Len(script) => \A m \in Moves(script, at, s) : m[2] \in Annotation(script)[m[1]]
<1>1. IsAnnotation(script, Annotation(script)) /\ Len(script) \in Nat
  BY AnnotatedAssumption, Within DEF AtAStep
<1>2. /\ \A i \in 1 .. Len(script) + 1 : \A t \in Annotation(script)[i] : Meanwhile(t) \subseteq Annotation(script)[i]
      /\ \A i \in 1 .. Len(script) : \A t \in Annotation(script)[i] :
            \A m \in Moves(script, i, t) : m[2] \in Annotation(script)[m[1]]
  BY <1>1 DEF IsAnnotation
<1>3. at \in 1 .. Len(script) + 1 /\ (at <= Len(script) => at \in 1 .. Len(script))
  BY <1>1 DEF AtAStep
<1> QED
  BY <1>2, <1>3

(* A move to what the console shows next.                                  *)
LEMMA MovedTo ==
    ASSUME AtAStep, script \notin Unpaced, NEW s \in Annotation(script)[at], at <= Len(script),
           NEW to, NEW t, NEW f, <<to, t>> \in Moves(script, at, s), Shows(t, f)',
           script' = script, at' = to
    PROVE  AsAnnotated'
<1>1. t \in Annotation(script)[to]
  <2>1. <<to, t>>[1] = to /\ <<to, t>>[2] = t
    OBVIOUS
  <2> QED
    BY <2>1, MovesOn
<1> QED
  BY <1>1 DEF AsAnnotated, Held

(* What a script types leads to what its annotation says.                  *)
LEMMA SentHolds ==
    ASSUME AtAStep, script \notin Unpaced, NEW s \in Annotation(script)[at], NEW found, Shows(s, found),
           \/ TypeLine \/ TypeAsk \/ TypeJob \/ TypeBlank \/ TypeReply
           \/ SpawnProcess \/ AttachTerminal \/ SendInterrupt
    PROVE  AsAnnotated'
<1>1. ASSUME NEW word \in SentWords, NEW f, Doing(word), Goes(at + 1), Shows(Sent(word, s), f)'
      PROVE  AsAnnotated'
  <2>1. PICK t : t = Sent(word, s)
    OBVIOUS
  <2>2. /\ at <= Len(script) /\ script[at].do = word /\ script' = script /\ at' = Land(script, at + 1)
    BY <1>1 DEF Doing, Goes
  <2>3. <<Land(script, at + 1), t>> \in Moves(script, at, s)
    <3>1. Moves(script, at, s) = {<<Land(script, at + 1), Sent(word, s)>>}
      BY <1>1, <2>2 DEF Moves, SentWords
    <3> QED
      BY <2>1, <3>1
  <2>4. Shows(t, f)'
    BY <1>1, <2>1
  <2> QED
    BY <2>2, <2>3, <2>4, MovedTo
<1>2. /\ s \in States /\ job = s.job /\ s.job \in Jobs /\ late = s.late
  BY ShownTypes
<1>3. CASE TypeLine
  <2>1. "own" \in Shells /\ Typed("own") /\ job' = s.job /\ late' = late
    BY <1>2, <1>3 DEF TypeLine, Shells
  <2>2. Shows([TypedIn(s, "own") EXCEPT !.job = s.job], Aged(found))'
    BY <1>2, <2>1, TypedShows
  <2>3. [TypedIn(s, "own") EXCEPT !.job = s.job] = Sent("line", s)
    BY <1>2 DEF TypedIn, States, Sent
  <2> QED
    BY <1>1, <1>3, <2>2, <2>3 DEF TypeLine, SentWords
<1>4. CASE TypeAsk
  <2>1. "asks" \in Shells /\ Typed("asks") /\ job' = s.job /\ late' = late
    BY <1>2, <1>4 DEF TypeAsk, Shells
  <2>2. Shows([TypedIn(s, "asks") EXCEPT !.job = s.job], Aged(found))'
    BY <1>2, <2>1, TypedShows
  <2>3. [TypedIn(s, "asks") EXCEPT !.job = s.job] = Sent("ask", s)
    BY <1>2 DEF TypedIn, States, Sent
  <2> QED
    BY <1>1, <1>4, <2>2, <2>3 DEF TypeAsk, SentWords
<1>5. CASE TypeJob
  <2>1. "own" \in Shells /\ "own" \in Jobs /\ Typed("own") /\ job' = "own" /\ late' = late
    BY <1>5 DEF TypeJob, Shells, Jobs
  <2>2. Shows([TypedIn(s, "own") EXCEPT !.job = "own"], Aged(found))'
    BY <2>1, TypedShows
  <2>3. [TypedIn(s, "own") EXCEPT !.job = "own"] = Sent("job", s)
    BY DEF Sent
  <2> QED
    BY <1>1, <1>5, <2>2, <2>3 DEF TypeJob, SentWords
<1>6. CASE TypeBlank
  <2>1. Shows(BlankIn(s), found)' /\ Sent("blank", s) = BlankIn(s)
    BY <1>6, BlankShows DEF Sent
  <2> QED
    BY <1>1, <1>6, <2>1 DEF TypeBlank, SentWords
<1>7. CASE TypeReply
  <2>1. PICK again \in BOOLEAN : Doing("answer") = again
    BY DEF Doing
  <2>2. PICK f : Shows(ReplyIn(s, again), f)'
    BY <1>7, <2>1, ReplyShows
  <2>3. Goes(at + 1)
    BY <1>7 DEF TypeReply
  <2>4. CASE again
    <3>1. Doing("answer") /\ Sent("answer", s) = ReplyIn(s, again)
      BY <2>1, <2>4 DEF Sent
    <3> QED
      BY <1>1, <2>2, <2>3, <3>1 DEF SentWords
  <2>5. CASE ~again
    <3>1. Doing("reply") /\ Sent("reply", s) = ReplyIn(s, again)
      BY <1>7, <2>1, <2>5 DEF Sent, TypeReply
    <3> QED
      BY <1>1, <2>2, <2>3, <3>1 DEF SentWords
  <2> QED
    BY <2>4, <2>5
<1>8. CASE SpawnProcess
  <2>1. Shows([s EXCEPT !.shell = "asks"], found)' /\ Sent("spawn", s) = [s EXCEPT !.shell = "asks"]
    BY <1>8, SpawnShows DEF Sent
  <2> QED
    BY <1>1, <1>8, <2>1 DEF SpawnProcess, SentWords
<1>9. CASE AttachTerminal
  <2>1. Shows([s EXCEPT !.job = "own"], found)' /\ Sent("attach", s) = [s EXCEPT !.job = "own"]
    BY <1>9, AttachShows DEF Sent
  <2> QED
    BY <1>1, <1>9, <2>1 DEF AttachTerminal, SentWords
<1>10. CASE SendInterrupt
  <2>1. Shows(InterruptIn(s), found)' /\ Sent("interrupt", s) = InterruptIn(s)
    BY <1>10, InterruptShows DEF Sent
  <2> QED
    BY <1>1, <1>10, <2>1 DEF SendInterrupt, SentWords
<1> QED
  BY <1>3, <1>4, <1>5, <1>6, <1>7, <1>8, <1>9, <1>10

(* So does what it expects and finds,                                      *)
LEMMA ExpectedHolds ==
    ASSUME AtAStep, script \notin Unpaced, NEW s \in Annotation(script)[at], NEW found, Shows(s, found),
           NEW w, Expected(w)
    PROVE  AsAnnotated'
<1>1. /\ w \in {"echo", "text", "prompt"} /\ at <= Len(script) /\ script[at].do = w /\ Found(w) # {}
      /\ Consumed(Earliest(w)) /\ UNCHANGED <<shell, ahead, job, late>>
      /\ script' = script /\ at' = Land(script, at + 1)
  BY DEF Expected, Doing, Goes
<1>2. Moves(script, at, s) = ExpectedIn(script, at, s)
  BY <1>1 DEF Moves, SentWords
<1>3. CASE Hits(s, w) # {} /\ Shows(After(s, FirstHit(s, w)), <<>>)'
  <2>1. PICK t : t = After(s, FirstHit(s, w))
    OBVIOUS
  <2>2. <<Land(script, at + 1), t>> \in Moves(script, at, s)
    BY <1>1, <1>2, <1>3, <2>1 DEF ExpectedIn
  <2>3. Shows(t, <<>>)'
    BY <1>3, <2>1
  <2> QED
    BY <1>1, <2>2, <2>3, MovedTo
<1>4. CASE /\ ~s.past /\ unread[Earliest(w)].kind # "prompt" /\ Matches(unread[Earliest(w)], w)
           /\ \E rest : Shows(s, rest)'
  <2>1. w # "prompt"
    BY <1>4 DEF Matches
  <2>2. <<Land(script, at + 1), s>> \in Moves(script, at, s)
    BY <1>1, <1>2, <1>4, <2>1 DEF ExpectedIn, Earlier
  <2> QED
    BY <1>1, <1>4, <2>2, MovedTo
<1> QED
  BY <1>1, <1>3, <1>4, ConsumedShows

(* what it finds of two,                                                   *)
LEMMA SpottedHolds ==
    ASSUME AtAStep, script \notin Unpaced, NEW s \in Annotation(script)[at], NEW found, Shows(s, found), Spotted
    PROVE  AsAnnotated'
<1>1. /\ at <= Len(script) /\ script[at].do = "spot" /\ Found("spot") # {}
      /\ Consumed(Earliest("spot")) /\ UNCHANGED <<shell, ahead, job, late>> /\ script' = script
      /\ at' = Land(script, at + IF unread[Earliest("spot")].kind = "out" THEN 1 ELSE script[at].unseen)
  BY DEF Spotted, Doing, Goes
<1>2. Moves(script, at, s) = SpottedIn(script, at, s)
  BY <1>1 DEF Moves, SentWords
<1>3. CASE /\ Hits(s, "spot") # {} /\ unread[Earliest("spot")] = s.unread[FirstHit(s, "spot")]
           /\ Shows(After(s, FirstHit(s, "spot")), <<>>)'
  <2>1. PICK t : t = After(s, FirstHit(s, "spot"))
    OBVIOUS
  <2>2. PICK over : over = IF s.unread[FirstHit(s, "spot")].kind = "out" THEN 1 ELSE script[at].unseen
    OBVIOUS
  <2>3. <<Land(script, at + over), t>> \in Moves(script, at, s)
    BY <1>2, <1>3, <2>1, <2>2 DEF SpottedIn
  <2>4. Shows(t, <<>>)' /\ at' = Land(script, at + over)
    BY <1>1, <1>3, <2>1, <2>2
  <2> QED
    BY <1>1, <2>3, <2>4, MovedTo
<1>4. CASE /\ ~s.past /\ unread[Earliest("spot")].kind # "prompt" /\ Matches(unread[Earliest("spot")], "spot")
           /\ \E rest : Shows(s, rest)'
  <2>1. unread[Earliest("spot")].kind = "out"
    BY <1>4 DEF Matches, Token
  <2>2. at' = Land(script, at + 1)
    BY <1>1, <2>1
  <2>3. <<Land(script, at + 1), s>> \in Moves(script, at, s)
    BY <1>2, <1>4 DEF SpottedIn, Earlier
  <2> QED
    BY <1>1, <1>4, <2>2, <2>3, MovedTo
<1> QED
  BY <1>1, <1>3, <1>4, ConsumedShows

(* an expect that gives up, if it is handled,                              *)
LEMMA GivenUpHolds ==
    ASSUME AtAStep, script \notin Unpaced, NEW s \in Annotation(script)[at], NEW found, Shows(s, found),
           NEW w, GivesUp(w)
    PROVE  AsAnnotated'
<1>1. /\ w \in {"echo", "text", "prompt", "spot"} /\ at <= Len(script) /\ script[at].do = w /\ Found(w) = {}
      /\ UNCHANGED <<unread, shell, ahead, job>> /\ late' = TRUE /\ Thrown
  BY DEF GivesUp, Doing, tty
<1>2. Tries = Handlers(script, at)
  BY DEF Tries, Handlers
<1>3. CASE Tries = {}
  BY <1>1, <1>3 DEF Thrown, AsAnnotated
<1>4. CASE Tries # {}
  <2>1. script' = script /\ at' = Handling(script, at)
    BY <1>1, <1>2, <1>4 DEF Thrown, Goes, Handling
  <2>2. PICK t : t = [s EXCEPT !.late = TRUE]
    OBVIOUS
  <2>3. Shows(t, found)'
    BY <1>1, <2>2, GivenUpShows
  <2>4. Hits(s, w) = {} /\ Handled(script, at, s) = {<<Handling(script, at), t>>}
    BY <1>1, <1>2, <1>4, <2>2, NothingToHit DEF Handled
  <2>5. <<Handling(script, at), t>> \in Moves(script, at, s)
    <3>1. CASE w = "spot"
      BY <1>1, <2>4, <3>1 DEF Moves, SpottedIn, SentWords
    <3>2. CASE w \in {"echo", "text", "prompt"}
      BY <1>1, <2>4, <3>2 DEF Moves, ExpectedIn, SentWords
    <3> QED
      BY <1>1, <3>1, <3>2
  <2> QED
    BY <1>1, <2>1, <2>3, <2>5, MovedTo
<1> QED
  BY <1>3, <1>4

(* what the shell does meanwhile,                                          *)
LEMMA ShellHolds ==
    ASSUME AtAStep, script \notin Unpaced, NEW s \in Annotation(script)[at], NEW found, Shows(s, found),
           Prints \/ JobPrints \/ Finishes
    PROVE  AsAnnotated'
<1>1. \E t \in Meanwhile(s) : Shows(t, found)'
  <2>1. CASE Prints
    BY <2>1, PrintsShows DEF Meanwhile
  <2>2. CASE JobPrints
    BY <2>2, JobPrintsShows DEF Meanwhile
  <2>3. CASE Finishes
    BY <2>3, FinishesShows DEF Meanwhile
  <2> QED
    BY <2>1, <2>2, <2>3
<1>2. PICK t \in Annotation(script)[at] : Shows(t, found)'
  BY <1>1, MovesOn
<1>3. script' = script /\ at' = at
  BY DEF Prints, JobPrints, Finishes
<1> QED
  BY <1>2, <1>3 DEF AsAnnotated, Held

(* and another operation, if it begins in step.                            *)
LEMMA FollowsHolds ==
    ASSUME AtAStep, TtyTypes, NEW name \in Probes, Follows(name), AtAStep'
    PROVE  AsAnnotated'
<1> SUFFICES ASSUME level', script' \notin Unpaced
             PROVE  Held(script, at)'
  BY DEF AsAnnotated
<1>1. /\ script' = Ops[name] /\ at' = Land(script', 1) /\ InStep /\ UNCHANGED <<late, unread, shell, ahead>>
      /\ job' \in {"none", "old"}
  BY DEF Follows, TtyTypes, Jobs
<1>2. PICK s : s = [unread |-> <<>>, shell |-> "idle", ahead |-> <<>>, job |-> job', late |-> late, past |-> FALSE]
  OBVIOUS
<1>3. /\ s \in States /\ s.unread = <<>> /\ s.shell = "idle" /\ s.ahead = <<>> /\ s.job = job' /\ s.late = late
      /\ s.past = FALSE
  <2>1. <<>> \in Seq(Tokens) /\ <<>> \in Seq(Owners)
    BY EmptySeq
  <2> QED
    BY <1>1, <1>2, <2>1 DEF States, Shells, Jobs, TtyTypes
<1>4. Leftover(unread, FALSE) /\ unread \in Seq(Tokens) /\ unread = unread \o <<>>
  BY <1>1, ConcatEmptySeq DEF TtyTypes, Leftover, InStep
<1>5. \A f : f = unread => Shows(s, f)'
  <2>1. SUFFICES ASSUME NEW f, f = unread
                 PROVE  Shows(s, f)'
    OBVIOUS
  <2>2. f \in Seq(Tokens) /\ Leftover(f, s.past) /\ unread' = f \o s.unread
    BY <1>1, <1>3, <1>4, <2>1
  <2>3. shell' = s.shell /\ ahead' = s.ahead /\ late' = s.late
    BY <1>1, <1>3 DEF InStep
  <2> QED
    BY <1>3, <2>2, <2>3, ShowsNext
<1>6. s \in Annotation(script')[at']
  <2>1. IsAnnotation(script', Annotation(script'))
    BY AnnotatedAssumption DEF AtAStep
  <2>2. s \in Beginnings(script')
    <3>1. s \in Begun({"none", "old"}, BOOLEAN, {FALSE})
      BY <1>1, <1>2 DEF Begun, TtyTypes
    <3> QED
      BY <1>1, <3>1 DEF Beginnings
  <2> QED
    BY <1>1, <2>1, <2>2 DEF IsAnnotation
<1> QED
  BY <1>5, <1>6 DEF Held

(* Together: no step leaves the annotation.                                *)
LEMMA AnnotatedStep ==
    ASSUME AtAStep, TtyTypes, AsAnnotated, [ConsoleNext]_consoleVars
    PROVE  AsAnnotated'
<1>1. CASE UNCHANGED consoleVars
  BY <1>1 DEF consoleVars, AsAnnotated, Held, Shows
<1>2. ASSUME NEW name \in Probes, Follows(name)
      PROVE  AsAnnotated'
  <2>1. AtAStep'
    BY <1>2, StepTypes DEF ConsoleNext
  <2> QED
    BY <1>2, <2>1, FollowsHolds
<1>3. CASE Raises
  BY <1>3 DEF Raises, AsAnnotated
<1>4. ASSUME ConsoleNext, ~Raises, ~\E name \in Probes : Follows(name)
      PROVE  AsAnnotated'
  <2> SUFFICES ASSUME level', result' # "raised", script' \notin Unpaced
               PROVE  AsAnnotated'
    BY DEF AsAnnotated
  <2>1. UNCHANGED <<level, script>> /\ result # "raised"
    BY <1>4 DEF ConsoleNext, TypeLine, TypeAsk, TypeJob, TypeBlank, TypeReply, SpawnProcess, AttachTerminal,
       SendInterrupt, Expected, GivesUp, Thrown, Spotted, Chooses, Returns, Prints, JobPrints, Finishes, Goes, Doing
  <2>2a. PICK s \in Annotation(script)[at] : \E found : Shows(s, found)
    BY <2>1 DEF AsAnnotated, Held
  <2>2. PICK found : Shows(s, found)
    BY <2>2a
  <2>3. script \notin Unpaced
    BY <2>1
  <2>4. CASE \/ TypeLine \/ TypeAsk \/ TypeJob \/ TypeBlank \/ TypeReply
             \/ SpawnProcess \/ AttachTerminal \/ SendInterrupt
    BY <2>2, <2>3, <2>4, SentHolds
  <2>5. ASSUME NEW w \in Words, Expected(w) \/ GivesUp(w)
        PROVE  AsAnnotated'
    BY <2>2, <2>3, <2>5, ExpectedHolds, GivenUpHolds
  <2>6. CASE Spotted
    BY <2>2, <2>3, <2>6, SpottedHolds
  <2>7. CASE Chooses
    <3>1. PICK n \in script[at].by : Goes(at + n)
      BY <2>7 DEF Chooses
    <3>2. /\ at <= Len(script) /\ script[at].do = "either" /\ UNCHANGED <<unread, shell, ahead, job, late>>
          /\ script' = script /\ at' = Land(script, at + n)
      BY <2>7, <3>1 DEF Chooses, Doing, Goes, tty
    <3>3. <<Land(script, at + n), s>> \in Moves(script, at, s)
      BY <3>2 DEF Moves, SentWords
    <3>4. Shows(s, found)'
      BY <2>2, <3>2, UnchangedShows
    <3> QED
      BY <2>2, <2>3, <3>2, <3>3, <3>4, MovedTo
  <2>8. CASE Returns
    <3>1. UNCHANGED <<unread, shell, ahead, job, late>> /\ script' = script /\ at' = at
      BY <2>8 DEF Returns, tty
    <3>2. Shows(s, found)'
      BY <2>2, <3>1, UnchangedShows
    <3> QED
      BY <2>2, <3>1, <3>2 DEF AsAnnotated, Held
  <2>9. CASE Prints \/ JobPrints \/ Finishes
    BY <2>2, <2>3, <2>9, ShellHolds
  <2> QED
    BY <1>4, <2>4, <2>5, <2>6, <2>7, <2>8, <2>9 DEF ConsoleNext
<1> QED
  BY <1>1, <1>2, <1>3, <1>4

(* The first operation begins where its annotation does.                   *)
LEMMA AnnotatedInit == ConsoleInit => AsAnnotated
<1> SUFFICES ASSUME ConsoleInit, script \notin Unpaced
             PROVE  Held(script, at)
  BY DEF AsAnnotated
<1>1. /\ script \in Codes /\ at = Land(script, 1) /\ late = FALSE /\ unread = <<>> /\ shell = "idle"
      /\ ahead = <<>> /\ job = "none"
  BY DEF ConsoleInit, Codes
<1>2. PICK s : s = [unread |-> <<>>, shell |-> "idle", ahead |-> <<>>, job |-> "none", late |-> FALSE, past |-> TRUE]
  OBVIOUS
<1>3. <<>> \in Seq(Tokens) /\ <<>> \in Seq(Owners) /\ <<>> = <<>> \o <<>>
  BY EmptySeq, ConcatEmptySeq
<1>4. s \in States
  BY <1>2, <1>3 DEF States, Shells, Jobs
<1>5. Shows(s, <<>>)
  <2>1. /\ s.unread = <<>> /\ s.shell = "idle" /\ s.ahead = <<>> /\ s.job = "none" /\ s.late = FALSE /\ s.past = TRUE
    BY <1>2
  <2>2. Leftover(<<>>, s.past)
    BY <1>3 DEF Leftover
  <2> QED
    BY <1>1, <1>3, <1>4, <2>1, <2>2 DEF Shows
<1>6. s \in Annotation(script)[at]
  <2>1. IsAnnotation(script, Annotation(script))
    BY <1>1, AnnotatedAssumption
  <2>2. s \in Beginnings(script)
    BY <1>2 DEF Beginnings, Begun
  <2> QED
    BY <1>1, <2>1, <2>2 DEF IsAnnotation
<1> QED
  BY <1>5, <1>6 DEF Held

(* Where an operation returns, its annotation says what it leaves behind.  *)
Returned == result = "done" => at = Len(script) + 1

(* What the annotation says of the end of a script is the property.        *)
LEMMA AnnotatedIsSound ==
    ASSUME ConsoleTypes, AsAnnotated, EchoKept, Returned
    PROVE  ConsoleSound
<1>1. ASSUME result = "done", level, script \notin Unpaced
      PROVE  (~late => InStep) /\ (script \notin Unfinished => shell = "idle")
  <2>1a. PICK s \in Annotation(script)[at] : \E found : Shows(s, found)
    BY <1>1 DEF AsAnnotated, Held
  <2>1. PICK found : Shows(s, found)
    BY <2>1a
  <2>2. at = Len(script) + 1
    BY <1>1 DEF Returned
  <2>3. IsAnnotation(script, Annotation(script))
    BY <1>1, AnnotatedAssumption DEF ConsoleTypes, AtAStep
  <2>4. (~s.late => Quiet(s)) /\ (script \notin Unfinished => s.shell = "idle")
    BY <2>1, <2>2, <2>3 DEF IsAnnotation
  <2>5. /\ late = s.late /\ shell = s.shell /\ ahead = s.ahead /\ unread = found \o s.unread
        /\ found \in Seq(Tokens) /\ s.unread \in Seq(Tokens) /\ Leftover(found, s.past)
    BY <2>1, ShownTypes
  <2>6. ASSUME ~late
        PROVE  InStep
    <3>1. Quiet(s)
      BY <2>4, <2>5, <2>6
    <3>2. /\ DOMAIN unread = 1 .. Len(found) + Len(s.unread)
          /\ \A i \in DOMAIN found : unread[i] = found[i]
          /\ \A i \in DOMAIN s.unread : unread[Len(found) + i] = s.unread[i]
          /\ \A i \in DOMAIN unread : i \in DOMAIN found \/ i - Len(found) \in DOMAIN s.unread
          /\ Len(found) \in Nat
      BY <2>5, Joined
    <3>3. ASSUME NEW i \in DOMAIN unread
          PROVE  unread[i].kind # "prompt"
      <4>1. CASE i \in DOMAIN found
        BY <2>5, <3>2, <4>1 DEF Leftover
      <4>2. CASE i - Len(found) \in DOMAIN s.unread
        <5>1. unread[Len(found) + (i - Len(found))] = s.unread[i - Len(found)] /\ Len(found) + (i - Len(found)) = i
          BY <3>2, <4>2
        <5> QED
          BY <3>1, <4>2, <5>1 DEF Quiet
      <4> QED
        BY <3>2, <4>1, <4>2
    <3> QED
      BY <2>5, <3>1, <3>3 DEF InStep, Quiet
  <2> QED
    BY <2>4, <2>5, <2>6
<1>2. EndsInStep
  BY <1>1 DEF EndsInStep
<1>3. ReturnsIdle
  <2>1. Unpaced \subseteq Unfinished
    BY DEF Unpaced, Unfinished
  <2> QED
    BY <1>1, <2>1 DEF ReturnsIdle
<1>4. EchoedAnswerIsOwn
  <2>1. ASSUME result = "done", asked, script \in Echoed
        PROVE  answer = "own"
    <3>1. at = 4
      BY <2>1, EchoScript DEF Returned, ConsoleTypes
    <3> QED
      BY <2>1, <3>1 DEF EchoKept
  <2> QED
    BY <2>1 DEF EchoedAnswerIsOwn
<1> QED
  BY <1>2, <1>3, <1>4 DEF ConsoleSound

(* An operation returns behind the last step of its script only.           *)
LEMMA ReturnedStep ==
    ASSUME AtAStep, Returned, [ConsoleNext]_consoleVars
    PROVE  Returned'
<1>1. CASE Returns
  <2>1. script' = script /\ at' = at /\ at > Len(script)
    BY <1>1 DEF Returns
  <2>2. Len(script) \in Nat
    BY Within DEF AtAStep
  <2> QED
    BY <2>1, <2>2 DEF AtAStep, Returned
<1>2. CASE UNCHANGED consoleVars
  BY <1>2 DEF consoleVars, Returned
<1>3. CASE Prints \/ JobPrints \/ Finishes
  BY <1>3 DEF Prints, JobPrints, Finishes, Returned
<1>4. ASSUME ConsoleNext, ~Returns, ~(Prints \/ JobPrints \/ Finishes)
      PROVE  result' # "done"
  BY <1>4 DEF ConsoleNext, TypeLine, TypeAsk, TypeJob, TypeBlank, TypeReply, SpawnProcess, AttachTerminal,
     SendInterrupt, Expected, GivesUp, Thrown, Spotted, Raises, Chooses, Follows, Goes, Doing
<1> QED
  BY <1>1, <1>2, <1>3, <1>4 DEF Returned

(* The inductive invariant.                                                *)
ConsoleInv == ConsoleTypes /\ AsAnnotated /\ EchoKept /\ Returned

(* It holds at the beginning                                               *)
LEMMA ConsoleInvInit == ConsoleInit => ConsoleInv
  BY TypesInit, AnnotatedInit DEF ConsoleInit, ConsoleInv, EchoKept, Returned

(* and is kept.                                                            *)
LEMMA ConsoleInvStep == ConsoleInv /\ [ConsoleNext]_consoleVars => ConsoleInv'
<1> SUFFICES ASSUME ConsoleInv, [ConsoleNext]_consoleVars
             PROVE  ConsoleInv'
  OBVIOUS
<1>1. AtAStep /\ TtyTypes /\ ConsoleTypes /\ AsAnnotated /\ EchoKept /\ Returned
  BY DEF ConsoleInv, ConsoleTypes
<1>2. EchoKept'
  <2>1. CASE UNCHANGED consoleVars
    BY <1>1, <2>1 DEF consoleVars, EchoKept, OwnEchoed, OwnPrompts
  <2> QED
    BY <1>1, <2>1, EchoStep
<1> QED
  BY <1>1, <1>2, TypesStep, AnnotatedStep, ReturnedStep DEF ConsoleInv

(* The types of a console, whatever operations are studied and follow.     *)
THEOREM ConsoleTyped == ConsoleSpec => []ConsoleTypeOK
<1>1. ConsoleTypes /\ [ConsoleNext]_consoleVars => ConsoleTypes'
  BY TypesStep
<1> QED
  BY <1>1, TypesInit, TypesAreTyped, PTL DEF ConsoleSpec

(* An operation leaves the console as the next one needs it, whatever      *)
(* operations are studied and follow, as long as their annotations hold.   *)
THEOREM ConsolesInStep == ConsoleSpec => []ConsoleSound
<1>1. ConsoleInv => ConsoleSound
  BY AnnotatedIsSound DEF ConsoleInv
<1> QED
  BY <1>1, ConsoleInvInit, ConsoleInvStep, PTL DEF ConsoleSpec
=============================================================================
