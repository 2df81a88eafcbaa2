--------------------------- MODULE BuildingProofs ---------------------------
(***************************************************************************)
(* Proofs that the parser adapters hand over all of a stream's text and    *)
(* each only once, that the tree builder keeps its stacks in step with the *)
(* tags that are open, and that it refuses a document if and only if it    *)
(* uses an identifier twice: for any stream, parser and cut into chunks.   *)
(***************************************************************************)
EXTENDS Building, SequenceTheorems, FiniteSetTheorems, WellFoundedInduction, TLAPS

IsSeq(s) == s \in Seq({s[i] : i \in DOMAIN s})

-----------------------------------------------------------------------------
(* The invariant *)

StreamTyped ==
    /\ tokens \in Seq(Tokens)
    /\ open \in Seq(Seq(Nat))
    /\ Len(open) = Len(tokens) + 1
    /\ open[1] = <<>>

IsTag(i) == tokens[i].type \in {"start", "end"}

\* how the open tags go on from token to token, and over tokens that are no tags
Nested ==
    /\ \A i \in 1 .. Len(tokens) :
          /\ tokens[i].type = "start" => open[i + 1] = Append(open[i], i)
          /\ tokens[i].type = "end" => open[i] # <<>> /\ open[i + 1] = Front(open[i])
    /\ \A i, j \in 1 .. Len(tokens) + 1 :
          i <= j /\ (\A k \in i .. (j - 1) : ~IsTag(k)) => open[j] = open[i]

\* open tags were started before
StartsAreOpen ==
    \A i \in 1 .. Len(tokens) + 1 : \A d \in DOMAIN open[i] :
        open[i][d] \in 1 .. (i - 1) /\ tokens[open[i][d]].type = "start"

\* Behind a root there are comments only.
OneRoot ==
    \A i \in 1 .. Len(tokens) + 1 : \A h \in 1 .. (i - 1) :
        tokens[h].type = "start" /\ open[i] = <<>> =>
            \A k \in i .. Len(tokens) : tokens[k].type = "comment"

\* Open tags are listed as they were started, each at one depth from its start on.
Stacked ==
    /\ \A i \in 1 .. Len(tokens) + 1 : \A c, d \in DOMAIN open[i] :
          c < d => open[i][c] < open[i][d]
    /\ \A i, j \in 1 .. Len(tokens) + 1 : \A d \in DOMAIN open[j] :
          i <= j /\ open[j][d] < i => d \in DOMAIN open[i] /\ open[i][d] = open[j][d]

TextIsInside == \A i \in 1 .. Len(tokens) : tokens[i].type = "text" => open[i] # <<>>

StreamInv == StreamTyped /\ Nested /\ StartsAreOpen /\ OneRoot /\ Stacked /\ TextIsInside

Id(i) == AttributesOf(tokens[i].element)[XmlId]

BuilderTyped ==
    /\ read \in 0 .. Len(tokens)
    /\ outcome \in {"ok", "ParsingValidityError"}
    /\ IsSeq(children) /\ IsSeq(started_tags) /\ IsSeq(preserve_space)

IdUsedTwice == \E i, j \in IdsRead : i # j /\ Id(i) = Id(j)

\* While the root is open, and before, the builder knows all the identifiers.
IdsKnown ==
    /\ outcome = "ok" <=> ~IdUsedTwice
    /\ outcome = "ok" /\ (started_tags # <<>> \/ \A i \in 1 .. read : tokens[i].type # "start")
           => xml_ids = {Id(i) : i \in IdsRead}

IInv == StreamInv /\ BuilderTyped /\ StacksInStep /\ IdsKnown

-----------------------------------------------------------------------------
(* Sequences *)

LEMMA SeqIsSeq ==
    ASSUME NEW S, NEW s \in Seq(S)
    PROVE  IsSeq(s)
<1> DEFINE T == {s[i] : i \in DOMAIN s}
<1>1. s \in [1 .. Len(s) -> T] /\ Len(s) \in Nat
  OBVIOUS
<1> QED  BY <1>1 DEF IsSeq

LEMMA Lengths ==
    ASSUME NEW s, IsSeq(s)
    PROVE  /\ Len(s) \in Nat /\ DOMAIN s = 1 .. Len(s)
           /\ Len(s) = 0 <=> s = <<>>
  BY DEF IsSeq

LEMMA Appended ==
    ASSUME NEW s, IsSeq(s), NEW e
    PROVE  /\ IsSeq(Append(s, e)) /\ Len(Append(s, e)) = Len(s) + 1
           /\ Append(s, e)[Len(s) + 1] = e /\ \A k \in 1 .. Len(s) : Append(s, e)[k] = s[k]
<1> DEFINE T == {s[i] : i \in DOMAIN s} \cup {e}
<1>1. s \in Seq(T) /\ e \in T
  <2>1. s \in Seq({s[i] : i \in DOMAIN s})
    BY DEF IsSeq
  <2> QED  BY <2>1
<1> HIDE DEF T
<1>2. /\ Append(s, e) \in Seq(T) /\ Len(Append(s, e)) = Len(s) + 1
      /\ Append(s, e)[Len(s) + 1] = e /\ \A k \in 1 .. Len(s) : Append(s, e)[k] = s[k]
  BY <1>1
<1> QED  BY <1>2, SeqIsSeq

LEMMA LastOff ==
    ASSUME NEW s, IsSeq(s), s # <<>>
    PROVE  /\ IsSeq(Front(s)) /\ Len(Front(s)) = Len(s) - 1
           /\ \A k \in 1 .. (Len(s) - 1) : Front(s)[k] = s[k]
<1> DEFINE T == {s[i] : i \in DOMAIN s}
<1>1. s \in Seq(T)
  BY DEF IsSeq
<1> HIDE DEF T
<1>2. Len(s) \in Nat \ {0}
  BY <1>1
<1> DEFINE n == Len(s) - 1
<1>3. Front(s) = SubSeq(s, 1, n) /\ n \in Nat /\ n <= Len(s)
  BY <1>2 DEF Front
<1> HIDE DEF n
<1>4. /\ SubSeq(s, 1, n) \in Seq(T) /\ Len(SubSeq(s, 1, n)) = n
      /\ \A k \in 1 .. n : SubSeq(s, 1, n)[k] = s[k]
  BY <1>1, <1>2, <1>3
<1>5. IsSeq(Front(s))
  BY <1>3, <1>4, SeqIsSeq
<1> QED  BY <1>3, <1>4, <1>5 DEF n

LEMMA LastChanged ==
    ASSUME NEW s, IsSeq(s), NEW e
    PROVE  IsSeq([s EXCEPT ![Len(s)] = e]) /\ Len([s EXCEPT ![Len(s)] = e]) = Len(s)
<1> DEFINE T == {s[i] : i \in DOMAIN s} \cup {e}
           n == Len(s)
           r == [s EXCEPT ![n] = e]
<1>1. s \in Seq(T) /\ e \in T
  <2>1. s \in Seq({s[i] : i \in DOMAIN s})
    BY DEF IsSeq
  <2> QED  BY <2>1
<1> HIDE DEF T
<1>2. n \in Nat /\ s \in [1 .. n -> T]
  BY <1>1
<1> HIDE DEF n
<1>3. r \in [1 .. n -> T]
  BY <1>1, <1>2
<1> HIDE DEF r
<1>4. r \in Seq(T) /\ Len(r) = n
  BY <1>2, <1>3
<1>5. IsSeq(r)
  BY <1>4, SeqIsSeq
<1> QED  BY <1>4, <1>5 DEF r, n

\* stacks of open tags
LEMMA OneMore ==
    ASSUME NEW u \in Seq(Nat), NEW e \in Nat
    PROVE  /\ Append(u, e) \in Seq(Nat) /\ Len(u) \in Nat /\ DOMAIN u = 1 .. Len(u)
           /\ Len(Append(u, e)) = Len(u) + 1 /\ DOMAIN Append(u, e) = 1 .. Len(u) + 1
           /\ Append(u, e)[Len(u) + 1] = e /\ \A k \in 1 .. Len(u) : Append(u, e)[k] = u[k]
<1>1. /\ Append(u, e) \in Seq(Nat) /\ Len(u) \in Nat /\ DOMAIN u = 1 .. Len(u)
      /\ Len(Append(u, e)) = Len(u) + 1
  OBVIOUS
<1>2. Append(u, e)[Len(u) + 1] = e /\ \A k \in 1 .. Len(u) : Append(u, e)[k] = u[k]
  OBVIOUS
<1> QED  BY <1>1, <1>2

LEMMA OneLess ==
    ASSUME NEW u \in Seq(Nat), u # <<>>
    PROVE  /\ Front(u) \in Seq(Nat) /\ Len(u) \in Nat \ {0} /\ DOMAIN u = 1 .. Len(u)
           /\ Len(Front(u)) = Len(u) - 1 /\ DOMAIN Front(u) = 1 .. (Len(u) - 1)
           /\ Last(u) = u[Len(u)] /\ \A k \in 1 .. (Len(u) - 1) : Front(u)[k] = u[k]
<1>1. Len(u) \in Nat \ {0} /\ DOMAIN u = 1 .. Len(u) /\ u \in [1 .. Len(u) -> Nat]
  OBVIOUS
<1>2. Front(u) = [k \in 1 .. (Len(u) - 1) |-> u[k]]
  BY <1>1 DEF Front
<1>3. Front(u) \in [1 .. (Len(u) - 1) -> Nat] /\ Len(u) - 1 \in Nat
  BY <1>1, <1>2
<1>4. Front(u) \in Seq(Nat) /\ Len(Front(u)) = Len(u) - 1
  BY <1>3
<1> QED  BY <1>1, <1>2, <1>4 DEF Last

-----------------------------------------------------------------------------
(* The stream *)

LEMMA StreamTypes ==
    ASSUME StreamInv
    PROVE  /\ Len(tokens) \in Nat /\ Len(open) = Len(tokens) + 1
           /\ \A i \in 1 .. Len(tokens) : tokens[i] \in Tokens
           /\ \A i \in 1 .. Len(tokens) + 1 : open[i] \in Seq(Nat)
<1>1. /\ tokens \in Seq(Tokens) /\ open \in Seq(Seq(Nat)) /\ Len(open) = Len(tokens) + 1
  BY DEF StreamInv, StreamTyped
<1>2. \A i \in 1 .. Len(open) : open[i] \in Seq(Nat)
  BY <1>1
<1>3. Len(tokens) \in Nat /\ \A i \in 1 .. Len(tokens) : tokens[i] \in Tokens
  BY <1>1
<1> QED  BY <1>1, <1>2, <1>3

\* The stream is only read on, what was read stays.
LEMMA FeedKeepsStream ==
    ASSUME IInv, NEW token \in Tokens, Feed(token)
    PROVE  StreamInv'
<1> DEFINE n == Len(tokens)
<1>1. /\ n \in Nat /\ Len(tokens) = n /\ Len(open) = n + 1 /\ tokens \in Seq(Tokens) /\ open \in Seq(Seq(Nat))
      /\ Open = open[n + 1] /\ Open \in Seq(Nat)
  BY DEF IInv, StreamInv, StreamTyped, Open, Last
<1> HIDE DEF n
<1>2. /\ tokens' \in Seq(Tokens) /\ Len(tokens') = n + 1
      /\ tokens'[n + 1] = token /\ \A i \in 1 .. n : tokens'[i] = tokens[i]
  BY <1>1 DEF Feed
<1>3. token.type \in {"start", "end", "text", "comment"}
  BY DEF Tokens
<1>4. token.type = "end" => Open # <<>>
  BY DEF Feed
<1>5. OpenBehind(token) \in Seq(Nat)
  <2>1. Append(Open, Len(tokens) + 1) \in Seq(Nat)
    BY <1>1
  <2>2. token.type = "end" => Front(Open) \in Seq(Nat)
    BY <1>1, <1>4, OneLess
  <2> QED  BY <1>1, <2>1, <2>2 DEF OpenBehind
<1>6. /\ open' \in Seq(Seq(Nat)) /\ Len(open') = n + 2
      /\ open'[n + 2] = OpenBehind(token) /\ \A i \in 1 .. (n + 1) : open'[i] = open[i]
  BY <1>1, <1>5 DEF Feed
<1>7. StreamTyped'
  <2>1. open'[1] = <<>>
    BY <1>1, <1>6 DEF IInv, StreamInv, StreamTyped
  <2>2. Len(open') = Len(tokens') + 1
    BY <1>1, <1>2, <1>6
  <2> QED  BY <1>2, <1>6, <2>1, <2>2 DEF StreamTyped
<1>8. Nested'
  <2>1. ASSUME NEW i \in 1 .. (n + 1)
        PROVE  /\ tokens'[i].type = "start" => open'[i + 1] = Append(open'[i], i)
               /\ tokens'[i].type = "end" => open'[i] # <<>> /\ open'[i + 1] = Front(open'[i])
    <3>1. CASE i \in 1 .. n
      <4>1. i \in 1 .. (n + 1) /\ i + 1 \in 1 .. (n + 1)
        BY <1>1, <3>1
      <4>2. tokens'[i] = tokens[i]
        BY <1>2, <3>1
      <4>3. open'[i] = open[i] /\ open'[i + 1] = open[i + 1]
        BY <1>6, <4>1
      <4> QED  BY <1>1, <3>1, <4>2, <4>3 DEF IInv, StreamInv, Nested
    <3>2. CASE i = n + 1
      <4>1. tokens'[i] = token /\ open'[i] = Open /\ open'[i + 1] = OpenBehind(token)
        BY <1>1, <1>2, <1>6, <3>2
      <4> QED  BY <1>1, <1>3, <1>4, <3>2, <4>1 DEF OpenBehind
    <3> QED  BY <1>1, <3>1, <3>2
  <2>2. ASSUME NEW i \in 1 .. (n + 2), NEW j \in 1 .. (n + 2), i <= j,
               \A k \in i .. (j - 1) : tokens'[k].type \notin {"start", "end"}
        PROVE  open'[j] = open'[i]
    <3>1. ASSUME NEW h \in i .. (n + 1), h <= j
          PROVE  open[h] = open[i]
      <4>1. \A k \in i .. (h - 1) : tokens[k] = tokens'[k] /\ k \in i .. (j - 1)
        <5>1. \A k \in i .. (h - 1) : k \in 1 .. n /\ k \in i .. (j - 1)
          BY <1>1, <3>1
        <5> QED  BY <1>2, <5>1
      <4>2. \A k \in i .. (h - 1) : ~IsTag(k)
        BY <2>2, <4>1 DEF IsTag
      <4>3. i \in 1 .. Len(tokens) + 1 /\ h \in 1 .. Len(tokens) + 1 /\ i <= h
        BY <1>1, <3>1
      <4> QED  BY <4>2, <4>3 DEF IInv, StreamInv, Nested
    <3>2. CASE j <= n + 1
      <4>1. open[j] = open[i] /\ i \in 1 .. (n + 1) /\ j \in 1 .. (n + 1)
        BY <1>1, <2>2, <3>1, <3>2
      <4> QED  BY <1>6, <4>1
    <3>3. CASE i = n + 2
      BY <1>1, <2>2, <3>3
    <3>4. CASE j = n + 2 /\ i < n + 2
      <4>1. n + 1 \in i .. (j - 1) /\ n + 1 \in i .. (n + 1) /\ n + 1 <= j
        BY <1>1, <3>4
      <4>2. tokens'[n + 1].type \notin {"start", "end"}
        BY <2>2, <4>1
      <4>3. OpenBehind(token) = Open
        BY <1>2, <4>2 DEF OpenBehind
      <4>4. open[n + 1] = open[i]
        BY <3>1, <4>1
      <4>5. i \in 1 .. (n + 1)
        BY <1>1, <3>4
      <4> QED  BY <1>1, <1>6, <3>4, <4>3, <4>4, <4>5
    <3> QED  BY <1>1, <3>2, <3>3, <3>4
  <2>3. Len(tokens') + 1 = n + 2
    BY <1>1, <1>2
  <2> QED  BY <1>2, <2>1, <2>2, <2>3 DEF Nested, IsTag
<1>9. StartsAreOpen'
  <2>1. \A i \in 1 .. (n + 1) : \A d \in DOMAIN open[i] :
            open[i][d] \in 1 .. (i - 1) /\ tokens[open[i][d]].type = "start"
    BY <1>1 DEF IInv, StreamInv, StartsAreOpen
  <2>2. ASSUME NEW i \in 1 .. (n + 1), NEW d \in DOMAIN open[i]
        PROVE  open'[i][d] \in 1 .. (i - 1) /\ tokens'[open'[i][d]].type = "start"
    <3>1. open[i][d] \in 1 .. n
      BY <1>1, <2>1
    <3>2. open'[i] = open[i]
      BY <1>6
    <3> QED  BY <1>2, <2>1, <3>1, <3>2
  <2>3. ASSUME NEW d \in DOMAIN OpenBehind(token)
        PROVE  /\ OpenBehind(token)[d] \in 1 .. (n + 1)
               /\ tokens'[OpenBehind(token)[d]].type = "start"
    <3>1. ASSUME NEW c \in DOMAIN Open
          PROVE  Open[c] \in 1 .. n /\ tokens'[Open[c]].type = "start"
      <4>1. n + 1 \in 1 .. (n + 1) /\ (n + 1) - 1 = n
        BY <1>1
      <4> QED  BY <1>1, <1>2, <2>1, <4>1
    <3>2. CASE token.type = "start"
      <4>1. OpenBehind(token) = Append(Open, n + 1)
        BY <1>1, <3>2 DEF OpenBehind
      <4>2. OpenBehind(token)[d] = n + 1 \/ (d \in DOMAIN Open /\ OpenBehind(token)[d] = Open[d])
        BY <1>1, <4>1
      <4> QED  BY <1>1, <1>2, <3>1, <3>2, <4>2
    <3>3. CASE token.type = "end"
      <4>1. OpenBehind(token) = Front(Open)
        BY <3>3 DEF OpenBehind
      <4>2. d \in DOMAIN Open /\ OpenBehind(token)[d] = Open[d]
        <5>1. /\ DOMAIN Front(Open) = 1 .. (Len(Open) - 1) /\ Len(Open) \in Nat
              /\ DOMAIN Open = 1 .. Len(Open)
              /\ \A k \in 1 .. (Len(Open) - 1) : Front(Open)[k] = Open[k]
          BY <1>1, <1>4, <3>3, OneLess
        <5>2. d \in 1 .. (Len(Open) - 1)
          BY <4>1, <5>1
        <5> QED  BY <4>1, <5>1, <5>2
      <4> QED  BY <1>1, <3>1, <4>2
    <3>4. CASE token.type \notin {"start", "end"}
      <4>1. OpenBehind(token) = Open
        BY <3>4 DEF OpenBehind
      <4> QED  BY <1>1, <3>1, <4>1
    <3> QED  BY <3>2, <3>3, <3>4
  <2>4. Len(tokens') + 1 = n + 2 /\ \A i \in 1 .. (n + 2) : i \in 1 .. (n + 1) \/ i = n + 2
    BY <1>1, <1>2
  <2>5. (n + 2) - 1 = n + 1
    BY <1>1
  <2> QED  BY <1>6, <2>2, <2>3, <2>4, <2>5 DEF StartsAreOpen
<1>10. OneRoot'
  <2> SUFFICES ASSUME NEW i \in 1 .. (n + 2), NEW h \in 1 .. (i - 1),
                      tokens'[h].type = "start", open'[i] = <<>>,
                      NEW k \in i .. (n + 1)
               PROVE  tokens'[k].type = "comment"
    BY <1>1, <1>2 DEF OneRoot
  <2>1. i \in 1 .. (n + 1) /\ h \in 1 .. n /\ i <= n + 1 /\ n + 1 \in 1 .. (n + 1)
    BY <1>1
  <2>2. /\ i \in 1 .. (n + 1) /\ h \in 1 .. n /\ tokens[h].type = "start" /\ open[i] = <<>>
        /\ i <= n + 1 /\ n + 1 \in 1 .. (n + 1)
    BY <1>2, <1>6, <2>1
  <2>3. \A c \in i .. n : tokens[c].type = "comment"
    BY <1>1, <2>2 DEF IInv, StreamInv, OneRoot
  <2>4. CASE k \in i .. n
    <3>1. k \in 1 .. n
      BY <2>2, <2>4
    <3> QED  BY <1>2, <2>3, <2>4, <3>1
  <2>5. CASE k = n + 1
    <3>1. \A c \in i .. ((n + 1) - 1) : ~IsTag(c)
      BY <1>1, <2>3 DEF IsTag
    <3>2. Open = <<>>
      BY <1>1, <2>2, <3>1 DEF IInv, StreamInv, Nested
    <3>3. h \in DOMAIN tokens
      BY <1>1, <2>2
    <3>4. token.type = "comment"
      BY <2>2, <3>2, <3>3 DEF Feed
    <3> QED  BY <1>2, <2>5, <3>4
  <2> QED  BY <1>1, <2>2, <2>4, <2>5
<1>11. ASSUME NEW d \in DOMAIN OpenBehind(token)
       PROVE  \/ d = Len(Open) + 1 /\ OpenBehind(token)[d] = n + 1
              \/ d \in DOMAIN Open /\ OpenBehind(token)[d] = Open[d]
  <2>1. CASE token.type = "start"
    <3>1. OpenBehind(token) = Append(Open, n + 1)
      BY <1>1, <2>1 DEF OpenBehind
    <3> QED  BY <1>1, <3>1, OneMore
  <2>2. CASE token.type = "end"
    <3>1. OpenBehind(token) = Front(Open)
      BY <2>2 DEF OpenBehind
    <3> QED  BY <1>1, <1>4, <2>2, <3>1 DEF Front
  <2>3. CASE token.type \notin {"start", "end"}
    <3>1. OpenBehind(token) = Open
      BY <2>3 DEF OpenBehind
    <3> QED  BY <3>1
  <2> QED  BY <2>1, <2>2, <2>3
<1>12. \A d \in DOMAIN Open : Open[d] \in 1 .. n
  <2>1. n + 1 \in 1 .. (n + 1) /\ (n + 1) - 1 = n
    BY <1>1
  <2> QED  BY <1>1, <2>1 DEF IInv, StreamInv, StartsAreOpen
<1>13. \A i, j \in 1 .. (n + 1) : \A d \in DOMAIN open[j] :
          i <= j /\ open[j][d] < i => d \in DOMAIN open[i] /\ open[i][d] = open[j][d]
  BY <1>1 DEF IInv, StreamInv, Stacked
<1>14. \A i \in 1 .. (n + 1) : \A c, d \in DOMAIN open[i] : c < d => open[i][c] < open[i][d]
  BY <1>1 DEF IInv, StreamInv, Stacked
<1>15. Len(tokens') + 1 = n + 2 /\ \A i \in 1 .. (n + 2) : i \in 1 .. (n + 1) \/ i = n + 2
  BY <1>1, <1>2
<1>16. Stacked'
  <2>1. ASSUME NEW c \in DOMAIN OpenBehind(token), NEW d \in DOMAIN OpenBehind(token), c < d
        PROVE  OpenBehind(token)[c] < OpenBehind(token)[d]
    <3>1. DOMAIN OpenBehind(token) \subseteq Int /\ DOMAIN Open = 1 .. Len(Open) /\ Len(Open) \in Nat
      BY <1>1, <1>5
    <3>2. c # Len(Open) + 1
      BY <1>11, <2>1, <3>1
    <3>3. c \in DOMAIN Open /\ OpenBehind(token)[c] = Open[c]
      BY <1>11, <3>2
    <3>4. CASE d = Len(Open) + 1 /\ OpenBehind(token)[d] = n + 1
      BY <1>1, <1>12, <3>3, <3>4
    <3>5. CASE d \in DOMAIN Open /\ OpenBehind(token)[d] = Open[d]
      <4>1. n + 1 \in 1 .. (n + 1)
        BY <1>1
      <4>2. Open[c] < Open[d]
        BY <1>1, <1>14, <2>1, <3>3, <3>5, <4>1
      <4> QED  BY <3>3, <3>5, <4>2
    <3> QED  BY <1>11, <3>4, <3>5
  <2>2. ASSUME NEW i \in 1 .. (n + 2), NEW d \in DOMAIN OpenBehind(token),
               OpenBehind(token)[d] < i
        PROVE  d \in DOMAIN open'[i] /\ open'[i][d] = OpenBehind(token)[d]
    <3>1. CASE i = n + 2
      BY <1>6, <3>1
    <3>2. CASE i \in 1 .. (n + 1)
      <4>1. d \in DOMAIN Open /\ OpenBehind(token)[d] = Open[d]
        BY <1>1, <1>11, <2>2, <3>2
      <4>2. n + 1 \in 1 .. (n + 1) /\ i <= n + 1
        BY <1>1, <3>2
      <4>3. d \in DOMAIN open[i] /\ open[i][d] = Open[d]
        BY <1>1, <1>13, <2>2, <3>2, <4>1, <4>2
      <4> QED  BY <1>6, <3>2, <4>1, <4>3
    <3> QED  BY <1>15, <3>1, <3>2
  <2>3. ASSUME NEW i \in 1 .. (n + 2), NEW c \in DOMAIN open'[i], NEW d \in DOMAIN open'[i], c < d
        PROVE  open'[i][c] < open'[i][d]
    <3>1. CASE i = n + 2
      BY <1>6, <2>1, <2>3, <3>1
    <3>2. CASE i \in 1 .. (n + 1)
      <4>1. open'[i] = open[i]
        BY <1>6, <3>2
      <4> QED  BY <1>14, <2>3, <3>2, <4>1
    <3> QED  BY <1>15, <3>1, <3>2
  <2>4. ASSUME NEW i \in 1 .. (n + 2), NEW j \in 1 .. (n + 2), NEW d \in DOMAIN open'[j],
               i <= j, open'[j][d] < i
        PROVE  d \in DOMAIN open'[i] /\ open'[i][d] = open'[j][d]
    <3>1. CASE j = n + 2
      BY <1>6, <2>2, <2>4, <3>1
    <3>2. CASE j \in 1 .. (n + 1)
      <4>1. i \in 1 .. (n + 1)
        BY <1>1, <2>4, <3>2
      <4>2. open'[i] = open[i] /\ open'[j] = open[j]
        BY <1>6, <3>2, <4>1
      <4> QED  BY <1>13, <2>4, <3>2, <4>1, <4>2
    <3> QED  BY <1>15, <3>1, <3>2
  <2> QED  BY <1>15, <2>3, <2>4 DEF Stacked
<1>17. TextIsInside'
  <2> SUFFICES ASSUME NEW i \in 1 .. (n + 1), tokens'[i].type = "text"
               PROVE  open'[i] # <<>>
    BY <1>2 DEF TextIsInside
  <2>1. CASE i = n + 1
    <3>1. Open # <<>>
      BY <1>2, <2>1 DEF Feed
    <3> QED  BY <1>1, <1>6, <2>1, <3>1
  <2>2. CASE i \in 1 .. n
    BY <1>1, <1>2, <1>6, <2>2 DEF IInv, StreamInv, TextIsInside
  <2> QED  BY <1>1, <2>1, <2>2
<1> QED  BY <1>7, <1>8, <1>9, <1>10, <1>16, <1>17 DEF StreamInv

LEMMA StreamStays ==
    ASSUME StreamInv, tokens' = tokens, open' = open
    PROVE  StreamInv'
<1>1. StreamTyped'
  BY DEF StreamInv, StreamTyped
<1>2. Nested'
  BY DEF StreamInv, Nested, IsTag
<1>3. StartsAreOpen'
  BY DEF StreamInv, StartsAreOpen
<1>4. OneRoot'
  BY DEF StreamInv, OneRoot
<1>5. Stacked' /\ TextIsInside'
  BY DEF StreamInv, Stacked, TextIsInside
<1> QED  BY <1>1, <1>2, <1>3, <1>4, <1>5 DEF StreamInv

-----------------------------------------------------------------------------
(* The builder *)

LEMMA TokenTypes ==
    ASSUME IInv, NEW i \in 1 .. Len(tokens)
    PROVE  tokens[i].type \in {"start", "end", "text", "comment"}
<1>1. tokens[i] \in Tokens
  BY DEF IInv, StreamInv, StreamTyped
<1> QED  BY <1>1 DEF Tokens

\* The next markup, and that only text is in front of it.
LEMMA NextMarkup ==
    ASSUME IInv, Unread # {}
    PROVE  LET i == Min(Unread) IN
           /\ i \in (read + 1) .. Len(tokens)
           /\ tokens[i].type \in {"start", "end", "comment"}
           /\ \A k \in (read + 1) .. (i - 1) : tokens[k].type = "text"
           /\ open[i] = open[read + 1]
<1>1. Unread \in SUBSET Nat /\ read \in Nat /\ Len(tokens) \in Nat
  BY DEF Unread, IInv, BuilderTyped, StreamInv, StreamTyped
<1>2. PICK n \in Unread : \A m \in Unread : ~(<<m, n>> \in OpToRel(<, Nat))
  BY <1>1, WFMin, NatLessThanWellFounded
<1>3. ASSUME NEW m \in Unread PROVE n <= m
  <2>1. n \in Nat /\ m \in Nat
    BY <1>1
  <2>2. m < n => <<m, n>> \in OpToRel(<, Nat)
    BY <2>1 DEF OpToRel
  <2>3. ~(m < n)
    BY <1>2, <2>2, Zenon
  <2> QED  BY <2>1, <2>3
<1> DEFINE i == Min(Unread)
<1>4. i \in Unread /\ \A m \in Unread : i <= m
  BY <1>3 DEF Min
<1> HIDE DEF i
<1>5. i \in (read + 1) .. Len(tokens) /\ tokens[i].type \in {"start", "end", "comment"}
  BY <1>4 DEF Unread, IsMarkup
<1>6. ASSUME NEW k \in (read + 1) .. (i - 1)
      PROVE  tokens[k].type = "text"
  <2>1. k \in (read + 1) .. Len(tokens) /\ k \in 1 .. Len(tokens) /\ k < i
    BY <1>1, <1>5
  <2>2. ~IsMarkup(k)
    BY <1>1, <1>4, <2>1 DEF Unread
  <2> QED  BY <2>1, <2>2, TokenTypes DEF IsMarkup
<1>7. open[i] = open[read + 1]
  <2>1. \A k \in (read + 1) .. (i - 1) : ~IsTag(k)
    BY <1>6 DEF IsTag
  <2>2. read + 1 \in 1 .. Len(tokens) + 1 /\ i \in 1 .. Len(tokens) + 1 /\ read + 1 <= i
    BY <1>1, <1>5
  <2> QED  BY <2>1, <2>2 DEF IInv, StreamInv, Nested
<1> QED  BY <1>5, <1>6, <1>7 DEF i

\* Identifiers are read with start tags only.
LEMMA IdsReadNext ==
    ASSUME IInv, NEW i \in (read + 1) .. Len(tokens),
           \A k \in (read + 1) .. (i - 1) : tokens[k].type = "text",
           read' = i, tokens' = tokens
    PROVE  /\ IdsRead' = IdsRead \cup (IF tokens[i].type = "start" /\ Has(AttributesOf(tokens[i].element), XmlId)
                                      THEN {i} ELSE {})
           /\ IdsRead \subseteq 1 .. read
           /\ \A k \in 1 .. i : tokens[k].type = "start" => k \in 1 .. read \/ k = i
<1>1. read \in Nat /\ Len(tokens) \in Nat
  BY DEF IInv, BuilderTyped, StreamInv, StreamTyped
<1>2. \A k \in 1 .. i : k \in 1 .. read \/ k \in (read + 1) .. (i - 1) \/ k = i
  BY <1>1
<1>3. \A k \in 1 .. i : tokens[k].type = "start" => k \in 1 .. read \/ k = i
  BY <1>2
<1>4. 1 .. read \subseteq 1 .. i /\ i \in 1 .. i
  BY <1>1
<1>5. IdsRead' = {k \in 1 .. i : tokens[k].type = "start" /\ Has(AttributesOf(tokens[k].element), XmlId)}
  BY DEF IdsRead, AttributesOf, QualifiedName, Has, XmlId
<1> QED  BY <1>3, <1>4, <1>5 DEF IdsRead

\* The builder's tags are open in front of the next markup.
LEMMA TagsAreOpen ==
    ASSUME IInv, outcome = "ok"
    PROVE  /\ started_tags = [k \in DOMAIN open[read + 1] |-> tokens[open[read + 1][k]].element]
           /\ open[read + 1] \in Seq(Nat)
           /\ Len(started_tags) = Len(open[read + 1])
           /\ Len(children) = Len(started_tags) /\ Len(preserve_space) = Len(started_tags)
           /\ started_tags = <<>> <=> open[read + 1] = <<>>
<1>1. /\ started_tags = [k \in DOMAIN open[read + 1] |-> tokens[open[read + 1][k]].element]
      /\ Len(children) = Len(started_tags) /\ Len(preserve_space) = Len(started_tags)
      /\ IsSeq(started_tags)
  BY DEF IInv, StacksInStep, BuilderTyped
<1> DEFINE s == open[read + 1]
<1>2. s \in Seq(Nat)
  BY DEF IInv, BuilderTyped, StreamInv, StreamTyped
<1>3. DOMAIN started_tags = DOMAIN s /\ DOMAIN s = 1 .. Len(s) /\ Len(s) \in Nat
  BY <1>1, <1>2
<1>4. DOMAIN started_tags = 1 .. Len(started_tags) /\ Len(started_tags) \in Nat
      /\ (Len(started_tags) = 0 <=> started_tags = <<>>)
  BY <1>1, Lengths
<1>5. Len(started_tags) = Len(s)
  BY <1>3, <1>4
<1>6. Len(s) = 0 <=> s = <<>>
  BY <1>2
<1> QED  BY <1>1, <1>2, <1>4, <1>5, <1>6

\* A text is put on the innermost list, hence no list is added or taken off.
LEMMA WithTextKeepsLength ==
    ASSUME IInv, NEW text
    PROVE  IsSeq(WithText(text)) /\ Len(WithText(text)) = Len(children)
<1>1. IsSeq(children)
  BY DEF IInv, BuilderTyped
<1>2. \A e : IsSeq([children EXCEPT ![Len(children)] = e]) /\ Len([children EXCEPT ![Len(children)] = e]) = Len(children)
  BY <1>1, LastChanged
<1>3. \/ WithText(text) = children
      \/ \E e : WithText(text) = [children EXCEPT ![Len(children)] = e]
  BY DEF WithText
<1> QED  BY <1>1, <1>2, <1>3

LEMMA HandledKeepsLists ==
    ASSUME NEW lists, IsSeq(lists), NEW tags, NEW node, Handled(lists, tags, node)
    PROVE  IsSeq(children') /\ Len(children') = Len(lists)
<1>1. \A e : IsSeq([lists EXCEPT ![Len(lists)] = e]) /\ Len([lists EXCEPT ![Len(lists)] = e]) = Len(lists)
  BY LastChanged
<1>2. \/ children' = lists
      \/ \E e : children' = [lists EXCEPT ![Len(lists)] = e]
  BY DEF Handled
<1> QED  BY <1>1, <1>2

\* What IdsKnown amounts to before an event.
LEMMA IdsBeforeEvent ==
    ASSUME IInv, outcome = "ok"
    PROVE  /\ ~IdUsedTwice
           /\ \/ xml_ids = {Id(j) : j \in IdsRead}
              \/ started_tags = <<>> /\ \E h \in 1 .. read : tokens[h].type = "start"
  BY DEF IInv, IdsKnown

LEMMA CommentKeepsIInv ==
    ASSUME IInv, outcome = "ok", NEW i \in (read + 1) .. Len(tokens), NEW text,
           \A k \in (read + 1) .. (i - 1) : tokens[k].type = "text",
           open[i] = open[read + 1],
           tokens[i].type = "comment", HandleComment(text),
           read' = i, UNCHANGED stream
    PROVE  IInv'
<1>1. /\ tokens' = tokens /\ open' = open /\ started_tags' = started_tags
      /\ preserve_space' = preserve_space /\ outcome' = "ok"
      /\ Handled(WithText(text), started_tags, [kind |-> "comment"])
  BY DEF HandleComment, stream
<1>2. read \in Nat /\ Len(tokens) \in Nat /\ i \in 1 .. Len(tokens)
  BY DEF IInv, BuilderTyped, StreamInv, StreamTyped
<1>3. StreamInv'
  BY <1>1, StreamStays DEF IInv
<1>4. IsSeq(children') /\ Len(children') = Len(children)
  BY <1>1, WithTextKeepsLength, HandledKeepsLists
<1>5. BuilderTyped'
  BY <1>1, <1>2, <1>4 DEF IInv, BuilderTyped
<1>6. open[i + 1] = open[read + 1]
  <2>1. \A k \in i .. ((i + 1) - 1) : ~IsTag(k)
    <3>1. \A k \in i .. ((i + 1) - 1) : k = i
      BY <1>2
    <3> QED  BY <3>1 DEF IsTag
  <2>2. i \in 1 .. Len(tokens) + 1 /\ i + 1 \in 1 .. Len(tokens) + 1 /\ i <= i + 1
    BY <1>2
  <2> QED  BY <2>1, <2>2 DEF IInv, StreamInv, Nested
<1>7. StacksInStep'
  BY <1>1, <1>4, <1>6, TagsAreOpen DEF StacksInStep
<1>8. IdsRead' = IdsRead /\ \A k \in 1 .. i : tokens[k].type = "start" => k \in 1 .. read
  BY <1>1, IdsReadNext
<1>9. IdUsedTwice' <=> IdUsedTwice
  BY <1>1, <1>8 DEF IdUsedTwice, Id, AttributesOf, QualifiedName
<1>10. {Id(j) : j \in IdsRead}' = {Id(j) : j \in IdsRead}
  BY <1>1, <1>8 DEF Id, AttributesOf, QualifiedName
<1>11. IdsKnown'
  <2> SUFFICES ASSUME started_tags # <<>> \/ \A k \in 1 .. i : tokens[k].type # "start"
               PROVE  xml_ids' = {Id(j) : j \in IdsRead}
    BY <1>1, <1>9, <1>10, IdsBeforeEvent DEF IdsKnown
  <2>1. CASE started_tags # <<>>
    <3>1. xml_ids' = xml_ids
      BY <1>1, <2>1 DEF Handled, IdsBehind
    <3> QED  BY <2>1, <3>1, IdsBeforeEvent
  <2>2. CASE started_tags = <<>> /\ \A k \in 1 .. i : tokens[k].type # "start"
    <3>1. IdsRead = {}
      <4>1. 1 .. read \subseteq 1 .. i
        BY <1>2
      <4> QED  BY <2>2, <4>1 DEF IdsRead
    <3>2. xml_ids' = {}
      BY <1>1, <2>2 DEF Handled, IdsBehind
    <3> QED  BY <3>1, <3>2
  <2> QED  BY <2>1, <2>2
<1> QED  BY <1>3, <1>5, <1>7, <1>11 DEF IInv

LEMMA StartKeepsIInv ==
    ASSUME IInv, outcome = "ok", NEW i \in (read + 1) .. Len(tokens), NEW text,
           \A k \in (read + 1) .. (i - 1) : tokens[k].type = "text",
           open[i] = open[read + 1],
           tokens[i].type = "start", HandleTagStart(text, tokens[i].element),
           read' = i, UNCHANGED stream
    PROVE  IInv'
<1> DEFINE attributes == AttributesOf(tokens[i].element)
           hasId == Has(attributes, XmlId)
<1>1. tokens' = tokens /\ open' = open
  BY DEF stream
<1>2. read \in Nat /\ Len(tokens) \in Nat /\ i \in 1 .. Len(tokens) /\ read < i
  BY DEF IInv, BuilderTyped, StreamInv, StreamTyped
<1>3. StreamInv'
  BY <1>1, StreamStays DEF IInv
<1>4. /\ IdsRead' = IdsRead \cup (IF hasId THEN {i} ELSE {})
      /\ IdsRead \subseteq 1 .. read
  BY <1>1, IdsReadNext
<1>5. \A j : Id(j)' = Id(j)
  BY <1>1 DEF Id, AttributesOf, QualifiedName
<1>6. Id(i) = attributes[XmlId]
  BY DEF Id
<1>7. xml_ids = {Id(j) : j \in IdsRead} /\ ~IdUsedTwice
  <2>1. SUFFICES ASSUME started_tags = <<>>, NEW h \in 1 .. read, tokens[h].type = "start"
                 PROVE  FALSE
    BY IdsBeforeEvent
  <2>2. open[i] = <<>>
    BY <2>1, TagsAreOpen
  <2>3. i \in 1 .. Len(tokens) + 1 /\ h \in 1 .. (i - 1) /\ i \in i .. Len(tokens)
    BY <1>2
  <2>4. tokens[i].type = "comment"
    BY <2>1, <2>2, <2>3 DEF IInv, StreamInv, OneRoot
  <2> QED  BY <2>4
<1>8. i \notin IdsRead
  BY <1>2, <1>4
<1>9. IsSeq(children) /\ IsSeq(started_tags) /\ IsSeq(preserve_space)
  BY DEF IInv, BuilderTyped
<1>10. IsSeq(WithText(text)) /\ Len(WithText(text)) = Len(children)
  BY WithTextKeepsLength
<1> HIDE DEF attributes, hasId
<1>11. CASE hasId /\ attributes[XmlId] \in xml_ids
  <2>1. /\ outcome' = "ParsingValidityError" /\ children' = WithText(text)
        /\ started_tags' = started_tags /\ preserve_space' = preserve_space
    BY <1>11 DEF HandleTagStart, attributes, hasId
  <2>2. PICK j \in IdsRead : Id(j) = Id(i)
    BY <1>6, <1>7, <1>11
  <2>3. j \in IdsRead' /\ i \in IdsRead' /\ j # i /\ Id(j)' = Id(i)'
    BY <1>4, <1>5, <1>8, <1>11, <2>2
  <2>4. IdUsedTwice'
    BY <2>3 DEF IdUsedTwice
  <2>5. IdsKnown'
    BY <2>1, <2>4 DEF IdsKnown
  <2>6. BuilderTyped'
    BY <1>1, <1>2, <1>9, <1>10, <2>1 DEF BuilderTyped
  <2>7. StacksInStep'
    BY <2>1 DEF StacksInStep
  <2> QED  BY <1>3, <2>5, <2>6, <2>7 DEF IInv
<1>12. CASE ~(hasId /\ attributes[XmlId] \in xml_ids)
  <2>1. /\ xml_ids' = xml_ids \cup (IF hasId THEN {attributes[XmlId]} ELSE {})
        /\ children' = Append(WithText(text), <<>>)
        /\ started_tags' = Append(started_tags, tokens[i].element)
        /\ preserve_space' = Append(preserve_space, Preserves(attributes))
        /\ outcome' = outcome
    BY <1>12 DEF HandleTagStart, attributes, hasId
  <2>2. /\ IsSeq(children') /\ Len(children') = Len(children) + 1
        /\ IsSeq(started_tags') /\ Len(started_tags') = Len(started_tags) + 1
        /\ started_tags'[Len(started_tags) + 1] = tokens[i].element
        /\ \A k \in 1 .. Len(started_tags) : started_tags'[k] = started_tags[k]
        /\ IsSeq(preserve_space') /\ Len(preserve_space') = Len(preserve_space) + 1
    <3>1. IsSeq(children') /\ Len(children') = Len(children) + 1
      BY <1>10, <2>1, Appended
    <3>2. IsSeq(preserve_space') /\ Len(preserve_space') = Len(preserve_space) + 1
      BY <1>9, <2>1, Appended
    <3>3. /\ IsSeq(started_tags') /\ Len(started_tags') = Len(started_tags) + 1
          /\ started_tags'[Len(started_tags) + 1] = tokens[i].element
          /\ \A k \in 1 .. Len(started_tags) : started_tags'[k] = started_tags[k]
      BY <1>9, <2>1, Appended
    <3> QED  BY <3>1, <3>2, <3>3
  <2>3. BuilderTyped'
    BY <1>1, <1>2, <2>1, <2>2 DEF BuilderTyped, IInv
  <2>4. StacksInStep'
    <3> DEFINE s == open[read + 1]
               t == open[i + 1]
    <3>1. /\ started_tags = [k \in DOMAIN s |-> tokens[s[k]].element] /\ s \in Seq(Nat)
          /\ Len(started_tags) = Len(s)
          /\ Len(children) = Len(started_tags) /\ Len(preserve_space) = Len(started_tags)
      BY TagsAreOpen
    <3>2. t = Append(s, i)
      BY <1>2 DEF IInv, StreamInv, Nested
    <3> HIDE DEF s, t
    <3>3. /\ Len(t) = Len(s) + 1 /\ t[Len(s) + 1] = i /\ DOMAIN t = 1 .. (Len(s) + 1)
          /\ \A k \in 1 .. Len(s) : t[k] = s[k]
          /\ Len(s) \in Nat /\ DOMAIN s = 1 .. Len(s)
      BY <1>2, <3>1, <3>2
    <3>4. \A k \in 1 .. (Len(s) + 1) : started_tags'[k] = tokens[t[k]].element
      <4>1. \A k \in 1 .. (Len(s) + 1) : k \in 1 .. Len(s) \/ k = Len(s) + 1
        BY <3>3
      <4>2. \A k \in 1 .. Len(s) : started_tags'[k] = tokens[s[k]].element
        BY <2>2, <3>1, <3>3
      <4> QED  BY <2>2, <3>1, <3>3, <4>1, <4>2
    <3>5. started_tags' = [k \in DOMAIN t |-> tokens[t[k]].element]
      <4>1. started_tags' \in Seq({started_tags'[k] : k \in DOMAIN started_tags'})
        BY <2>2 DEF IsSeq
      <4>2. started_tags' = [k \in 1 .. (Len(s) + 1) |-> started_tags'[k]]
        BY <2>2, <3>1, <3>3, <4>1
      <4> QED  BY <3>3, <3>4, <4>2
    <3>6. (open[read + 1])' = t
      BY <1>1 DEF t
    <3> QED  BY <1>1, <2>2, <3>1, <3>5, <3>6 DEF StacksInStep
  <2>5. xml_ids' = {Id(j) : j \in IdsRead}'
    BY <1>4, <1>5, <1>6, <1>7, <2>1
  <2>6. ~IdUsedTwice'
    <3> SUFFICES ASSUME NEW j \in IdsRead', NEW k \in IdsRead', j # k, Id(j)' = Id(k)'
                 PROVE  FALSE
      BY DEF IdUsedTwice
    <3>1. Id(j) = Id(k)
      BY <1>5
    <3> QED  BY <1>4, <1>6, <1>7, <1>12, <3>1 DEF IdUsedTwice
  <2>7. IdsKnown'
    BY <2>1, <2>5, <2>6 DEF IdsKnown
  <2> QED  BY <1>3, <2>3, <2>4, <2>7 DEF IInv
<1> QED  BY <1>11, <1>12

LEMMA EndKeepsIInv ==
    ASSUME IInv, outcome = "ok", NEW i \in (read + 1) .. Len(tokens), NEW text,
           \A k \in (read + 1) .. (i - 1) : tokens[k].type = "text",
           open[i] = open[read + 1],
           tokens[i].type = "end", HandleTagEnd(text),
           read' = i, UNCHANGED stream
    PROVE  IInv'
<1> DEFINE s == open[read + 1]
           t == open[i + 1]
           lists == WithText(text)
<1>1. tokens' = tokens /\ open' = open
  BY DEF stream
<1>2. read \in Nat /\ Len(tokens) \in Nat /\ i \in 1 .. Len(tokens) /\ read < i
  BY DEF IInv, BuilderTyped, StreamInv, StreamTyped
<1>3. StreamInv'
  BY <1>1, StreamStays DEF IInv
<1>4. /\ started_tags = [k \in DOMAIN s |-> tokens[s[k]].element] /\ s \in Seq(Nat)
      /\ Len(started_tags) = Len(s)
      /\ Len(children) = Len(started_tags) /\ Len(preserve_space) = Len(started_tags)
      /\ started_tags = <<>> <=> s = <<>>
  BY TagsAreOpen
<1>5. s # <<>> /\ t = Front(s)
  BY <1>2 DEF IInv, StreamInv, Nested
<1>6. IsSeq(children) /\ IsSeq(started_tags) /\ IsSeq(preserve_space)
  BY DEF IInv, BuilderTyped
<1>7. IsSeq(lists) /\ Len(lists) = Len(children)
  BY WithTextKeepsLength
<1> HIDE DEF lists, s, t
<1>8. /\ started_tags' = Front(started_tags) /\ preserve_space' = Front(preserve_space)
      /\ outcome' = outcome
      /\ \E node : Handled(Front(lists), started_tags', node)
  BY DEF HandleTagEnd, SpaceBehindEnd, lists
<1>9. Len(s) \in Nat \ {0} /\ DOMAIN s = 1 .. Len(s)
  BY <1>4, <1>5
<1>10. lists # <<>> /\ started_tags # <<>> /\ preserve_space # <<>>
  BY <1>4, <1>6, <1>7, <1>9, Lengths
<1>11. IsSeq(children') /\ Len(children') = Len(s) - 1
  <2>1. IsSeq(Front(lists)) /\ Len(Front(lists)) = Len(s) - 1
    BY <1>4, <1>7, <1>10, LastOff
  <2> QED  BY <1>8, <2>1, HandledKeepsLists
<1>12. IsSeq(preserve_space') /\ Len(preserve_space') = Len(s) - 1
  BY <1>4, <1>6, <1>8, <1>10, LastOff
<1>13. /\ IsSeq(started_tags') /\ Len(started_tags') = Len(s) - 1
       /\ \A k \in 1 .. (Len(s) - 1) : started_tags'[k] = started_tags[k]
  BY <1>4, <1>6, <1>8, <1>10, LastOff
<1>14. BuilderTyped'
  BY <1>1, <1>2, <1>8, <1>11, <1>12, <1>13 DEF BuilderTyped, IInv
<1>15. StacksInStep'
  <2>1. /\ Len(t) = Len(s) - 1 /\ DOMAIN t = 1 .. (Len(s) - 1)
        /\ \A k \in 1 .. (Len(s) - 1) : t[k] = s[k]
    BY <1>4, <1>5, <1>9 DEF Front
  <2>2. \A k \in 1 .. (Len(s) - 1) : k \in DOMAIN s
    BY <1>9
  <2>3. \A k \in 1 .. (Len(s) - 1) : started_tags'[k] = tokens[t[k]].element
    BY <1>4, <1>13, <2>1, <2>2
  <2>4. started_tags' = [k \in 1 .. (Len(s) - 1) |-> started_tags'[k]]
    <3>1. started_tags' \in Seq({started_tags'[k] : k \in DOMAIN started_tags'})
      BY <1>13 DEF IsSeq
    <3> QED  BY <1>13, <3>1
  <2>5. started_tags' = [k \in DOMAIN t |-> tokens[t[k]].element]
    BY <2>1, <2>3, <2>4
  <2>6. (open[read + 1])' = t
    BY <1>1 DEF t
  <2> QED  BY <1>1, <1>11, <1>12, <1>13, <2>5, <2>6 DEF StacksInStep
<1>16. IdsRead' = IdsRead
  BY <1>1, IdsReadNext
<1>17. \A j : Id(j)' = Id(j)
  BY <1>1 DEF Id, AttributesOf, QualifiedName
<1>18. IdUsedTwice' <=> IdUsedTwice
  BY <1>16, <1>17 DEF IdUsedTwice
<1>19. \E h \in 1 .. i : tokens[h].type = "start"
  <2>1. 1 \in DOMAIN s /\ read + 1 \in 1 .. Len(tokens) + 1
    BY <1>2, <1>9
  <2>2. s[1] \in 1 .. ((read + 1) - 1) /\ tokens[s[1]].type = "start"
    BY <2>1 DEF IInv, StreamInv, StartsAreOpen, s
  <2>3. s[1] \in 1 .. i
    BY <1>2, <2>2
  <2> QED  BY <2>2, <2>3
<1>20. xml_ids = {Id(j) : j \in IdsRead}
  BY <1>10, IdsBeforeEvent
<1>21. IdsKnown'
  <2> SUFFICES ASSUME started_tags' # <<>> PROVE xml_ids' = {Id(j) : j \in IdsRead}'
    BY <1>1, <1>8, <1>18, <1>19, IdsBeforeEvent DEF IdsKnown
  <2>1. xml_ids' = xml_ids
    BY <1>8 DEF Handled, IdsBehind
  <2> QED  BY <1>16, <1>17, <1>20, <2>1
<1> QED  BY <1>3, <1>14, <1>15, <1>21 DEF IInv

LEMMA EmitKeepsIInv ==
    ASSUME IInv, Emit
    PROVE  IInv'
<1> DEFINE i == Min(Unread)
           text == PrecedingText(i)
<1>1. /\ i \in (read + 1) .. Len(tokens)
      /\ tokens[i].type \in {"start", "end", "comment"}
      /\ \A k \in (read + 1) .. (i - 1) : tokens[k].type = "text"
      /\ open[i] = open[read + 1]
  BY NextMarkup DEF Emit
<1>2. /\ outcome = "ok" /\ read' = i /\ UNCHANGED stream
      /\ CASE tokens[i].type = "comment" -> HandleComment(text)
           [] tokens[i].type = "start" -> HandleTagStart(text, tokens[i].element)
           [] tokens[i].type = "end" -> HandleTagEnd(text)
  BY DEF Emit
<1> HIDE DEF i, text
<1>3. CASE tokens[i].type = "comment"
  <2>1. HandleComment(text)
    BY <1>2, <1>3
  <2> QED  BY <1>1, <1>2, <1>3, <2>1, CommentKeepsIInv
<1>4. CASE tokens[i].type = "start"
  <2>1. HandleTagStart(text, tokens[i].element)
    BY <1>2, <1>4
  <2> QED  BY <1>1, <1>2, <1>4, <2>1, StartKeepsIInv
<1>5. CASE tokens[i].type = "end"
  <2>1. HandleTagEnd(text)
    BY <1>2, <1>5
  <2> QED  BY <1>1, <1>2, <1>5, <2>1, EndKeepsIInv
<1> QED  BY <1>1, <1>3, <1>4, <1>5

LEMMA DrainKeepsIInv ==
    ASSUME IInv, Drain
    PROVE  IInv'
<1>1. /\ tokens' = tokens /\ open' = open /\ started_tags' = started_tags
      /\ preserve_space' = preserve_space /\ children' = children /\ xml_ids' = xml_ids
      /\ outcome' = outcome /\ outcome = "ok" /\ read' = Len(tokens) /\ Unread = {}
  BY DEF Drain, stream, builder
<1>2. read \in 0 .. Len(tokens) /\ Len(tokens) \in Nat
  BY DEF IInv, BuilderTyped, StreamInv, StreamTyped
<1>3. StreamInv'
  BY <1>1, StreamStays DEF IInv
<1>4. BuilderTyped'
  BY <1>1, <1>2 DEF BuilderTyped, IInv
<1>5. \A k \in (read + 1) .. Len(tokens) : tokens[k].type = "text"
  <2> SUFFICES ASSUME NEW k \in (read + 1) .. Len(tokens) PROVE tokens[k].type = "text"
    OBVIOUS
  <2>1. k \in 1 .. Len(tokens) /\ ~IsMarkup(k)
    BY <1>1, <1>2 DEF Unread
  <2> QED  BY <2>1, TokenTypes DEF IsMarkup
<1>6. open[Len(tokens) + 1] = open[read + 1]
  <2>1. \A k \in (read + 1) .. ((Len(tokens) + 1) - 1) : ~IsTag(k)
    BY <1>2, <1>5 DEF IsTag
  <2>2. /\ read + 1 \in 1 .. Len(tokens) + 1 /\ Len(tokens) + 1 \in 1 .. Len(tokens) + 1
        /\ read + 1 <= Len(tokens) + 1
    BY <1>2
  <2> QED  BY <2>1, <2>2 DEF IInv, StreamInv, Nested
<1>7. StacksInStep'
  BY <1>1, <1>6, TagsAreOpen DEF StacksInStep
<1>8. IdsRead' = IdsRead /\ \A k \in 1 .. read : k \in 1 .. Len(tokens)
  <2>1. \A k \in 1 .. Len(tokens) : k \in 1 .. read \/ k \in (read + 1) .. Len(tokens)
    BY <1>2
  <2>2. \A k \in 1 .. read : k \in 1 .. Len(tokens)
    BY <1>2
  <2>3. IdsRead' = {k \in 1 .. Len(tokens) : tokens[k].type = "start" /\ Has(AttributesOf(tokens[k].element), XmlId)}
    BY <1>1 DEF IdsRead, AttributesOf, QualifiedName, Has, XmlId
  <2> QED  BY <1>5, <2>1, <2>2, <2>3 DEF IdsRead
<1>9. \A j : Id(j)' = Id(j)
  BY <1>1 DEF Id, AttributesOf, QualifiedName
<1>10. IdsKnown'
  BY <1>1, <1>8, <1>9 DEF IdsKnown, IdUsedTwice, IInv
<1> QED  BY <1>3, <1>4, <1>7, <1>10 DEF IInv

LEMMA FeedKeepsIInv ==
    ASSUME IInv, NEW token \in Tokens, Feed(token)
    PROVE  IInv'
<1>1. /\ UNCHANGED <<read, builder>>
      /\ tokens' = Append(tokens, token)
  BY DEF Feed, adapter
<1>2. StreamInv'
  BY FeedKeepsStream
<1>3. /\ tokens \in Seq(Tokens) /\ Len(tokens) \in Nat /\ read \in 0 .. Len(tokens)
      /\ Len(tokens') = Len(tokens) + 1 /\ \A k \in 1 .. Len(tokens) : tokens'[k] = tokens[k]
  BY <1>1 DEF IInv, BuilderTyped, StreamInv, StreamTyped
<1>4. BuilderTyped'
  BY <1>1, <1>3 DEF BuilderTyped, IInv, builder
<1>5. read + 1 \in 1 .. Len(open) /\ open \in Seq(Seq(Nat)) /\ open' = Append(open, OpenBehind(token))
  BY <1>3 DEF Feed, IInv, StreamInv, StreamTyped
<1>6. open'[read + 1] = open[read + 1] /\ read' = read
  BY <1>1, <1>5
<1>7. \A d \in DOMAIN open[read + 1] : open[read + 1][d] \in 1 .. Len(tokens)
  <2>1. read + 1 \in 1 .. Len(tokens) + 1 /\ (read + 1) - 1 = read /\ read <= Len(tokens)
    BY <1>3
  <2>2. \A d \in DOMAIN open[read + 1] : open[read + 1][d] \in 1 .. read
    BY <2>1 DEF IInv, StreamInv, StartsAreOpen
  <2> QED  BY <1>3, <2>2
<1>8. StacksInStep'
  BY <1>1, <1>3, <1>6, <1>7 DEF StacksInStep, IInv, builder
<1>9. \A k \in 1 .. read : k \in 1 .. Len(tokens) /\ tokens'[k] = tokens[k]
  BY <1>3
<1>10. \A k \in 1 .. read : AttributesOf(tokens[k].element)' = AttributesOf(tokens[k].element)
  <2> TAKE k \in 1 .. read
  <2> DEFINE e == tokens[k].element
  <2>1. e' = e
    BY <1>9
  <2> HIDE DEF e
  <2>2. AttributesOf(e)' = AttributesOf(e)
    BY <2>1 DEF AttributesOf, QualifiedName
  <2> QED  BY <2>2 DEF e
<1>11. IdsRead' = IdsRead /\ IdsRead \subseteq 1 .. read
  <2>1. IdsRead' = {k \in 1 .. read :
                      tokens'[k].type = "start" /\ Has(AttributesOf(tokens[k].element)', XmlId)}
    BY <1>1 DEF IdsRead, Has, XmlId
  <2>2. IdsRead = {k \in 1 .. read :
                      tokens[k].type = "start" /\ Has(AttributesOf(tokens[k].element), XmlId)}
    BY DEF IdsRead
  <2> QED  BY <2>1, <2>2, <1>9, <1>10
<1>12. \A j \in 1 .. read : Id(j)' = Id(j)
  BY <1>10 DEF Id, XmlId
<1>13. IdUsedTwice' <=> IdUsedTwice
  BY <1>11, <1>12 DEF IdUsedTwice
<1>14. {Id(j) : j \in IdsRead}' = {Id(j) : j \in IdsRead}
  BY <1>11, <1>12
<1>15. IdsKnown'
  BY <1>1, <1>9, <1>13, <1>14 DEF IdsKnown, IInv, builder
<1> QED  BY <1>2, <1>4, <1>8, <1>15 DEF IInv

LEMMA InitIInv == Init => IInv
<1> SUFFICES ASSUME Init PROVE IInv
  OBVIOUS
<1>1. /\ tokens = <<>> /\ open = <<(<<>>)>> /\ read = 0 /\ children = <<>> /\ started_tags = <<>>
      /\ preserve_space = <<>> /\ xml_ids = {} /\ outcome = "ok"
  BY DEF Init
<1>2. /\ Len(tokens) = 0 /\ Len(open) = 1 /\ open[1] = <<>> /\ tokens \in Seq(Tokens)
      /\ open \in Seq(Seq(Nat)) /\ DOMAIN open[1] = {}
  BY <1>1
<1>3. StreamInv
  BY <1>2 DEF StreamInv, StreamTyped, Nested, StartsAreOpen, OneRoot, Stacked, TextIsInside
<1>4. BuilderTyped
  <2>1. IsSeq(<<>>)
    <3>1. <<>> \in Seq({})
      OBVIOUS
    <3> QED  BY <3>1, SeqIsSeq
  <2> QED  BY <1>1, <1>2, <2>1 DEF BuilderTyped
<1>5. StacksInStep
  BY <1>1, <1>2 DEF StacksInStep
<1>6. IdsRead = {}
  BY <1>1 DEF IdsRead
<1>7. IdsKnown
  BY <1>1, <1>6 DEF IdsKnown, IdUsedTwice
<1> QED  BY <1>3, <1>4, <1>5, <1>7 DEF IInv

LEMMA UnchangedKeepsIInv ==
    ASSUME IInv, tokens' = tokens, open' = open, read' = read, UNCHANGED builder
    PROVE  IInv'
<1>1. StreamInv'
  BY StreamStays DEF IInv
<1>2. BuilderTyped' /\ StacksInStep'
  BY DEF BuilderTyped, StacksInStep, IInv, builder
<1>3. IdsRead' = IdsRead /\ \A j : Id(j)' = Id(j)
  BY DEF IdsRead, Id, AttributesOf, QualifiedName, Has, XmlId
<1>4. IdsKnown'
  BY <1>3 DEF IdsKnown, IdUsedTwice, IInv, builder
<1> QED  BY <1>1, <1>2, <1>4 DEF IInv

LEMMA StepIInv == IInv /\ [Next]_vars => IInv'
<1> SUFFICES ASSUME IInv, [Next]_vars PROVE IInv'
  OBVIOUS
<1>1. CASE EndChunk \/ Close \/ UNCHANGED vars
  BY <1>1, UnchangedKeepsIInv DEF EndChunk, Close, vars, stream, adapter
<1> QED  BY <1>1, FeedKeepsIInv, EmitKeepsIInv, DrainKeepsIInv DEF Next

-----------------------------------------------------------------------------
(* The adapters *)

\* Of positions there is a first and a last one.
LEMMA FirstAndLast ==
    ASSUME NEW S \in SUBSET Nat, S # {}, NEW n \in Nat, \A x \in S : x <= n
    PROVE  /\ \E x \in S : \A y \in S : x <= y
           /\ \E x \in S : \A y \in S : y <= x
<1>1. ASSUME NEW T \in SUBSET Nat, T # {}
      PROVE  \E x \in T : \A y \in T : x <= y
  <2>1. PICK x \in T : \A y \in T : ~(<<y, x>> \in OpToRel(<, Nat))
    BY <1>1, WFMin, NatLessThanWellFounded
  <2>2. ASSUME NEW y \in T PROVE x <= y
    <3>1. x \in Nat /\ y \in Nat
      BY <1>1
    <3>2. y < x => <<y, x>> \in OpToRel(<, Nat)
      BY <3>1 DEF OpToRel
    <3>3. ~(y < x)
      BY <2>1, <3>2, Zenon
    <3> QED  BY <3>1, <3>3
  <2> QED  BY <2>2
<1> DEFINE U == {u \in Nat : \A x \in S : x <= u}
<1>2. PICK u \in U : \A v \in U : u <= v
  <2>1. U \in SUBSET Nat /\ n \in U
    OBVIOUS
  <2> QED  BY <1>1, <2>1
<1>3. u \in S
  <2> SUFFICES ASSUME u \notin S PROVE FALSE
    OBVIOUS
  <2>1. \A x \in S : x < u
    BY <1>2
  <2>2. u # 0
    <3>1. PICK x \in S : TRUE
      OBVIOUS
    <3>2. x \in Nat /\ x < u
      BY <2>1, <3>1
    <3> QED  BY <3>2
  <2>3. u - 1 \in U
    BY <1>2, <2>1, <2>2
  <2> QED  BY <1>2, <2>3
<1>4. \E x \in S : \A y \in S : y <= x
  BY <1>2, <1>3
<1> QED  BY <1>1, <1>4

\* What is below an open tag on the stack was there when the tag was started.
LEMMA OpenedOn ==
    ASSUME StreamInv, NEW i \in 1 .. Len(tokens) + 1, NEW d \in DOMAIN open[i]
    PROVE  LET s == open[i][d] IN
           /\ s \in 1 .. (i - 1) /\ tokens[s].type = "start"
           /\ open[s + 1] = Append(open[s], s)
           /\ Len(open[s]) = d - 1
           /\ \A k \in 1 .. (d - 1) : open[s][k] = open[i][k]
<1> DEFINE s == open[i][d]
<1>1. s \in 1 .. (i - 1) /\ tokens[s].type = "start"
  BY DEF StreamInv, StartsAreOpen
<1>2. Len(tokens) \in Nat
  BY StreamTypes
<1>3. s \in 1 .. Len(tokens) /\ s \in 1 .. Len(tokens) + 1 /\ s + 1 \in 1 .. Len(tokens) + 1
  BY <1>1, <1>2
<1>4. open[s] \in Seq(Nat) /\ open[s + 1] \in Seq(Nat) /\ open[i] \in Seq(Nat) /\ s \in Nat
  BY <1>3, StreamTypes
<1>5. open[s + 1] = Append(open[s], s)
  BY <1>1, <1>3 DEF StreamInv, Nested
<1>6. /\ DOMAIN open[s] = 1 .. Len(open[s]) /\ Len(open[s]) \in Nat
      /\ DOMAIN open[s + 1] = 1 .. Len(open[s]) + 1
      /\ \A k \in DOMAIN open[s] : open[s + 1][k] = open[s][k]
  <2> DEFINE u == open[s]
  <2>1. u \in Seq(Nat) /\ s \in Nat /\ open[s + 1] = Append(u, s)
    BY <1>4, <1>5
  <2> HIDE DEF u, s
  <2>2. /\ DOMAIN u = 1 .. Len(u) /\ Len(u) \in Nat
        /\ DOMAIN Append(u, s) = 1 .. Len(u) + 1
        /\ \A k \in DOMAIN u : Append(u, s)[k] = u[k]
    BY <2>1, OneMore
  <2> QED  BY <2>1, <2>2 DEF u
<1> HIDE DEF s
<1>7. d \in DOMAIN open[s + 1] /\ open[s + 1][d] = s
  <2>1. s + 1 <= i /\ s < s + 1
    BY <1>1
  <2> QED  BY <1>3, <2>1 DEF StreamInv, Stacked, s
<1>8. \A k \in DOMAIN open[s] : open[s][k] < s
  BY <1>3 DEF StreamInv, StartsAreOpen
<1>9. d \notin DOMAIN open[s]
  <2> SUFFICES ASSUME d \in DOMAIN open[s] PROVE FALSE
    OBVIOUS
  <2>1. open[s][d] = s /\ open[s][d] < s
    BY <1>7, <1>8, <1>6
  <2> QED  BY <1>4, <2>1
<1>10. Len(open[s]) = d - 1 /\ d \in Nat
  BY <1>7, <1>9, <1>6
<1>11. ASSUME NEW k \in 1 .. (d - 1)
       PROVE  open[s][k] = open[i][k]
  <2>1. k \in DOMAIN open[i] /\ k < d
    <3>1. DOMAIN open[i] = 1 .. Len(open[i]) /\ Len(open[i]) \in Nat
      BY <1>4
    <3> QED  BY <1>10, <3>1
  <2>2. open[i][k] < s
    BY <2>1 DEF StreamInv, Stacked, s
  <2>3. s <= i
    BY <1>1, <1>3
  <2> QED  BY <1>3, <2>1, <2>2, <2>3 DEF StreamInv, Stacked
<1> QED  BY <1>1, <1>5, <1>10, <1>11 DEF s

\* The innermost open tag tells all of them.
LEMMA InnermostTellsAll ==
    ASSUME StreamInv, NEW i \in 1 .. Len(tokens) + 1, open[i] # <<>>
    PROVE  /\ Last(open[i]) \in 1 .. (i - 1) /\ tokens[Last(open[i])].type = "start"
           /\ open[Last(open[i]) + 1] = open[i]
           /\ open[Last(open[i])] = Front(open[i])
<1>1. open[i] \in Seq(Nat) /\ open \in Seq(Seq(Nat)) /\ Len(tokens) \in Nat /\ Len(open) = Len(tokens) + 1
  BY DEF StreamInv, StreamTyped
<1> DEFINE d == Len(open[i])
           s == open[i][d]
<1>2. d \in DOMAIN open[i] /\ d \in Nat \ {0} /\ Last(open[i]) = s
  BY <1>1 DEF Last
<1>3. /\ s \in 1 .. (i - 1) /\ tokens[s].type = "start"
      /\ open[s + 1] = Append(open[s], s)
      /\ Len(open[s]) = d - 1
      /\ \A k \in 1 .. (d - 1) : open[s][k] = open[i][k]
  BY <1>2, OpenedOn
<1>4. s \in 1 .. Len(open)
  BY <1>1, <1>3
<1>5. open[s] \in Seq(Nat)
  BY <1>1, <1>4
<1> DEFINE t == open[s]
           u == open[i]
<1>6. t \in Seq(Nat) /\ u \in Seq(Nat) /\ Len(t) = d - 1 /\ Len(u) = d /\ u[d] = s /\ s \in Nat
      /\ \A k \in 1 .. (d - 1) : t[k] = u[k]
  BY <1>1, <1>3, <1>5
<1> HIDE DEF t, u, d, s
<1>7. Append(t, s) = u
  BY <1>2, <1>6
<1>8. t = Front(u)
  BY <1>2, <1>6 DEF Front
<1> QED  BY <1>2, <1>3, <1>7, <1>8 DEF t, u

\* Without siblings in between there is no markup at all: tags that end close what
\* is open on both sides.
LEMMA NoMarkupBetween ==
    ASSUME StreamInv, NEW i \in 1 .. Len(tokens), NEW t \in 1 .. i, open[t] = open[i],
           \A k \in t .. (i - 1) :
               tokens[k].type \in {"start", "comment"} => open[k] # open[i]
    PROVE  \A k \in t .. (i - 1) : ~IsMarkup(k)
<1> DEFINE S == {k \in t .. (i - 1) : IsMarkup(k)}
<1> SUFFICES ASSUME S # {} PROVE FALSE
  OBVIOUS
<1>1. /\ open \in Seq(Seq(Nat)) /\ Len(tokens) \in Nat /\ Len(open) = Len(tokens) + 1
      /\ i \in Nat /\ t \in Nat /\ t <= i
  BY DEF StreamInv, StreamTyped
<1>2. PICK k \in S : \A h \in S : k <= h
  <2>1. S \in SUBSET Nat /\ \A h \in S : h <= i
    BY <1>1
  <2> QED  BY <1>1, <2>1, FirstAndLast
<1>3. k \in t .. (i - 1) /\ IsMarkup(k) /\ k \in 1 .. Len(tokens) /\ k \in 1 .. Len(tokens) + 1
      /\ k + 1 \in 1 .. Len(tokens) + 1 /\ i \in 1 .. Len(tokens) + 1 /\ t \in 1 .. Len(tokens) + 1
  BY <1>1, <1>2
<1>4. open[k] = open[t]
  <2>1. \A h \in t .. (k - 1) : ~IsTag(h)
    <3> SUFFICES ASSUME NEW h \in t .. (k - 1), IsTag(h) PROVE FALSE
      OBVIOUS
    <3>1. h \in S
      <4>1. h \in t .. (i - 1)
        BY <1>1, <1>3
      <4> QED  BY <4>1 DEF IsTag, IsMarkup
    <3> QED  BY <1>1, <1>2, <1>3, <3>1
  <2> QED  BY <1>1, <1>3, <2>1 DEF StreamInv, Nested
<1>5. tokens[k].type = "end"
  BY <1>3, <1>4 DEF IsMarkup
<1>6. open[k] # <<>> /\ open[k + 1] = Front(open[k])
  BY <1>3, <1>5 DEF StreamInv, Nested
<1> DEFINE d == Len(open[k])
<1>7. /\ open[k] \in Seq(Nat) /\ d \in Nat \ {0} /\ d \in DOMAIN open[k]
      /\ d \notin DOMAIN Front(open[k])
  <2>1. open[k] \in Seq(Nat)
    BY <1>3, StreamTypes
  <2> QED  BY <1>6, <2>1, OneLess
<1>8. open[k][d] < k + 1 /\ k + 1 <= i
  <2>1. open[k][d] \in 1 .. (k - 1)
    BY <1>3, <1>7 DEF StreamInv, StartsAreOpen
  <2> DEFINE e == open[k][d]
  <2>2. e \in 1 .. (k - 1) /\ k \in Nat /\ k <= i - 1
    BY <1>1, <1>3, <2>1
  <2> HIDE DEF e
  <2>3. e < k + 1 /\ k + 1 <= i
    BY <1>1, <2>2
  <2> QED  BY <2>3 DEF e
<1> HIDE DEF d
<1>9. d \in DOMAIN open[i] /\ open[i][d] = open[k][d]
  BY <1>4, <1>7
<1>10. d \in DOMAIN open[k + 1]
  BY <1>3, <1>8, <1>9 DEF StreamInv, Stacked
<1> QED  BY <1>6, <1>7, <1>10

\* A tag in front of i that was started where i is has ended in front of it.
LEMMA TagEnds ==
    ASSUME StreamInv, NEW i \in 1 .. Len(tokens), NEW c \in 1 .. (i - 1),
           tokens[c].type = "start", open[c] = open[i]
    PROVE  /\ EndOf(c) \in (c + 1) .. (i - 1) /\ tokens[EndOf(c)].type = "end"
           /\ open[EndOf(c) + 1] = open[i]
<1>1. /\ open \in Seq(Seq(Nat)) /\ Len(tokens) \in Nat /\ Len(open) = Len(tokens) + 1
      /\ i \in Nat /\ c \in Nat /\ c < i /\ i \in 1 .. Len(tokens) + 1
      /\ c \in 1 .. Len(tokens) /\ c \in 1 .. Len(tokens) + 1
  <2>1. /\ open \in Seq(Seq(Nat)) /\ Len(tokens) \in Nat /\ Len(open) = Len(tokens) + 1
    BY StreamTypes DEF StreamInv, StreamTyped
  <2> QED  BY <2>1
<1>2. open[c + 1] = Append(open[c], c) /\ open[c] \in Seq(Nat)
  <2>1. open[c] \in Seq(Nat)
    BY <1>1
  <2>2. open[c + 1] = Append(open[c], c)
    BY <1>1 DEF StreamInv, Nested
  <2> QED  BY <2>1, <2>2
<1> DEFINE d == Len(open[c]) + 1
           IsIn(m) == d \in DOMAIN open[m] /\ open[m][d] = c
           S == {m \in (c + 1) .. i : ~IsIn(m)}
<1>3. d \in Nat \ {0} /\ IsIn(c + 1) /\ ~IsIn(i)
  <2> DEFINE u == open[c]
  <2>1. u \in Seq(Nat) /\ c \in Nat
    BY <1>1, <1>2
  <2> HIDE DEF u
  <2>2. /\ Len(u) \in Nat /\ DOMAIN u = 1 .. Len(u)
        /\ DOMAIN Append(u, c) = 1 .. Len(u) + 1 /\ Append(u, c)[Len(u) + 1] = c
    BY <2>1, OneMore
  <2>3. Len(u) + 1 \in Nat \ {0} /\ Len(u) + 1 \in 1 .. Len(u) + 1 /\ Len(u) + 1 \notin 1 .. Len(u)
    BY <2>2
  <2> QED  BY <1>2, <2>2, <2>3 DEF u
<1>4. PICK m \in S : \A k \in S : m <= k
  <2>1. i \in S /\ S \in SUBSET Nat /\ \A k \in S : k <= i
    BY <1>1, <1>3
  <2> HIDE DEF S
  <2> QED  BY <1>1, <2>1, FirstAndLast
<1> DEFINE h == m - 1
<1>5. /\ h \in (c + 1) .. (i - 1) /\ IsIn(h) /\ m = h + 1 /\ h < m /\ ~IsIn(m)
      /\ h \in 1 .. Len(tokens) /\ h \in 1 .. Len(tokens) + 1 /\ h + 1 \in 1 .. Len(tokens) + 1
  <2>1. m \in (c + 1) .. i /\ ~IsIn(m)
    BY <1>4
  <2>2. m # c + 1
    BY <1>3, <2>1
  <2>3. h \in (c + 1) .. (i - 1) /\ h < m /\ m = h + 1
    BY <1>1, <2>1, <2>2
  <2>4. h \notin S
    BY <1>1, <1>4, <2>1, <2>3
  <2>5. IsIn(h)
    BY <1>1, <2>3, <2>4
  <2> QED  BY <1>1, <2>1, <2>3, <2>5
<1> HIDE DEF h, S
<1>6. open[h] \in Seq(Nat) /\ open[h] # <<>>
  BY <1>1, <1>5
<1>7. tokens[h].type = "end"
  <2>1. CASE tokens[h].type = "start"
    <3>1. open[m] = Append(open[h], h)
      BY <1>5, <2>1 DEF StreamInv, Nested
    <3>2. \A u \in Seq(Nat) : d \in DOMAIN u => d \in DOMAIN Append(u, h) /\ Append(u, h)[d] = u[d]
      OBVIOUS
    <3>3. IsIn(m)
      BY <1>5, <1>6, <3>1, <3>2
    <3> QED  BY <1>5, <3>3
  <2>2. CASE ~IsTag(h)
    <3>1. \A k \in h .. ((h + 1) - 1) : ~IsTag(k)
      BY <1>1, <1>5, <2>2
    <3>2. h <= h + 1
      BY <1>5
    <3>3. open[h + 1] = open[h]
      BY <1>5, <3>1, <3>2 DEF StreamInv, Nested
    <3> QED  BY <1>5, <3>3
  <2>3. IsTag(h) => tokens[h].type \in {"start", "end"}
    BY DEF IsTag
  <2> QED  BY <2>1, <2>2, <2>3
<1>8. open[m] = Front(open[h])
  BY <1>5, <1>7 DEF StreamInv, Nested
<1>9. Last(open[h]) = c
  <2> DEFINE u == open[h]
             f == Front(u)
  <2>1. /\ u \in Seq(Nat) /\ u # <<>> /\ d \in Nat \ {0} /\ d \in DOMAIN u /\ u[d] = c
        /\ ~(d \in DOMAIN f /\ f[d] = c)
    BY <1>3, <1>5, <1>6, <1>8
  <2> HIDE DEF u, d
  <2>2. d = Len(u)
    BY <2>1 DEF Front
  <2>3. d = Len(open[h])
    BY <2>2 DEF u
  <2> QED  BY <1>5, <2>3 DEF Last
<1>10. open[m] = open[i]
  BY <1>5, <1>6, <1>8, <1>9, InnermostTellsAll
<1>11. ASSUME NEW j \in (c + 1) .. Len(tokens), NEW k \in (c + 1) .. Len(tokens),
              tokens[j].type = "end", Last(open[j]) = c,
              tokens[k].type = "end", Last(open[k]) = c, j < k
       PROVE  FALSE
  <2>1. /\ j \in 1 .. Len(tokens) /\ k \in 1 .. Len(tokens) /\ j + 1 <= k /\ c < j + 1
        /\ j \in 1 .. Len(tokens) + 1 /\ k \in 1 .. Len(tokens) + 1 /\ j + 1 \in 1 .. Len(tokens) + 1
    BY <1>1, <1>11
  <2>2. open[j] # <<>> /\ open[j + 1] = Front(open[j]) /\ open[k] # <<>>
    BY <1>11, <2>1 DEF StreamInv, Nested
  <2>3. open[j + 1] = open[c]
    BY <1>11, <2>1, <2>2, InnermostTellsAll
  <2> DEFINE e == Len(open[k])
  <2>4. open[k] \in Seq(Nat) /\ e \in DOMAIN open[k] /\ open[k][e] = c
    BY <1>1, <1>11, <2>1, <2>2 DEF Last
  <2> HIDE DEF e
  <2>5. e \in DOMAIN open[c] /\ open[c][e] = c
    BY <2>1, <2>3, <2>4 DEF StreamInv, Stacked
  <2>6. open[c][e] \in 1 .. (c - 1)
    BY <1>1, <2>5 DEF StreamInv, StartsAreOpen
  <2> QED  BY <1>1, <2>5, <2>6
<1>12. EndOf(c) = h
  <2> DEFINE P(j) == tokens[j].type = "end" /\ Last(open[j]) = c
  <2>1. h \in (c + 1) .. Len(tokens) /\ P(h)
    BY <1>1, <1>5, <1>7, <1>9
  <2>2. \A j \in (c + 1) .. Len(tokens) : P(j) => j = h
    <3> SUFFICES ASSUME NEW j \in (c + 1) .. Len(tokens), P(j) PROVE j = h
      OBVIOUS
    <3>1. ~(j < h) /\ ~(h < j)
      BY <1>11, <2>1
    <3> QED  BY <1>1, <2>1, <3>1
  <2>3. EndOf(c) = CHOOSE j \in (c + 1) .. Len(tokens) : P(j)
    BY DEF EndOf
  <2> HIDE DEF P
  <2> QED  BY <2>1, <2>2, <2>3
<1> QED  BY <1>5, <1>7, <1>10, <1>12

\* siblings that were started in front of i
Elder(i) == {j \in 1 .. (i - 1) : tokens[j].type \in {"start", "comment"} /\ open[j] = open[i]}

LEMMA TailInFront ==
    ASSUME StreamInv, NEW i \in 1 .. Len(tokens), NEW c \in Elder(i)
    PROVE  /\ TailOf(c) \in c .. (i - 1) /\ IsMarkup(TailOf(c))
           /\ open[TailOf(c) + 1] = open[i]
<1>1. c \in 1 .. (i - 1) /\ tokens[c].type \in {"start", "comment"} /\ open[c] = open[i]
  BY DEF Elder
<1>2. Len(tokens) \in Nat /\ i \in Nat
  BY DEF StreamInv, StreamTyped
<1>3. CASE tokens[c].type = "comment"
  <2>1. TailOf(c) = c /\ IsMarkup(c)
    BY <1>3 DEF TailOf, IsMarkup
  <2>2. /\ c \in 1 .. Len(tokens) + 1 /\ c + 1 \in 1 .. Len(tokens) + 1 /\ c <= c + 1
        /\ c \in c .. (i - 1)
    BY <1>1, <1>2
  <2>3. \A k \in c .. ((c + 1) - 1) : ~IsTag(k)
    BY <1>1, <1>2, <1>3 DEF IsTag
  <2>4. open[c + 1] = open[c]
    BY <2>2, <2>3 DEF StreamInv, Nested
  <2> QED  BY <1>1, <2>1, <2>2, <2>4
<1>4. CASE tokens[c].type = "start"
  <2>1. TailOf(c) = EndOf(c)
    BY <1>4 DEF TailOf
  <2>2. /\ EndOf(c) \in (c + 1) .. (i - 1) /\ tokens[EndOf(c)].type = "end"
        /\ open[EndOf(c) + 1] = open[i]
    BY <1>1, <1>4, TagEnds
  <2> QED  BY <1>1, <1>2, <2>1, <2>2 DEF IsMarkup
<1> QED  BY <1>1, <1>3, <1>4

\* Behind the last of them there is text only.
LEMMA BehindLastElder ==
    ASSUME StreamInv, NEW i \in 1 .. Len(tokens), Elder(i) # {}
    PROVE  LET c == Max(Elder(i)) IN
           /\ c \in Elder(i) /\ TailOf(c) \in 1 .. (i - 1) /\ IsMarkup(TailOf(c))
           /\ \A k \in (TailOf(c) + 1) .. (i - 1) : ~IsMarkup(k)
<1> DEFINE c == Max(Elder(i))
<1>1. Len(tokens) \in Nat /\ i \in Nat
  BY DEF StreamInv, StreamTyped
<1>2. \E x \in Elder(i) : \A y \in Elder(i) : y <= x
  <2>1. Elder(i) \in SUBSET Nat /\ \A x \in Elder(i) : x <= i
    BY <1>1 DEF Elder
  <2> QED  BY <1>1, <2>1, FirstAndLast
<1>3. \A x, y \in Elder(i) : y <= x <=> x >= y
  BY <1>1 DEF Elder
<1>4. c \in Elder(i) /\ \A y \in Elder(i) : c >= y
  BY <1>2, <1>3 DEF Max
<1> HIDE DEF c
<1> DEFINE t == TailOf(c)
<1>5. t \in c .. (i - 1) /\ IsMarkup(t) /\ open[t + 1] = open[i] /\ c \in 1 .. (i - 1)
  BY <1>4, TailInFront DEF Elder
<1> HIDE DEF t
<1>6. t \in 1 .. (i - 1) /\ t + 1 \in 1 .. i
  BY <1>1, <1>5
<1>7. ASSUME NEW k \in (t + 1) .. (i - 1), tokens[k].type \in {"start", "comment"}, open[k] = open[i]
      PROVE  FALSE
  <2>1. k \in Elder(i)
    BY <1>1, <1>6, <1>7 DEF Elder
  <2>2. c >= k
    BY <1>4, <2>1
  <2> QED  BY <1>1, <1>5, <1>6, <2>2
<1>8. \A k \in (t + 1) .. (i - 1) : ~IsMarkup(k)
  BY <1>5, <1>6, <1>7, NoMarkupBetween
<1> QED  BY <1>4, <1>5, <1>6, <1>8 DEF c, t

\* Where libxml2 keeps the text in front of markup, and what is cleared.
LEMMA Sources ==
    ASSUME StreamInv, NEW i \in 1 .. Len(tokens), IsMarkup(i)
    PROVE  LET at == TextSource(i).at IN
           /\ at \in 0 .. (i - 1)
           /\ TextSource(i).drop \subseteq 1 .. (i - 1)
           /\ at # 0 => IsMarkup(at) /\ \A k \in (at + 1) .. (i - 1) : ~IsMarkup(k)
           /\ at = 0 => TextInFront(i) = {}
<1> DEFINE parent  == Last(open[i])
           elder   == Elder(i)
           behind  == TailOf(Max(elder))
           earlier == {j \in Siblings(i) : j < i}
<1>1. Len(tokens) \in Nat /\ i \in Nat /\ i \in 1 .. Len(tokens) + 1 /\ i + 1 \in 1 .. Len(tokens) + 1
      /\ open \in Seq(Seq(Nat)) /\ Len(open) = Len(tokens) + 1
  <2>1. /\ open \in Seq(Seq(Nat)) /\ Len(tokens) \in Nat /\ Len(open) = Len(tokens) + 1
    BY StreamTypes DEF StreamInv, StreamTyped
  <2> QED  BY <2>1
<1>2. earlier = elder
  BY <1>1 DEF Siblings, Elder
<1>3. ASSUME tokens[i].type = "end"
      PROVE  Kids(parent) = elder /\ open[i] # <<>>
  <2>1. open[i] # <<>> /\ open[i + 1] = Front(open[i])
    BY <1>3 DEF StreamInv, Nested
  <2>2. parent \in 1 .. (i - 1) /\ open[parent + 1] = open[i]
    BY <1>1, <2>1, InnermostTellsAll
  <2> DEFINE d == Len(open[i])
  <2>3. d \in DOMAIN open[i] /\ open[i][d] = parent /\ d \notin DOMAIN open[i + 1]
    <3>1. open[i] \in Seq(Nat)
      BY <1>1
    <3> QED  BY <2>1, <3>1 DEF Last, Front
  <2> HIDE DEF d, parent
  <2>4. ASSUME NEW j \in Kids(parent) PROVE j \in elder
    <3>1. /\ j \in (parent + 1) .. Len(tokens) /\ tokens[j].type \in {"start", "comment"}
          /\ open[j] # <<>> /\ Last(open[j]) = parent
      BY DEF Kids
    <3>2. j \in Nat /\ j \in 1 .. Len(tokens) + 1 /\ j \in 1 .. Len(tokens)
      BY <1>1, <2>2, <3>1
    <3>3. open[j] = open[i]
      BY <2>2, <3>1, <3>2, InnermostTellsAll
    <3>4. ~(i + 1 <= j)
      <4>1. parent < i + 1
        BY <1>1, <2>2
      <4> QED  BY <1>1, <2>3, <3>2, <3>3, <4>1 DEF StreamInv, Stacked
    <3>5. j # i
      BY <1>3, <3>1
    <3>6. j \in 1 .. (i - 1)
      BY <1>1, <3>2, <3>4, <3>5
    <3> QED  BY <3>1, <3>3, <3>6 DEF Elder
  <2>5. ASSUME NEW j \in elder PROVE j \in Kids(parent)
    <3>1. j \in 1 .. (i - 1) /\ tokens[j].type \in {"start", "comment"} /\ open[j] = open[i]
      BY DEF Elder
    <3>2. j \in 1 .. Len(tokens) /\ j \in 1 .. Len(tokens) + 1 /\ j \in Nat
      BY <1>1, <3>1
    <3>3. Last(open[j]) \in 1 .. (j - 1) /\ Last(open[j]) = parent
      BY <2>1, <3>1, <3>2, InnermostTellsAll DEF parent
    <3>4. j \in (parent + 1) .. Len(tokens)
      BY <1>1, <3>2, <3>3
    <3> QED  BY <2>1, <3>1, <3>3, <3>4 DEF Kids
  <2> QED  BY <2>1, <2>4, <2>5 DEF parent
<1>4. CASE elder # {}
  <2>1. /\ Max(elder) \in elder /\ behind \in 1 .. (i - 1) /\ IsMarkup(behind)
        /\ \A k \in (behind + 1) .. (i - 1) : ~IsMarkup(k)
    BY <1>4, BehindLastElder
  <2>2. Max(elder) \in 1 .. (i - 1)
    BY <2>1 DEF Elder
  <2>3. TextSource(i).at = behind /\ TextSource(i).drop \subseteq {Max(elder), behind}
    <3>1. CASE tokens[i].type = "end"
      BY <1>3, <1>4, <3>1 DEF TextSource
    <3>2. CASE tokens[i].type # "end"
      <4> HIDE DEF elder
      <4>1. TextSource(i) = [at |-> behind, drop |-> {Max(elder), behind}]
        BY <1>2, <1>4, <3>2 DEF TextSource
      <4> QED  BY <4>1
    <3> QED  BY <3>1, <3>2
  <2> HIDE DEF behind, elder
  <2>4. behind \in 0 .. (i - 1) /\ behind # 0
    BY <1>1, <2>1
  <2> QED  BY <2>1, <2>2, <2>3, <2>4
<1>5. CASE elder = {} /\ open[i] # <<>>
  <2>1. /\ parent \in 1 .. (i - 1) /\ tokens[parent].type = "start" /\ open[parent + 1] = open[i]
    BY <1>1, <1>5, InnermostTellsAll
  <2>2. TextSource(i) = [at |-> parent, drop |-> {}]
    <3>1. CASE tokens[i].type = "end"
      BY <1>3, <1>5, <3>1 DEF TextSource
    <3>2. CASE tokens[i].type # "end"
      BY <1>2, <1>5, <3>2 DEF TextSource
    <3> QED  BY <3>1, <3>2
  <2> HIDE DEF parent
  <2>3. parent + 1 \in 1 .. i /\ parent \in 0 .. (i - 1) /\ parent # 0
    BY <1>1, <2>1
  <2>4. ASSUME NEW k \in (parent + 1) .. (i - 1), tokens[k].type \in {"start", "comment"}
        PROVE  open[k] # open[i]
    <3>1. k \in 1 .. (i - 1)
      BY <1>1, <2>1
    <3> QED  BY <1>5, <2>4, <3>1 DEF Elder
  <2>5. \A k \in (parent + 1) .. (i - 1) : ~IsMarkup(k)
    BY <2>1, <2>3, <2>4, NoMarkupBetween
  <2> QED  BY <2>1, <2>2, <2>3, <2>5 DEF IsMarkup
<1>6. CASE elder = {} /\ open[i] = <<>>
  <2>1. tokens[i].type # "end"
    BY <1>3, <1>6
  <2>2. TextSource(i) = [at |-> 0, drop |-> {}]
    BY <1>2, <1>6, <2>1 DEF TextSource
  <2>3. ASSUME NEW j \in TextInFront(i) PROVE FALSE
    <3>1. j \in 1 .. (i - 1) /\ \A k \in j .. (i - 1) : ~IsMarkup(k)
      BY DEF TextInFront
    <3>2. j \in Nat /\ j \in 1 .. Len(tokens) /\ j \in 1 .. Len(tokens) + 1 /\ j <= i /\ j \in j .. (i - 1)
      BY <1>1, <3>1
    <3>3. \A k \in j .. (i - 1) : ~IsTag(k)
      BY <3>1 DEF IsMarkup, IsTag
    <3>4. open[j] = <<>>
      BY <1>1, <1>6, <3>2, <3>3 DEF StreamInv, Nested
    <3>5. tokens[j].type = "text"
      <4>1. tokens[j] \in Tokens
        BY <3>2 DEF StreamInv, StreamTyped
      <4>2. tokens[j].type \in {"start", "end", "text", "comment"}
        BY <4>1 DEF Tokens
      <4> QED  BY <3>1, <3>2, <4>2 DEF IsMarkup
    <3> QED  BY <3>2, <3>4, <3>5 DEF StreamInv, TextIsInside
  <2>4. 0 \in 0 .. (i - 1)
    BY <1>1
  <2> QED  BY <2>2, <2>3, <2>4
<1> QED  BY <1>4, <1>5, <1>6

-----------------------------------------------------------------------------
(* Texts *)

\* the text at some of the positions in a sequence of tokens
Nth(S, n) == CHOOSE j \in S : Cardinality({k \in S : k <= j}) = n
TextIn(ts, S) == [n \in 1 .. Cardinality(S) |-> ts[Nth(S, n)].content]

\* Positions that follow each other are taken in their order.
LEMMA NthOfRange ==
    ASSUME NEW a \in Nat, NEW b \in Nat, a <= b + 1
    PROVE  /\ Cardinality(a .. b) = (b + 1) - a
           /\ \A n \in 1 .. ((b + 1) - a) : Nth(a .. b, n) = a + (n - 1)
<1>1. Cardinality(a .. b) = (b + 1) - a
  BY FS_Interval
<1>2. ASSUME NEW j \in a .. b PROVE Cardinality({k \in a .. b : k <= j}) = (j + 1) - a
  <2>1. {k \in a .. b : k <= j} = a .. j
    OBVIOUS
  <2>2. j \in Int /\ a \in Int /\ ~(a > j)
    OBVIOUS
  <2>3. Cardinality(a .. j) = (j + 1) - a
    <3>1. Cardinality(a .. j) = IF a > j THEN 0 ELSE j - a + 1
      BY <2>2, FS_Interval
    <3> QED  BY <2>2, <3>1
  <2> QED  BY <2>1, <2>3
<1>3. ASSUME NEW n \in 1 .. ((b + 1) - a)
      PROVE  Nth(a .. b, n) = a + (n - 1)
  <2> DEFINE P(j) == Cardinality({k \in a .. b : k <= j}) = n
  <2>1. a + (n - 1) \in a .. b
    OBVIOUS
  <2>2. \A j \in a .. b : P(j) <=> j = a + (n - 1)
    BY <1>2
  <2> HIDE DEF P
  <2>3. (CHOOSE j \in a .. b : P(j)) = a + (n - 1)
    BY <2>1, <2>2
  <2> QED  BY <2>3 DEF P, Nth
<1> QED  BY <1>1, <1>3

Contents(ts, a, b) == [n \in 1 .. ((b + 1) - a) |-> ts[a + (n - 1)].content]

LEMMA TextOfRange ==
    ASSUME NEW a \in Nat, NEW b \in Nat, a <= b + 1
    PROVE  TextOf(a .. b) = Contents(tokens, a, b)
<1>1. TextOf(a .. b) = TextIn(tokens, a .. b)
  BY DEF TextOf, TextIn, Nth
<1>2. Cardinality(a .. b) = (b + 1) - a /\ \A n \in 1 .. ((b + 1) - a) : Nth(a .. b, n) = a + (n - 1)
  BY NthOfRange
<1> QED  BY <1>1, <1>2 DEF Contents, TextIn

LEMMA TextOfNone == TextOf({}) = <<>>
<1>1. Cardinality({}) = 0
  BY FS_EmptySet
<1> QED  BY <1>1 DEF TextOf

LEMMA ContentsGoOn ==
    ASSUME NEW ts, NEW a \in Nat, NEW b \in Nat, NEW c \in Nat, a <= b + 1, b <= c
    PROVE  Contents(ts, a, b) \o Contents(ts, b + 1, c) = Contents(ts, a, c)
<1> DEFINE s == Contents(ts, a, b)
           t == Contents(ts, b + 1, c)
           u == Contents(ts, a, c)
           S == {ts[k].content : k \in a .. c}
<1>1. s \in Seq(S) /\ Len(s) = (b + 1) - a /\ \A n \in 1 .. Len(s) : s[n] = ts[a + (n - 1)].content
  BY DEF Contents
<1>2. t \in Seq(S) /\ Len(t) = c - b /\ \A n \in 1 .. Len(t) : t[n] = ts[b + n].content
  BY DEF Contents
<1>3. u \in Seq(S) /\ Len(u) = (c + 1) - a /\ \A n \in 1 .. Len(u) : u[n] = ts[a + (n - 1)].content
  BY DEF Contents
<1> HIDE DEF s, t, u, S
<1>4. /\ s \o t \in Seq(S) /\ Len(s \o t) = Len(s) + Len(t)
      /\ \A n \in 1 .. Len(s) + Len(t) :
            (s \o t)[n] = IF n <= Len(s) THEN s[n] ELSE t[n - Len(s)]
  BY <1>1, <1>2, ConcatProperties
<1>5. Len(s \o t) = Len(u) /\ Len(s) \in Nat /\ Len(t) \in Nat
  BY <1>1, <1>2, <1>3, <1>4
<1>6. ASSUME NEW n \in 1 .. Len(u) PROVE (s \o t)[n] = u[n]
  <2>1. n \in Nat \ {0} /\ n \in 1 .. Len(s) + Len(t)
    BY <1>3, <1>4, <1>5
  <2>2. CASE n <= Len(s)
    <3>1. n \in 1 .. Len(s) /\ (s \o t)[n] = s[n]
      BY <1>4, <1>5, <2>1, <2>2
    <3> QED  BY <1>1, <1>3, <3>1
  <2>3. CASE n > Len(s)
    <3>1. n - Len(s) \in 1 .. Len(t) /\ b + (n - Len(s)) = a + (n - 1)
      BY <1>1, <1>5, <2>1, <2>3
    <3>2. (s \o t)[n] = t[n - Len(s)]
      BY <1>4, <1>5, <2>1, <2>3
    <3> QED  BY <1>2, <1>3, <3>1, <3>2
  <2> QED  BY <1>5, <2>1, <2>2, <2>3
<1>7. s \o t = u
  BY <1>3, <1>4, <1>5, <1>6, SeqEqual
<1> QED  BY <1>7 DEF s, t, u

\* the last markup in front of a position, or none
LastMarkup(l, i) ==
    /\ l \in 0 .. (i - 1)
    /\ l # 0 => IsMarkup(l)
    /\ \A k \in (l + 1) .. (i - 1) : ~IsMarkup(k)

LEMMA MarkupInFront ==
    ASSUME NEW i \in Nat \ {0}
    PROVE  \E l \in 0 .. (i - 1) : LastMarkup(l, i)
<1> DEFINE M == {k \in 1 .. (i - 1) : IsMarkup(k)}
<1>1. CASE M = {}
  <2>1. LastMarkup(0, i)
    BY <1>1 DEF LastMarkup
  <2> QED  BY <2>1
<1>2. CASE M # {}
  <2>1. PICK l \in M : \A y \in M : y <= l
    <3>1. M \in SUBSET Nat /\ i \in Nat /\ \A x \in M : x <= i
      OBVIOUS
    <3> HIDE DEF M
    <3> QED  BY <1>2, <3>1, FirstAndLast
  <2>2. l \in 1 .. (i - 1) /\ IsMarkup(l) /\ l \in 0 .. (i - 1)
    OBVIOUS
  <2>3. ASSUME NEW k \in (l + 1) .. (i - 1) PROVE ~IsMarkup(k)
    <3>1. k \in 1 .. (i - 1) /\ ~(k <= l)
      BY <2>2
    <3> QED  BY <2>1, <3>1
  <2> QED  BY <2>2, <2>3 DEF LastMarkup
<1> QED  BY <1>1, <1>2

LEMMA TextBehindMarkup ==
    ASSUME NEW i \in Nat \ {0}, NEW l \in 0 .. (i - 1), LastMarkup(l, i)
    PROVE  TextInFront(i) = (l + 1) .. (i - 1)
<1>1. ASSUME NEW j \in 1 .. (i - 1), \A k \in j .. (i - 1) : ~IsMarkup(k)
      PROVE  j \in (l + 1) .. (i - 1)
  <2>1. l \notin j .. (i - 1)
    BY <1>1 DEF LastMarkup
  <2> QED  BY <2>1
<1>2. ASSUME NEW j \in (l + 1) .. (i - 1)
      PROVE  j \in 1 .. (i - 1) /\ \A k \in j .. (i - 1) : ~IsMarkup(k)
  <2>1. \A k \in j .. (i - 1) : k \in (l + 1) .. (i - 1)
    OBVIOUS
  <2>2. j \in 1 .. (i - 1)
    OBVIOUS
  <2> QED  BY <2>1, <2>2 DEF LastMarkup
<1>3. \A j \in TextInFront(i) : j \in (l + 1) .. (i - 1)
  BY <1>1 DEF TextInFront
<1>4. \A j \in (l + 1) .. (i - 1) : j \in TextInFront(i)
  BY <1>2 DEF TextInFront
<1> QED  BY <1>3, <1>4

\* The text in front of a position goes on to the next markup.
LEMMA TextGoesOn ==
    ASSUME NEW r \in Nat, NEW i \in Nat, r < i,
           \A k \in (r + 1) .. (i - 1) : ~IsMarkup(k)
    PROVE  TextOf(TextInFront(r + 1)) \o TextOf((r + 1) .. (i - 1)) = TextOf(TextInFront(i))
<1>1. /\ r + 1 \in Nat \ {0} /\ i \in Nat \ {0} /\ i - 1 \in Nat
      /\ r <= i - 1 /\ (r + 1) - 1 = r
  OBVIOUS
<1>2. PICK l \in 0 .. r : LastMarkup(l, r + 1)
  BY <1>1, MarkupInFront
<1>3. l \in 0 .. (i - 1) /\ LastMarkup(l, i)
  <2>1. l \in 0 .. (i - 1) /\ \A k \in (l + 1) .. (i - 1) : k \in (l + 1) .. r \/ k \in (r + 1) .. (i - 1)
    OBVIOUS
  <2> QED  BY <1>1, <1>2, <2>1 DEF LastMarkup
<1>4. TextInFront(r + 1) = (l + 1) .. r /\ TextInFront(i) = (l + 1) .. (i - 1)
  BY <1>1, <1>2, <1>3, TextBehindMarkup
<1>5. l + 1 \in Nat /\ l + 1 <= r + 1 /\ r + 1 \in Nat /\ r + 1 <= (i - 1) + 1 /\ l + 1 <= (i - 1) + 1
  BY <1>1
<1>6. TextOf((l + 1) .. r) = Contents(tokens, l + 1, r)
  BY <1>1, <1>5, TextOfRange
<1>7. TextOf((r + 1) .. (i - 1)) = Contents(tokens, r + 1, i - 1)
  BY <1>1, <1>5, TextOfRange
<1>8. TextOf((l + 1) .. (i - 1)) = Contents(tokens, l + 1, i - 1)
  BY <1>1, <1>5, TextOfRange
<1>9. Contents(tokens, l + 1, r) \o Contents(tokens, r + 1, i - 1) = Contents(tokens, l + 1, i - 1)
  <2> DEFINE a == l + 1
             c == i - 1
  <2>1. a \in Nat /\ c \in Nat /\ a <= r + 1 /\ r <= c
    BY <1>1, <1>5
  <2> HIDE DEF a, c
  <2>2. Contents(tokens, a, r) \o Contents(tokens, r + 1, c) = Contents(tokens, a, c)
    BY <2>1, ContentsGoOn
  <2> QED  BY <2>2 DEF a, c
<1> QED  BY <1>4, <1>6, <1>7, <1>8, <1>9

-----------------------------------------------------------------------------
(* What the adapters keep *)

\* ExpatParser: the text behind the last markup that it has read
TextHeldBack == setting.parser = "expat" => unprocessed_text = TextOf(TextInFront(read + 1))

\* LxmlParser: text is cleared in front of markup that was read.
TextBehindIsThere == gone \subseteq Nat /\ \A g \in gone : \E m \in (g + 1) .. read : IsMarkup(m)

AdapterInv == TextHeldBack /\ TextBehindIsThere

\* Where the text in front of markup is looked for there is all of it.
LEMMA AllTextIsFound ==
    ASSUME IInv, AdapterInv, NEW i \in (read + 1) .. Len(tokens), IsMarkup(i),
           \A k \in (read + 1) .. (i - 1) : ~IsMarkup(k)
    PROVE  PrecedingText(i) = TextOf(TextInFront(i))
<1>1. /\ Len(tokens) \in Nat /\ read \in Nat /\ i \in 1 .. Len(tokens) /\ i \in Nat \ {0}
      /\ read < i /\ StreamInv
  <2>1. StreamInv /\ read \in 0 .. Len(tokens)
    BY DEF IInv, BuilderTyped
  <2>2. Len(tokens) \in Nat
    BY <2>1, StreamTypes
  <2> QED  BY <2>1, <2>2
<1>2. CASE setting.parser = "expat"
  <2>1. Collected(i) = TextOf(TextInFront(read + 1)) \o TextOf((read + 1) .. (i - 1))
    BY <1>2 DEF Collected, AdapterInv, TextHeldBack
  <2> QED  BY <1>1, <1>2, <2>1, TextGoesOn DEF PrecedingText
<1>3. CASE setting.parser # "expat"
  <2> DEFINE at == TextSource(i).at
  <2>1. /\ at \in 0 .. (i - 1)
        /\ at # 0 => IsMarkup(at) /\ \A k \in (at + 1) .. (i - 1) : ~IsMarkup(k)
        /\ at = 0 => TextInFront(i) = {}
    BY <1>1, Sources
  <2>2. PrecedingText(i) = IF at = 0 THEN <<>> ELSE Behind(at)
    BY <1>3 DEF PrecedingText
  <2> HIDE DEF at
  <2>3. CASE at = 0
    BY <2>1, <2>2, <2>3, TextOfNone
  <2>4. CASE at # 0
    <3>1. LastMarkup(at, i)
      BY <2>1, <2>4 DEF LastMarkup
    <3>2. at \notin gone
      <4> SUFFICES ASSUME at \in gone PROVE FALSE
        OBVIOUS
      <4>1. PICK m \in (at + 1) .. read : IsMarkup(m)
        BY DEF AdapterInv, TextBehindIsThere
      <4>2. m \in (at + 1) .. (i - 1)
        BY <1>1, <2>1
      <4> QED  BY <2>1, <2>4, <4>1, <4>2
    <3> DEFINE S == {j \in (at + 1) .. Len(tokens) : \A k \in (at + 1) .. j : ~IsMarkup(k)}
    <3>3. Behind(at) = TextOf(S)
      BY <3>2 DEF Behind
    <3>4. S = (at + 1) .. (i - 1)
      <4>1. ASSUME NEW j \in S PROVE j \in (at + 1) .. (i - 1)
        <5>1. i \notin (at + 1) .. j
          OBVIOUS
        <5> QED  BY <1>1, <2>1, <5>1
      <4>2. ASSUME NEW j \in (at + 1) .. (i - 1) PROVE j \in S
        <5>1. j \in (at + 1) .. Len(tokens) /\ \A k \in (at + 1) .. j : k \in (at + 1) .. (i - 1)
          BY <1>1, <2>1
        <5> QED  BY <2>1, <2>4, <5>1
      <4> QED  BY <4>1, <4>2
    <3>5. TextInFront(i) = (at + 1) .. (i - 1)
      BY <1>1, <2>1, <3>1, TextBehindMarkup
    <3> HIDE DEF S
    <3> QED  BY <2>2, <2>4, <3>3, <3>4, <3>5
  <2> QED  BY <2>3, <2>4
<1> QED  BY <1>2, <1>3

LEMMA EmitKeepsAdapterInv ==
    ASSUME IInv, AdapterInv, Emit
    PROVE  AdapterInv'
<1> DEFINE i == Min(Unread)
<1>1. /\ i \in (read + 1) .. Len(tokens)
      /\ tokens[i].type \in {"start", "end", "comment"}
  BY NextMarkup DEF Emit
<1>2. /\ read' = i /\ tokens' = tokens /\ setting' = setting /\ unprocessed_text' = <<>>
      /\ gone' = gone \cup IF setting.parser = "lxml" THEN TextSource(i).drop ELSE {}
  BY DEF Emit, stream
<1> HIDE DEF i
<1>3. /\ Len(tokens) \in Nat /\ read \in Nat /\ i \in 1 .. Len(tokens) /\ i \in Nat \ {0}
      /\ StreamInv /\ IsMarkup(i)
  BY <1>1 DEF IInv, BuilderTyped, StreamInv, StreamTyped, IsMarkup
<1>4. TextHeldBack'
  <2>1. TextInFront(read + 1)' = {}
    <3> SUFFICES ASSUME NEW j \in TextInFront(read + 1)' PROVE FALSE
      OBVIOUS
    <3>1. j \in 1 .. ((i + 1) - 1) /\ \A k \in j .. ((i + 1) - 1) : ~IsMarkup(k)
      BY <1>2 DEF TextInFront, IsMarkup
    <3>2. i \in j .. ((i + 1) - 1)
      BY <1>3, <3>1
    <3> QED  BY <1>3, <3>1, <3>2
  <2>2. TextOf({})' = <<>>
    <3>1. Cardinality({}) = 0
      BY FS_EmptySet
    <3> QED  BY <3>1 DEF TextOf
  <2>3. TextOf(TextInFront(read + 1))' = <<>>
    BY <2>1, <2>2 DEF TextOf
  <2> QED  BY <1>2, <2>3 DEF TextHeldBack
<1>5. TextBehindIsThere'
  <2>1. gone \subseteq Nat /\ \A g \in gone : \E m \in (g + 1) .. read : IsMarkup(m)
    BY DEF AdapterInv, TextBehindIsThere
  <2>2. TextSource(i).drop \subseteq 1 .. (i - 1)
    BY <1>3, Sources
  <2>3. ASSUME NEW g \in gone' PROVE g \in Nat /\ \E m \in (g + 1) .. i : IsMarkup(m)
    <3>1. CASE g \in gone
      <4>1. PICK m \in (g + 1) .. read : IsMarkup(m)
        BY <2>1, <3>1
      <4>2. g \in Nat /\ m \in (g + 1) .. i
        BY <1>1, <1>3, <2>1, <3>1
      <4> QED  BY <4>1, <4>2
    <3>2. CASE g \in TextSource(i).drop
      <4>1. g \in Nat /\ i \in (g + 1) .. i
        BY <1>3, <2>2, <3>2
      <4> QED  BY <1>3, <4>1
    <3> QED  BY <1>2, <3>1, <3>2
  <2>4. \A m : IsMarkup(m)' <=> IsMarkup(m)
    BY <1>2 DEF IsMarkup
  <2> QED  BY <1>2, <2>3, <2>4 DEF TextBehindIsThere
<1> QED  BY <1>4, <1>5 DEF AdapterInv

LEMMA DrainKeepsAdapterInv ==
    ASSUME IInv, AdapterInv, Drain
    PROVE  AdapterInv'
<1>1. /\ read' = Len(tokens) /\ tokens' = tokens /\ setting' = setting /\ gone' = gone
      /\ setting.parser = "expat" => unprocessed_text' = Collected(Len(tokens) + 1)
      /\ Unread = {}
  BY DEF Drain, stream
<1>2. /\ Len(tokens) \in Nat /\ read \in Nat /\ read <= Len(tokens)
  BY DEF IInv, BuilderTyped, StreamInv, StreamTyped
<1>3. TextHeldBack'
  <2>1. \A k \in (read + 1) .. ((Len(tokens) + 1) - 1) : ~IsMarkup(k)
    BY <1>1, <1>2 DEF Unread
  <2>2. TextOf(TextInFront(read + 1)) \o TextOf((read + 1) .. ((Len(tokens) + 1) - 1))
           = TextOf(TextInFront(Len(tokens) + 1))
    <3>1. Len(tokens) + 1 \in Nat /\ read < Len(tokens) + 1
      BY <1>2
    <3> QED  BY <1>2, <2>1, <3>1, TextGoesOn
  <2>3. setting.parser = "expat" => unprocessed_text' = TextOf(TextInFront(Len(tokens) + 1))
    BY <1>1, <2>2 DEF Collected, AdapterInv, TextHeldBack
  <2>4. TextInFront(read + 1)' = TextInFront(Len(tokens) + 1)
    BY <1>1 DEF TextInFront, IsMarkup
  <2>5. TextOf(TextInFront(read + 1))' = TextOf(TextInFront(Len(tokens) + 1))
    <3> DEFINE F == TextInFront(read + 1)
               G == TextInFront(Len(tokens) + 1)
    <3>1. TextOf(F)' = TextIn(tokens', F') /\ TextOf(G) = TextIn(tokens, G)
      BY DEF TextOf, TextIn, Nth
    <3> HIDE DEF F, G
    <3>2. TextOf(F)' = TextOf(G)
      BY <1>1, <2>4, <3>1 DEF F, G
    <3> QED  BY <3>2 DEF F, G
  <2> QED  BY <1>1, <2>3, <2>5 DEF TextHeldBack
<1>4. TextBehindIsThere'
  <2>1. ASSUME NEW g \in gone PROVE \E m \in (g + 1) .. Len(tokens) : IsMarkup(m)
    <3>1. PICK m \in (g + 1) .. read : IsMarkup(m)
      BY DEF AdapterInv, TextBehindIsThere
    <3>2. m \in (g + 1) .. Len(tokens)
      BY <1>2 DEF AdapterInv, TextBehindIsThere
    <3> QED  BY <3>1, <3>2
  <2>2. \A m : IsMarkup(m)' <=> IsMarkup(m)
    BY <1>1 DEF IsMarkup
  <2> QED  BY <1>1, <2>1, <2>2 DEF AdapterInv, TextBehindIsThere
<1> QED  BY <1>3, <1>4 DEF AdapterInv

LEMMA FeedKeepsAdapterInv ==
    ASSUME IInv, AdapterInv, NEW token \in Tokens, Feed(token)
    PROVE  AdapterInv'
<1>1. /\ tokens' = Append(tokens, token) /\ UNCHANGED <<setting, read, unprocessed_text, gone>>
  BY DEF Feed, adapter
<1>2. /\ tokens \in Seq(Tokens) /\ Len(tokens) \in Nat /\ read \in Nat /\ read <= Len(tokens)
      /\ \A k \in 1 .. Len(tokens) : tokens'[k] = tokens[k]
  BY <1>1 DEF IInv, BuilderTyped, StreamInv, StreamTyped
<1>3. \A k \in 1 .. read : tokens'[k] = tokens[k] /\ (IsMarkup(k)' <=> IsMarkup(k))
  <2>1. \A k \in 1 .. read : k \in 1 .. Len(tokens)
    BY <1>2
  <2> QED  BY <1>2, <2>1 DEF IsMarkup
<1>4. TextHeldBack'
  <2> DEFINE S == TextInFront(read + 1)
  <2>1. PICK l \in 0 .. read : S = (l + 1) .. read
    <3>1. read + 1 \in Nat \ {0} /\ (read + 1) - 1 = read
      BY <1>2
    <3>2. PICK l \in 0 .. read : LastMarkup(l, read + 1)
      BY <3>1, MarkupInFront
    <3>3. S = (l + 1) .. read
      BY <3>1, <3>2, TextBehindMarkup
    <3> QED  BY <3>3
  <2>2. S' = S
    <3>1. \A j \in 1 .. read : \A k \in j .. read : k \in 1 .. read
      BY <1>2
    <3>2. (read + 1) - 1 = read /\ read' = read
      BY <1>1, <1>2
    <3>3. S = {j \in 1 .. read : \A k \in j .. read : ~IsMarkup(k)}
      BY <3>2 DEF TextInFront
    <3>4. S' = {j \in 1 .. read : \A k \in j .. read : ~IsMarkup(k)'}
      BY <3>2 DEF TextInFront
    <3> HIDE DEF S
    <3> QED  BY <1>3, <3>1, <3>3, <3>4
  <2> HIDE DEF S
  <2>3. /\ Cardinality((l + 1) .. read) = read - l
        /\ \A n \in 1 .. (read - l) : Nth((l + 1) .. read, n) = l + n
    <3>1. /\ l + 1 \in Nat /\ l + 1 <= read + 1 /\ (read + 1) - (l + 1) = read - l
          /\ \A n \in 1 .. (read - l) : (l + 1) + (n - 1) = l + n
      BY <1>2
    <3>2. /\ Cardinality((l + 1) .. read) = (read + 1) - (l + 1)
          /\ \A n \in 1 .. ((read + 1) - (l + 1)) : Nth((l + 1) .. read, n) = (l + 1) + (n - 1)
      BY <1>2, <3>1, NthOfRange
    <3> QED  BY <3>1, <3>2
  <2>4. TextOf(S) = [n \in 1 .. (read - l) |-> tokens[Nth((l + 1) .. read, n)].content]
    BY <2>1, <2>3 DEF TextOf, Nth
  <2>5. TextOf(S)' = [n \in 1 .. (read - l) |-> tokens'[Nth((l + 1) .. read, n)].content]
    <3>1. TextOf(S)' = TextIn(tokens', S')
      BY DEF TextOf, TextIn, Nth
    <3> QED  BY <2>1, <2>2, <2>3, <3>1 DEF TextIn
  <2>6. \A n \in 1 .. (read - l) : tokens'[l + n] = tokens[l + n]
    <3>1. \A n \in 1 .. (read - l) : l + n \in 1 .. read
      BY <1>2
    <3> QED  BY <1>3, <3>1
  <2>7. TextOf(S)' = TextOf(S)
    BY <2>3, <2>4, <2>5, <2>6
  <2> QED  BY <1>1, <2>7 DEF TextHeldBack, AdapterInv, S
<1>5. TextBehindIsThere'
  <2>1. ASSUME NEW g \in gone PROVE \E m \in (g + 1) .. read : IsMarkup(m)'
    <3>1. PICK m \in (g + 1) .. read : IsMarkup(m)
      BY DEF AdapterInv, TextBehindIsThere
    <3>2. m \in 1 .. read
      BY <1>2 DEF AdapterInv, TextBehindIsThere
    <3> QED  BY <1>3, <3>1, <3>2
  <2> QED  BY <1>1, <2>1 DEF AdapterInv, TextBehindIsThere
<1> QED  BY <1>4, <1>5 DEF AdapterInv

LEMMA StepAdapterInv == IInv /\ AdapterInv /\ [Next]_vars => AdapterInv'
<1> SUFFICES ASSUME IInv, AdapterInv, [Next]_vars PROVE AdapterInv'
  OBVIOUS
<1>1. CASE EndChunk \/ Close \/ UNCHANGED vars
  <2>1. UNCHANGED <<setting, tokens, read, unprocessed_text, gone>>
    BY <1>1 DEF EndChunk, Close, vars, stream, adapter
  <2> QED
    <3>1. \A m : IsMarkup(m)' <=> IsMarkup(m)
      BY <2>1 DEF IsMarkup
    <3> DEFINE F == TextInFront(read + 1)
    <3>2. F' = F
      BY <2>1 DEF TextInFront, IsMarkup
    <3>3. TextOf(F)' = TextIn(tokens', F') /\ TextOf(F) = TextIn(tokens, F)
      BY DEF TextOf, TextIn, Nth
    <3> HIDE DEF F
    <3>4. TextHeldBack'
      BY <2>1, <3>2, <3>3 DEF AdapterInv, TextHeldBack, F
    <3>5. TextBehindIsThere'
      BY <2>1, <3>1 DEF AdapterInv, TextBehindIsThere
    <3> QED  BY <3>4, <3>5 DEF AdapterInv
<1> QED  BY <1>1, FeedKeepsAdapterInv, EmitKeepsAdapterInv, DrainKeepsAdapterInv DEF Next

LEMMA InitAdapterInv == Init => AdapterInv
<1> SUFFICES ASSUME Init PROVE AdapterInv
  OBVIOUS
<1>1. read = 0 /\ unprocessed_text = <<>> /\ gone = {}
  BY DEF Init
<1>2. TextInFront(read + 1) = {}
  BY <1>1 DEF TextInFront
<1> QED  BY <1>1, <1>2, TextOfNone DEF AdapterInv, TextHeldBack, TextBehindIsThere

-----------------------------------------------------------------------------
(* The theorems *)

THEOREM Invariance == Spec => []IInv
  BY InitIInv, StepIInv, PTL DEF Spec

\* The builder's assertions hold, whatever it is given: the lists of children, the tags
\* and their ways to treat whitespace go up and down with the tags of the stream.
THEOREM StacksAlwaysInStep == Spec => []StacksInStep
<1>1. IInv => StacksInStep
  BY DEF IInv
<1> QED  BY <1>1, Invariance, PTL

\* An identifier that is used again in a document is noticed when it is read, and
\* nothing else is mistaken for one.
THEOREM RedundantIdsAlwaysRefused == Spec => []RedundantIdsRefused
<1>1. IInv => RedundantIdsRefused
  BY DEF IInv, BuilderTyped, IdsKnown, IdUsedTwice, Id, RedundantIdsRefused
<1> QED  BY <1>1, Invariance, PTL

\* The text in front of markup reaches the builder complete and once, in whatever
\* portions and chunks it came.
THEOREM TextIsAlwaysPassedOn == Spec => []TextIsPassedOn
<1>1. ASSUME IInv, AdapterInv PROVE TextIsPassedOn
  <2> SUFFICES ASSUME Unread # {}
               PROVE  PrecedingText(Min(Unread)) = TextOf(TextInFront(Min(Unread)))
    BY DEF TextIsPassedOn
  <2> DEFINE i == Min(Unread)
  <2>1. /\ i \in (read + 1) .. Len(tokens) /\ IsMarkup(i)
        /\ \A k \in (read + 1) .. (i - 1) : ~IsMarkup(k)
    BY <1>1, NextMarkup DEF IsMarkup
  <2> HIDE DEF i
  <2>2. PrecedingText(i) = TextOf(TextInFront(i))
    BY <1>1, <2>1, AllTextIsFound
  <2> QED  BY <2>2 DEF i
<1>2. Spec => []AdapterInv
  BY InitAdapterInv, StepAdapterInv, Invariance, PTL DEF Spec
<1> QED  BY <1>1, <1>2, Invariance, PTL
=============================================================================
