--------------------------- MODULE DocumentsProofs ---------------------------
(***************************************************************************)
(* What Documents.tla promises, for any number of plugins, placements,     *)
(* classes and sources.                                                    *)
(*                                                                         *)
(* The parts of the inductive invariant stand by themselves: the places of *)
(* loaders, the order of classes, and what a call under way has tried.     *)
(***************************************************************************)
EXTENDS Documents, SequenceTheorems, WellFoundedInduction, TLAPS

ClassNames == Classes \cup {"Document"}
Urls == {NIL, "given", "own", "plugin"}

-----------------------------------------------------------------------------
(* Sequences without repetitions *)

Distinct(s) == \A i, j \in 1..Len(s) : s[i] = s[j] => i = j

LEMMA ElementsOfSequence ==
    ASSUME NEW S, NEW s \in Seq(S)
    PROVE  \A x : x \in ToSet(s) <=> \E i \in 1..Len(s) : s[i] = x
BY DEF ToSet

LEMMA PrependElements ==
    ASSUME NEW S, NEW s \in Seq(S), NEW x \in S
    PROVE  /\ <<x>> \o s \in Seq(S) /\ Len(<<x>> \o s) = Len(s) + 1
           /\ (<<x>> \o s)[1] = x
           /\ \A i \in 2..(Len(s) + 1) : (<<x>> \o s)[i] = s[i - 1]
           /\ {x} \cup ToSet(s) \subseteq ToSet(<<x>> \o s)
<1> DEFINE t == <<x>> \o s
<1>1. <<x>> \in Seq(S) /\ Len(<<x>>) = 1 /\ <<x>>[1] = x
  OBVIOUS
<1>2. /\ t \in Seq(S) /\ Len(t) = 1 + Len(s)
      /\ \A i \in 1..(1 + Len(s)) : t[i] = IF i <= 1 THEN <<x>>[i] ELSE s[i - 1]
  BY <1>1, ConcatProperties
<1> HIDE DEF t
<1>3. /\ Len(t) = Len(s) + 1 /\ t[1] = x
      /\ \A i \in 2..(Len(s) + 1) : t[i] = s[i - 1]
  BY <1>1, <1>2
<1>4. \A i \in 1..Len(s) : i + 1 \in 1..Len(t) /\ t[i + 1] = s[i]
  BY <1>3
<1>5. {x} \cup ToSet(s) \subseteq ToSet(t)
  <2>1. \A y : y \in ToSet(t) <=> \E i \in 1..Len(t) : t[i] = y
    BY <1>2, ElementsOfSequence
  <2>2. \A y : y \in ToSet(s) <=> \E i \in 1..Len(s) : s[i] = y
    BY ElementsOfSequence
  <2>3. 1 \in 1..Len(t)
    BY <1>3
  <2> QED
    BY <1>3, <1>4, <2>1, <2>2, <2>3
<1> QED
  BY <1>2, <1>3, <1>5 DEF t

LEMMA HeadAndTailElements ==
    ASSUME NEW S, NEW s \in Seq(S), s # <<>>
    PROVE  /\ Head(s) \in S /\ Tail(s) \in Seq(S)
           /\ \A x \in ToSet(s) : x = Head(s) \/ x \in ToSet(Tail(s))
<1>1. /\ Len(s) > 0 /\ Head(s) = s[1] /\ Len(Tail(s)) = Len(s) - 1
      /\ Head(s) \in S /\ Tail(s) \in Seq(S)
      /\ \A i \in 1..Len(Tail(s)) : Tail(s)[i] = s[i + 1]
  OBVIOUS
<1>2. ASSUME NEW x \in ToSet(s), x # Head(s) PROVE x \in ToSet(Tail(s))
  <2>1. PICK i \in 1..Len(s) : s[i] = x
    BY ElementsOfSequence
  <2>2. i - 1 \in 1..Len(Tail(s)) /\ Tail(s)[i - 1] = x
    BY <1>1, <1>2, <2>1
  <2> QED
    BY <1>1, <2>2, ElementsOfSequence
<1> QED
  BY <1>1, <1>2

LEMMA InsertAtElements ==
    ASSUME NEW S, NEW s \in Seq(S), NEW i \in 1..(Len(s) + 1), NEW e \in S
    PROVE  /\ InsertAt(s, i, e) \in Seq(S)
           /\ Len(InsertAt(s, i, e)) = Len(s) + 1
           /\ \A k \in 1..(Len(s) + 1) :
                 InsertAt(s, i, e)[k] = IF k < i THEN s[k] ELSE IF k = i THEN e ELSE s[k - 1]
<1> DEFINE front == SubSeq(s, 1, i - 1)
           back  == SubSeq(s, i, Len(s))
<1>1. /\ front \in Seq(S) /\ Len(front) = i - 1
      /\ \A k \in 1..(i - 1) : front[k] = s[k]
  OBVIOUS
<1>2. /\ back \in Seq(S) /\ Len(back) = Len(s) - i + 1
      /\ \A k \in 1..(Len(s) - i + 1) : back[k] = s[i + k - 1]
  OBVIOUS
<1> HIDE DEF front, back
<1> DEFINE start == front \o <<e>>
<1>3. /\ start \in Seq(S) /\ Len(start) = i
      /\ \A k \in 1..i : start[k] = IF k < i THEN s[k] ELSE e
  BY <1>1
<1> HIDE DEF start
<1>4. /\ start \o back \in Seq(S) /\ Len(start \o back) = Len(s) + 1
      /\ \A k \in 1..(Len(s) + 1) :
            (start \o back)[k] = IF k < i THEN s[k] ELSE IF k = i THEN e ELSE s[k - 1]
  <2>1. /\ start \o back \in Seq(S) /\ Len(start \o back) = Len(s) + 1
        /\ \A k \in 1..(Len(s) + 1) :
              (start \o back)[k] = IF k <= i THEN start[k] ELSE back[k - i]
    BY <1>2, <1>3, ConcatProperties
  <2>2. \A k \in 1..(Len(s) + 1) : k > i => k - i \in 1..(Len(s) - i + 1) /\ i + (k - i) - 1 = k - 1
    OBVIOUS
  <2>3. \A k \in 1..(Len(s) + 1) : k > i => back[k - i] = s[k - 1]
    BY <1>2, <2>2
  <2> QED
    BY <1>3, <2>1, <2>3
<1> QED
  BY <1>4 DEF InsertAt, front, back, start

LEMMA IndexOfElement ==
    ASSUME NEW S, NEW s \in Seq(S), NEW x \in ToSet(s)
    PROVE  IndexOf(s, x) \in 1..Len(s) /\ s[IndexOf(s, x)] = x
BY DEF IndexOf, ToSet

\* Elements keep their order when another one is inserted.
LEMMA InsertAtIndexes ==
    ASSUME NEW S, NEW s \in Seq(S), Distinct(s),
           NEW i \in 1..(Len(s) + 1), NEW e \in S, e \notin ToSet(s)
    PROVE  LET t == InsertAt(s, i, e) IN
           /\ t \in Seq(S) /\ Len(t) = Len(s) + 1 /\ Distinct(t)
           /\ ToSet(t) = ToSet(s) \cup {e}
           /\ IndexOf(t, e) = i
           /\ \A x \in ToSet(s) :
                 IndexOf(t, x) = IF IndexOf(s, x) < i THEN IndexOf(s, x) ELSE IndexOf(s, x) + 1
<1> DEFINE t == InsertAt(s, i, e)
<1>1. /\ t \in Seq(S) /\ Len(t) = Len(s) + 1
      /\ \A k \in 1..Len(t) : t[k] = IF k < i THEN s[k] ELSE IF k = i THEN e ELSE s[k - 1]
  <2>1. /\ InsertAt(s, i, e) \in Seq(S)
        /\ Len(InsertAt(s, i, e)) = Len(s) + 1
        /\ \A k \in 1..(Len(s) + 1) :
              InsertAt(s, i, e)[k] = IF k < i THEN s[k] ELSE IF k = i THEN e ELSE s[k - 1]
    BY InsertAtElements
  <2> QED
    BY <2>1
<1> HIDE DEF t
<1>2. \A k \in 1..Len(s) : s[k] # e
  BY DEF ToSet
<1>3. Distinct(t)
  <2> SUFFICES ASSUME NEW j \in 1..Len(t), NEW k \in 1..Len(t), t[j] = t[k], j < k PROVE FALSE
    BY <1>1 DEF Distinct
  <2>1. \A m, n \in 1..Len(s) : s[m] = s[n] => m = n
    BY DEF Distinct
  <2>2. CASE k < i
    BY SMTT(30), <1>1, <2>1, <2>2
  <2>3. CASE k = i
    BY <1>1, <1>2, <2>3
  <2>4. CASE j < i /\ i < k
    BY SMTT(30), <1>1, <2>1, <2>4
  <2>5. CASE j = i
    BY <1>1, <1>2, <2>5
  <2>6. CASE i < j
    BY <1>1, <2>1, <2>6
  <2> QED
    BY <2>2, <2>3, <2>4, <2>5, <2>6
<1>4. ToSet(t) = ToSet(s) \cup {e}
  <2>1. ToSet(t) \subseteq ToSet(s) \cup {e}
    <3> SUFFICES ASSUME NEW k \in 1..Len(t) PROVE t[k] \in ToSet(s) \cup {e}
      BY <1>1 DEF ToSet
    <3>1. CASE k < i
      BY <1>1, <3>1 DEF ToSet
    <3>2. CASE k = i
      BY <1>1, <3>2
    <3>3. CASE k > i
      <4>1. k - 1 \in 1..Len(s) /\ t[k] = s[k - 1]
        BY <1>1, <3>3
      <4> QED
        BY <4>1 DEF ToSet
    <3> QED
      BY <3>1, <3>2, <3>3
  <2>2. e \in ToSet(t)
    <3>1. i \in DOMAIN t /\ t[i] = e
      BY <1>1
    <3> QED
      BY <3>1 DEF ToSet
  <2>3. ASSUME NEW k \in 1..Len(s) PROVE s[k] \in ToSet(t)
    <3>1. CASE k < i
      <4>1. k \in DOMAIN t /\ t[k] = s[k]
        BY <1>1, <3>1
      <4> QED
        BY <4>1 DEF ToSet
    <3>2. CASE k >= i
      <4>1. k + 1 \in DOMAIN t /\ t[k + 1] = s[k]
        BY <1>1, <3>2
      <4> QED
        BY <4>1 DEF ToSet
    <3> QED
      BY <3>1, <3>2
  <2>4. ToSet(s) \subseteq ToSet(t)
    <3> SUFFICES ASSUME NEW x \in ToSet(s) PROVE x \in ToSet(t)
      OBVIOUS
    <3>1. PICK k \in 1..Len(s) : s[k] = x
      BY DEF ToSet
    <3> QED
      BY <2>3, <3>1
  <2> QED
    BY <2>1, <2>2, <2>4
<1>5. IndexOf(t, e) = i
  <2>1. IndexOf(t, e) \in 1..Len(t) /\ t[IndexOf(t, e)] = e
    BY <1>1, <1>4, IndexOfElement
  <2>2. i \in 1..Len(t) /\ t[i] = e
    BY <1>1
  <2> QED
    BY <1>1, <1>3, <2>1, <2>2 DEF Distinct
<1>6. ASSUME NEW x \in ToSet(s)
      PROVE  IndexOf(t, x) = IF IndexOf(s, x) < i THEN IndexOf(s, x) ELSE IndexOf(s, x) + 1
  <2> DEFINE k == IndexOf(s, x)
             n == IF k < i THEN k ELSE k + 1
  <2>1. k \in 1..Len(s) /\ s[k] = x
    BY IndexOfElement
  <2> HIDE DEF k
  <2>2. n \in 1..Len(t) /\ t[n] = x
    BY <1>1, <2>1
  <2>3. IndexOf(t, x) \in 1..Len(t) /\ t[IndexOf(t, x)] = x
    BY <1>1, <1>4, IndexOfElement
  <2>4. IndexOf(t, x) = n
    BY <1>1, <1>3, <2>2, <2>3 DEF Distinct
  <2> QED
    BY <2>4 DEF k
<1> QED
  BY <1>1, <1>3, <1>4, <1>5, <1>6 DEF t

-----------------------------------------------------------------------------
(* The places of loaders *)

\* The index that a decorator will use is in bounds and not behind the loader that its
\* own is to be before; it's next to one that it is to be after while nothing else is
\* registered.
RightIndex(p) ==
    /\ p.index \in 1..(Len(loaders) + 1)
    /\ p.known \in Seq(LoaderNames) /\ Len(p.known) <= Len(loaders)
    /\ p.placement # <<>> =>
         /\ p.placement[1] \in {"before", "after"}
         /\ p.placement[2] \in ToSet(loaders)
         /\ p.placement[1] = "before" => p.index <= IndexOf(loaders, p.placement[2])
         /\ p.placement[1] = "after" /\ p.known = loaders =>
               p.index = IndexOf(loaders, p.placement[2]) + 1

InPlace(p) ==
    p.placement # <<>> =>
        LET own   == IndexOf(loaders, p.loader)
            other == IndexOf(loaders, p.placement[2])
        IN  IF p.placement[1] = "before" THEN own < other ELSE p.stale \/ own > other

RegistryInv ==
    /\ loaders \in Seq(LoaderNames) /\ Distinct(loaders)
    /\ ToSet(BuiltIn) \subseteq ToSet(loaders)
    /\ \A p \in pending : p.loader \in Plugins /\ p.loader \notin ToSet(loaders) /\ RightIndex(p)
    /\ \A p, q \in pending : p.loader = q.loader => p = q
    /\ \A p \in placed :
          /\ p.loader \in ToSet(loaders)
          /\ p.placement # <<>> => p.placement[2] \in ToSet(loaders)
          /\ InPlace(p)

LEMMA InitRegistryInv == Init => RegistryInv
<1> SUFFICES ASSUME Init PROVE RegistryInv
  OBVIOUS
<1>1. BuiltIn \in Seq(LoaderNames)
  BY DEF BuiltIn, LoaderNames, ToSet
<1>2. Distinct(BuiltIn)
  BY DEF Distinct, BuiltIn
<1> QED
  BY <1>1, <1>2 DEF Init, RegistryInv

LEMMA RegisterLoaderKeepsRegistryInv ==
    ASSUME RegistryInv, NEW l \in Plugins, NEW placement \in Placements,
           RegisterLoader(l, placement)
    PROVE  RegistryInv'
<1> DEFINE new == [loader |-> l, placement |-> placement,
                   index |-> Index(placement), known |-> loaders]
<1>1. /\ pending' = pending \cup {new}
      /\ UNCHANGED <<loaders, placed>>
      /\ l \notin ToSet(loaders) \cup {p.loader : p \in pending}
      /\ placement # <<>> => placement[2] \in ToSet(loaders)
  BY DEF RegisterLoader
<1>2. placement # <<>> => placement[1] \in {"before", "after"}
  BY PlacementsAssumption
<1>3. loaders \in Seq(LoaderNames)
  BY DEF RegistryInv
<1>4. placement # <<>> => IndexOf(loaders, placement[2]) \in 1..Len(loaders)
  BY <1>1, <1>3, IndexOfElement
<1>5. /\ Index(placement) \in 1..(Len(loaders) + 1)
      /\ placement # <<>> =>
           Index(placement) = IF placement[1] = "before" THEN IndexOf(loaders, placement[2])
                              ELSE IndexOf(loaders, placement[2]) + 1
  <2>1. CASE placement = <<>>
    BY <1>3, <2>1 DEF Index
  <2>2. CASE placement # <<>> /\ placement[1] = "before"
    BY <1>3, <1>4, <2>2 DEF Index
  <2>3. CASE placement # <<>> /\ placement[1] = "after"
    BY <1>3, <1>4, <2>3 DEF Index
  <2> QED
    BY <1>2, <2>1, <2>2, <2>3
<1>6. RightIndex(new)
  BY <1>1, <1>2, <1>3, <1>4, <1>5 DEF RightIndex
<1>7. \A p : RightIndex(p)' <=> RightIndex(p)
  BY <1>1 DEF RightIndex
<1>8. \A p : InPlace(p)' <=> InPlace(p)
  BY <1>1 DEF InPlace
<1>9. \A p \in pending' :
        p.loader \in Plugins /\ p.loader \notin ToSet(loaders)' /\ RightIndex(p)'
  BY <1>1, <1>6, <1>7 DEF RegistryInv
<1>10. \A p, q \in pending' : p.loader = q.loader => p = q
  BY <1>1 DEF RegistryInv
<1> QED
  BY <1>1, <1>8, <1>9, <1>10 DEF RegistryInv

LEMMA RegisterKeepsRegistryInv ==
    ASSUME RegistryInv, NEW p \in pending, Register(p)
    PROVE  RegistryInv'
<1>0. PICK new : new = [loader |-> p.loader, placement |-> p.placement,
                        stale |-> loaders # p.known]
  OBVIOUS
<1>1. /\ pending' = pending \ {p}
      /\ loaders' = InsertAt(loaders, p.index, p.loader)
      /\ placed' = placed \cup {new}
  BY <1>0 DEF Register
<1>2. /\ loaders \in Seq(LoaderNames) /\ Distinct(loaders)
      /\ p.loader \in LoaderNames /\ p.loader \notin ToSet(loaders)
      /\ RightIndex(p) /\ p.index \in 1..(Len(loaders) + 1)
  BY DEF RegistryInv, RightIndex, LoaderNames
<1>3. /\ loaders' \in Seq(LoaderNames) /\ Len(loaders') = Len(loaders) + 1
      /\ Distinct(loaders')
      /\ ToSet(loaders') = ToSet(loaders) \cup {p.loader}
      /\ IndexOf(loaders', p.loader) = p.index
      /\ \A x \in ToSet(loaders) :
            IndexOf(loaders', x) = IF IndexOf(loaders, x) < p.index THEN IndexOf(loaders, x)
                                   ELSE IndexOf(loaders, x) + 1
  BY <1>1, <1>2, InsertAtIndexes
<1>4. \A x \in ToSet(loaders) : IndexOf(loaders, x) \in 1..Len(loaders)
  BY <1>2, IndexOfElement
<1>5. ASSUME NEW q \in pending'
      PROVE  q.loader \in Plugins /\ q.loader \notin ToSet(loaders') /\ RightIndex(q)'
  <2>1. /\ q \in pending /\ q # p
        /\ q.loader \in Plugins /\ q.loader \notin ToSet(loaders) /\ RightIndex(q)
    BY <1>1 DEF RegistryInv
  <2>2. q.loader # p.loader
    BY <2>1 DEF RegistryInv
  <2>3. q.known # loaders'
    BY <1>2, <1>3, <2>1 DEF RightIndex
  <2>4. RightIndex(q)'
    BY <1>2, <1>3, <1>4, <2>1, <2>3 DEF RightIndex
  <2> QED
    BY <1>3, <2>1, <2>2, <2>4
<1>6. \A q, r \in pending' : q.loader = r.loader => q = r
  BY <1>1 DEF RegistryInv
<1>7. ASSUME NEW q \in placed
      PROVE  /\ q.loader \in ToSet(loaders')
             /\ q.placement # <<>> => q.placement[2] \in ToSet(loaders')
             /\ InPlace(q)'
  <2>1. /\ q.loader \in ToSet(loaders)
        /\ q.placement # <<>> => q.placement[2] \in ToSet(loaders)
        /\ InPlace(q)
    BY DEF RegistryInv
  <2>2. InPlace(q)'
    BY <1>2, <1>3, <1>4, <2>1 DEF InPlace
  <2> QED
    BY <1>3, <2>1, <2>2
<1>8. /\ new.loader \in ToSet(loaders')
      /\ new.placement # <<>> => new.placement[2] \in ToSet(loaders')
      /\ InPlace(new)'
  <2>1. new.loader = p.loader /\ new.placement = p.placement /\ new.stale = (loaders # p.known)
    BY <1>0
  <2>2. CASE p.placement = <<>>
    BY <1>3, <2>1, <2>2 DEF InPlace
  <2>3. CASE p.placement # <<>> /\ p.placement[1] = "before"
    <3>1. p.index <= IndexOf(loaders, p.placement[2]) /\ p.placement[2] \in ToSet(loaders)
      BY <1>2, <2>3 DEF RightIndex
    <3>2. IndexOf(loaders', new.loader) < IndexOf(loaders', new.placement[2])
      BY <1>2, <1>3, <1>4, <2>1, <3>1
    <3> QED
      BY <1>3, <2>1, <2>3, <3>1, <3>2 DEF InPlace
  <2>4. CASE p.placement # <<>> /\ p.placement[1] = "after"
    <3>1. /\ p.placement[2] \in ToSet(loaders)
          /\ p.known = loaders => p.index = IndexOf(loaders, p.placement[2]) + 1
      BY <1>2, <2>4 DEF RightIndex
    <3>2. p.known = loaders =>
            IndexOf(loaders', new.loader) > IndexOf(loaders', new.placement[2])
      BY <1>2, <1>3, <1>4, <2>1, <3>1
    <3> QED
      BY <1>3, <2>1, <2>4, <3>1, <3>2 DEF InPlace
  <2> QED
    BY <1>2, <2>2, <2>3, <2>4 DEF RightIndex
<1>9. ToSet(BuiltIn) \subseteq ToSet(loaders')
  BY <1>3 DEF RegistryInv
<1> QED
  BY <1>1, <1>3, <1>5, <1>6, <1>7, <1>8, <1>9 DEF RegistryInv

\* Nothing else touches the registry.
LEMMA OthersKeepRegistryInv ==
    ASSUME RegistryInv, UNCHANGED <<loaders, pending, placed>>
    PROVE  RegistryInv'
BY DEF RegistryInv, RightIndex, InPlace

-----------------------------------------------------------------------------
(* The choice of classes *)

\* No class derives from one that was defined later, these are listed before it.
ClassesInv ==
    /\ Defined \subseteq ClassNames
    /\ \A c \in Defined : mro[c] \in Seq(Defined)
    /\ subclasses \in Seq(Defined)
    /\ \A i, j \in 1..Len(subclasses) : i < j => ~IsSubclass(subclasses[j], subclasses[i])

\* what is known of a call that goes on, and of the document that comes out of it
CallsInv ==
    /\ \A j \in job : j.cls \in Defined /\ j.klass \in Defined \cup {NIL}
    /\ \A doc \in made : doc.klass \in Defined /\ doc.fitting \subseteq Defined

LEMMA InitClassesInv == Init => ClassesInv /\ CallsInv /\ MostSpecificClassIsChosen
<1> SUFFICES ASSUME Init PROVE ClassesInv /\ CallsInv /\ MostSpecificClassIsChosen
  OBVIOUS
<1>1. Defined = {}
  BY DEF Init, Defined
<1>2. subclasses = <<>> /\ job = {} /\ made = {}
  BY DEF Init
<1> QED
  BY <1>1, <1>2 DEF ClassesInv, CallsInv, MostSpecificClassIsChosen

\* A class that wasn't defined before is no class's base.
LEMMA ExtendedKeepsClasses ==
    ASSUME ClassesInv, NEW c \in ClassNames, c \notin Defined,
           NEW bases \in Seq(Defined), Extended(c, bases)
    PROVE  /\ Defined' = Defined \cup {c}
           /\ \A x \in Defined' : mro'[x] \in Seq(Defined')
           /\ \A x \in Defined : mro'[x] = mro[x]
           /\ \A x \in Defined : ~IsSubclass(x, c)
<1>1. mro' = [x \in Defined \cup {c} |-> IF x = c THEN <<c>> \o bases ELSE mro[x]]
  BY DEF Extended
<1>2. Defined' = Defined \cup {c}
  BY <1>1 DEF Defined
<1> HIDE DEF Defined
<1>3. <<c>> \o bases \in Seq(Defined \cup {c})
  <2>1. <<c>> \in Seq(Defined \cup {c}) /\ bases \in Seq(Defined \cup {c})
    OBVIOUS
  <2> QED
    BY <2>1, ConcatProperties
<1>4. \A x \in Defined : mro[x] \in Seq(Defined \cup {c})
  <2> SUFFICES ASSUME NEW x \in Defined PROVE mro[x] \in Seq(Defined \cup {c})
    OBVIOUS
  <2>1. mro[x] \in Seq(Defined)
    BY DEF ClassesInv
  <2> QED
    BY <2>1
<1>5. \A x \in Defined : ~IsSubclass(x, c)
  BY DEF ClassesInv, IsSubclass, Contains
<1> QED
  BY <1>1, <1>2, <1>3, <1>4, <1>5

\* What was chosen among classes stays the most specific one when others are defined.
LEMMA ExtendedKeepsChoices ==
    ASSUME ClassesInv, CallsInv, MostSpecificClassIsChosen,
           NEW c \in ClassNames, c \notin Defined,
           NEW bases \in Seq(Defined), Extended(c, bases), UNCHANGED <<job, made>>
    PROVE  CallsInv' /\ MostSpecificClassIsChosen'
<1>1. Defined' = Defined \cup {c} /\ \A x \in Defined : mro'[x] = mro[x]
  BY ExtendedKeepsClasses
<1> HIDE DEF Defined
<1>2. CallsInv'
  BY <1>1 DEF CallsInv
<1>3. \A x \in Defined : \A y : IsSubclass(x, y)' <=> IsSubclass(x, y)
  BY <1>1 DEF IsSubclass
<1>4. MostSpecificClassIsChosen'
  BY <1>3 DEF MostSpecificClassIsChosen, CallsInv
<1> QED
  BY <1>2, <1>4

LEMMA DefineDocumentKeepsClasses ==
    ASSUME ClassesInv, CallsInv, MostSpecificClassIsChosen, DefineDocument
    PROVE  ClassesInv' /\ CallsInv' /\ MostSpecificClassIsChosen'
<1>1. /\ Defined = {} /\ Extended("Document", <<>>)
      /\ UNCHANGED <<subclasses, job, made>>
  BY DEF DefineDocument
<1>2. "Document" \in ClassNames /\ "Document" \notin Defined /\ <<>> \in Seq(Defined)
  BY <1>1 DEF ClassNames
<1>3. Defined' = {"Document"} /\ \A x \in Defined' : mro'[x] \in Seq(Defined')
  BY <1>1, <1>2, ExtendedKeepsClasses
<1>4. CallsInv' /\ MostSpecificClassIsChosen'
  BY <1>1, <1>2, ExtendedKeepsChoices
<1> HIDE DEF Defined
<1>5. subclasses \in Seq(Defined) /\ Len(subclasses) = 0
  BY <1>1 DEF ClassesInv
<1>6. ClassesInv'
  BY <1>1, <1>2, <1>3, <1>5 DEF ClassesInv
<1> QED
  BY <1>4, <1>6

LEMMA DefineClassKeepsClasses ==
    ASSUME ClassesInv, CallsInv, MostSpecificClassIsChosen,
           NEW c \in Classes, NEW b \in Defined, DefineClass(c, b)
    PROVE  ClassesInv' /\ CallsInv' /\ MostSpecificClassIsChosen'
<1>1. /\ c \notin Defined /\ Extended(c, mro[b])
      /\ subclasses' = <<c>> \o subclasses
      /\ UNCHANGED <<job, made>>
  BY DEF DefineClass, Registered
<1>2. c \in ClassNames /\ mro[b] \in Seq(Defined)
  BY DEF ClassNames, ClassesInv
<1>3. /\ Defined' = Defined \cup {c}
      /\ \A x \in Defined' : mro'[x] \in Seq(Defined')
      /\ \A x \in Defined : mro'[x] = mro[x]
      /\ \A x \in Defined : ~IsSubclass(x, c)
  BY <1>1, <1>2, ExtendedKeepsClasses
<1>4. CallsInv' /\ MostSpecificClassIsChosen'
  BY <1>1, <1>2, ExtendedKeepsChoices
<1> HIDE DEF Defined
<1>5. \A x \in Defined : \A y : Contains(mro'[x], y) <=> IsSubclass(x, y)
  BY <1>3 DEF IsSubclass
<1>6. subclasses \in Seq(Defined) /\ subclasses \in Seq(Defined \cup {c})
  BY DEF ClassesInv
<1>7. /\ subclasses' \in Seq(Defined') /\ Len(subclasses') = Len(subclasses) + 1
      /\ subclasses'[1] = c
      /\ \A i \in 2..Len(subclasses') : subclasses'[i] = subclasses[i - 1]
  <2>1. c \in Defined \cup {c}
    OBVIOUS
  <2> QED
    BY <1>1, <1>3, <1>6, <2>1, PrependElements
<1>8. (\A i, j \in 1..Len(subclasses) : i < j => ~IsSubclass(subclasses[j], subclasses[i]))'
  <2> SUFFICES ASSUME NEW i \in 1..Len(subclasses'), NEW j \in 1..Len(subclasses'), i < j
               PROVE  ~Contains(mro'[subclasses'[j]], subclasses'[i])
    BY DEF IsSubclass
  <2>1. j - 1 \in 1..Len(subclasses) /\ subclasses'[j] = subclasses[j - 1]
    BY <1>6, <1>7
  <2>2. subclasses[j - 1] \in Defined
    BY <1>6, <2>1
  <2>3. CASE i = 1
    <3>1. ~IsSubclass(subclasses[j - 1], c)
      BY <1>3, <2>2
    <3> QED
      BY <1>5, <1>7, <2>1, <2>2, <2>3, <3>1
  <2>4. CASE i > 1
    <3>1. i - 1 \in 1..Len(subclasses) /\ i - 1 < j - 1 /\ subclasses'[i] = subclasses[i - 1]
      BY <1>6, <1>7, <2>4
    <3>2. ~IsSubclass(subclasses[j - 1], subclasses[i - 1])
      BY <2>1, <3>1 DEF ClassesInv
    <3> QED
      BY <1>5, <2>1, <2>2, <3>1, <3>2
  <2> QED
    BY <2>3, <2>4
<1>9. Defined' \subseteq ClassNames
  BY <1>2, <1>3 DEF ClassesInv
<1> QED
  BY <1>3, <1>4, <1>7, <1>8, <1>9 DEF ClassesInv

\* The one with the least index is derived from by no other one that fits.
LEMMA ChosenIsMostSpecific ==
    ASSUME ClassesInv, NEW cls \in Defined, NEW fitting \in SUBSET Testing
    PROVE  LET fit == {c \in ToSet(subclasses) : Fits(c, fitting)} IN
           /\ fit \subseteq Defined /\ Chosen(cls, fitting) \in Defined
           /\ IF fit = {} THEN Chosen(cls, fitting) = cls
              ELSE /\ Chosen(cls, fitting) \in fit
                   /\ \A c \in fit \ {Chosen(cls, fitting)} : ~IsSubclass(c, Chosen(cls, fitting))
<1> DEFINE fit == {c \in ToSet(subclasses) : Fits(c, fitting)}
           places == {i \in DOMAIN subclasses : Fits(subclasses[i], fitting)}
<1> HIDE DEF Defined
<1>1. subclasses \in Seq(Defined)
  BY DEF ClassesInv
<1>2. /\ places \in SUBSET (1..Len(subclasses))
      /\ \A i \in places : subclasses[i] \in fit
      /\ \A c \in fit : \E i \in places : subclasses[i] = c
      /\ fit \subseteq Defined
  BY <1>1 DEF ToSet
<1>3. Chosen(cls, fitting) = IF places = {} THEN cls ELSE subclasses[Min(places)]
  BY DEF Chosen
<1> HIDE DEF fit, places
<1>4. CASE places = {}
  BY <1>2, <1>3, <1>4 DEF fit
<1>5. CASE places # {}
  <2>1. places \in SUBSET Nat
    BY <1>1, <1>2
  <2>2. PICK n \in places : \A m \in places : ~(<<m, n>> \in OpToRel(<, Nat))
    BY <1>5, <2>1, WFMin, NatLessThanWellFounded
  <2>3. Min(places) \in places /\ \A m \in places : Min(places) <= m
    <3>1. ASSUME NEW m \in places PROVE n <= m
      <4>1. n \in Nat /\ m \in Nat
        BY <2>1
      <4>2. m < n => <<m, n>> \in OpToRel(<, Nat)
        BY <4>1 DEF OpToRel
      <4>3. ~(m < n)
        BY <2>2, <4>2
      <4> QED
        BY <4>1, <4>3
    <3> QED
      BY <3>1 DEF Min
  <2>4. Chosen(cls, fitting) = subclasses[Min(places)] /\ Chosen(cls, fitting) \in fit
    BY <1>2, <1>3, <1>5, <2>3
  <2>5. ASSUME NEW c \in fit, c # Chosen(cls, fitting)
        PROVE  ~IsSubclass(c, Chosen(cls, fitting))
    <3>1. PICK j \in places : subclasses[j] = c
      BY <1>2
    <3>2. Min(places) < j
      BY <2>1, <2>3, <2>4, <2>5, <3>1
    <3> QED
      BY <1>2, <2>3, <2>4, <3>1, <3>2 DEF ClassesInv
  <2> QED
    BY <1>2, <2>4, <2>5 DEF fit
<1> QED
  BY <1>4, <1>5

-----------------------------------------------------------------------------
(* What loaders do *)

\* Without a plugin's interference a source_url is the given one or, if there's none,
\* where the loader got contents from; a web loader's always is.
Tracked(source, given, url) ==
    \/ url = given
    \/ /\ url = "own" /\ source.kind \in {"path", "buffer", "url"}
       /\ source.kind # "url" => given = NIL

Unrequested(source, url) == source.kind = "url" /\ ~source.found => url # "own"

\* why a loader wouldn't load a source of its kind; whether a source_url was given and no
\* plugin interfered matters
Excused(loader, source, known) ==
    /\ loader = "tag node" /\ source.kind = "tag" => source.node = NIL
    /\ loader = "path" /\ source.kind = "path" => ~source.found \/ ~source.wellformed
    /\ loader = "buffer" /\ source.kind = "buffer" =>
          ~source.wellformed \/ (~source.named /\ ~known)
    /\ loader = "text" /\ source.kind = "text" => ~source.wellformed
    /\ loader = "web" /\ source.kind = "url" => ~source.found \/ ~source.wellformed

LEMMA BuiltInNames == ToSet(BuiltIn) = {"path", "buffer", "text", "web"}
<1>1. /\ DOMAIN BuiltIn = {1, 2, 3, 4}
      /\ BuiltIn[1] = "path" /\ BuiltIn[2] = "buffer" /\ BuiltIn[3] = "text" /\ BuiltIn[4] = "web"
  BY DEF BuiltIn
<1> QED
  BY <1>1 DEF ToSet

LEMMA PluginAttempt ==
    ASSUME NEW loader \in Plugins, NEW source \in Sources, NEW url \in Urls,
           NEW a \in Attempts(loader, source, url)
    PROVE  /\ a.url \in {url, "plugin", NIL}
           /\ a.result \in {"excuse", "raises", "nodes"}
<1>1. Attempts(loader, source, url) =
        [result : {"excuse", "raises", "nodes"}, url : {url, "plugin", NIL}]
  <2>1. loader \notin {"tag node", "path", "buffer", "text", "web"}
    BY NamesAssumption, BuiltInNames
  <2> QED
    BY <2>1 DEF Attempts
<1> QED
  BY <1>1

LEMMA BuiltInAttempt ==
    ASSUME NEW loader \in LoaderNames \ Plugins, NEW source \in Sources, NEW url \in Urls,
           NEW given \in {NIL, "given"}, NEW known \in BOOLEAN, known => url # NIL,
           NEW a \in Attempts(loader, source, url)
    PROVE  /\ a.url \in Urls
           /\ known => a.url # NIL
           /\ a.result # "nodes" => Excused(loader, source, known)
           /\ Unrequested(source, url) => Unrequested(source, a.url)
           /\ Tracked(source, given, url) => Tracked(source, given, a.url)
           /\ a.result = "nodes" /\ Tracked(source, given, url) =>
                a.url = IF loader = "web" THEN "own"
                        ELSE IF loader \in {"path", "buffer"} /\ given = NIL THEN "own"
                        ELSE given
<1>1. loader \in {"tag node", "path", "buffer", "text", "web"}
  BY BuiltInNames DEF LoaderNames
<1>2. /\ source.kind \in Kinds /\ source.found \in BOOLEAN
      /\ source.named \in BOOLEAN /\ source.wellformed \in BOOLEAN
  BY SourcesAssumption
<1>3. NIL # "own" /\ NIL # "given" /\ NIL # "plugin"
  BY NILAssumption
<1>4. CASE loader = "tag node"
  <2>1. a = IF source.kind = "tag" /\ source.node # NIL THEN Success(url) ELSE Excuse(url)
    BY <1>4 DEF Attempts
  <2> QED
    BY <1>2, <1>3, <1>4, <2>1 DEF Success, Excuse, Kinds, Urls, Excused, Unrequested, Tracked
<1>5. CASE loader = "path"
  <2>1. a = IF source.kind = "path" THEN PathLoader(source, url) ELSE Excuse(url)
    BY <1>5 DEF Attempts
  <2> QED
    BY <1>2, <1>3, <1>5, <2>1
       DEF PathLoader, BufferLoader, ParseResult, Success, Excuse, Raises, Kinds, Urls, Excused, Unrequested,
           Tracked
<1>6. CASE loader = "buffer"
  <2>1. a = IF source.kind = "buffer"
            THEN BufferLoader(source, IF source.named THEN "own" ELSE NIL, url)
            ELSE Excuse(url)
    BY <1>6 DEF Attempts
  <2> QED
    BY <1>2, <1>3, <1>6, <2>1
       DEF BufferLoader, ParseResult, Success, Excuse, Raises, Kinds, Urls, Excused, Unrequested, Tracked
<1>7. CASE loader = "text"
  <2>1. a = IF source.kind = "text" THEN ParseResult(source, url)
            ELSE IF source.kind = "url" THEN Raises(url) ELSE Excuse(url)
    BY <1>7 DEF Attempts
  <2> QED
    BY <1>2, <1>3, <1>7, <2>1
       DEF ParseResult, Success, Excuse, Raises, Kinds, Urls, Excused, Unrequested, Tracked
<1>8. CASE loader = "web"
  <2>1. a = IF source.kind = "url" THEN WebLoader(source, url) ELSE Excuse(url)
    BY <1>8 DEF Attempts
  <2> QED
    BY <1>2, <1>3, <1>8, <2>1
       DEF WebLoader, BufferLoader, ParseResult, Success, Excuse, Raises, Kinds, Urls, Excused, Unrequested,
           Tracked
<1> QED
  BY <1>1, <1>4, <1>5, <1>6, <1>7, <1>8

-----------------------------------------------------------------------------
(* Calls that load documents *)

Nodes == {source.node : source \in Sources} \cup {NIL}

Job == [cls : ClassNames, source : Sources, klass : ClassNames \cup {NIL},
        given : {NIL, "given"}, url : Urls, left : Seq(LoaderNames),
        misleading : SUBSET LoaderNames, by : LoaderNames \cup {NIL}, node : Nodes,
        spent : BOOLEAN]

Doc == [cls : ClassNames, klass : ClassNames, asked : ClassNames \cup {NIL}, node : Nodes,
        source : Sources, by : LoaderNames, given : {NIL, "given"},
        misleading : SUBSET LoaderNames, url : Urls \cup {UNSET}, config_url : Urls,
        fitting : SUBSET ClassNames]

SeenInv ==
    /\ \A c \in Defined :
          seen[c] \in Seq(LoaderNames) /\ LoaderNames \ Plugins \subseteq ToSet(seen[c])
    /\ DOMAIN seen = Defined

\* A source_url can be traced unless a plugin interfered; loaders of the library that are
\* no longer to be tried have an excuse.
Knows(j) == j.given # NIL /\ j.misleading \cap Plugins = {}

Traceable(j) ==
    /\ j.by = NIL /\ Knows(j) => j.url # NIL
    /\ Unrequested(j.source, j.url)
    /\ j.by = NIL /\ j.misleading \cap Plugins = {} => Tracked(j.source, j.given, j.url)
    /\ j.by \notin Plugins \cup {NIL} /\ j.misleading \cap Plugins = {} => j.url = Origin(j)
    /\ j.by = NIL => \A loader \in LoaderNames \ Plugins :
                        loader \in ToSet(j.left) \/ Excused(loader, j.source, Knows(j))

\* What was loaded is in no document until a class test puts it into one.
UsedByTests(j) ==
    /\ j.by = NIL => j.node = NIL /\ ~j.spent
    /\ IsTaken(j) => j.klass = NIL /\ IsTested

LoadingInv ==
    /\ job \subseteq Job /\ made \subseteq Doc
    /\ \A j, x \in job : x = j
    /\ \A j \in job : Traceable(j) /\ UsedByTests(j)
    /\ NIL \notin taken
    /\ SourceUrlIsTheOrigin /\ FailuresHaveReasons

LEMMA SameTests ==
    ASSUME UNCHANGED <<mro, subclasses>>
    PROVE  IsTested' <=> IsTested
BY DEF IsTested, Fits

LEMMA TryLoaderKeepsLoadingInv ==
    ASSUME LoadingInv, TryLoader
    PROVE  LoadingInv'
<1>0. PICK j \in job :
        /\ j.by = NIL /\ j.left # <<>>
        /\ \E a \in Attempts(Head(j.left), j.source, j.url) :
              job' = {IF a.result = "nodes"
                      THEN [j EXCEPT !.by = Head(j.left), !.url = a.url,
                                     !.node = LoadedNode(Head(j.left), j.source)]
                      ELSE [j EXCEPT !.left = Tail(@), !.url = a.url,
                                     !.misleading = @ \cup IF a.url = j.url THEN {}
                                                           ELSE {Head(j.left)}]}
  BY DEF TryLoader
<1>1. PICK a \in Attempts(Head(j.left), j.source, j.url) :
        /\ j.by = NIL /\ j.left # <<>>
        /\ job' = {IF a.result = "nodes"
                   THEN [j EXCEPT !.by = Head(j.left), !.url = a.url,
                                  !.node = LoadedNode(Head(j.left), j.source)]
                   ELSE [j EXCEPT !.left = Tail(@), !.url = a.url,
                                  !.misleading = @ \cup IF a.url = j.url THEN {}
                                                        ELSE {Head(j.left)}]}
  BY <1>0
<1>2. UNCHANGED <<made, failed, taken>> /\ (IsTested' <=> IsTested)
  BY SameTests DEF TryLoader, registry
<1>3. j \in Job /\ Traceable(j) /\ UsedByTests(j)
  BY DEF LoadingInv
<1> DEFINE loader == Head(j.left)
<1>4. loader \in LoaderNames /\ Tail(j.left) \in Seq(LoaderNames)
      /\ \A x \in ToSet(j.left) : x = loader \/ x \in ToSet(Tail(j.left))
  <2>1. j.left \in Seq(LoaderNames) /\ j.left # <<>>
    BY <1>1, <1>3 DEF Job
  <2> QED
    BY <2>1, HeadAndTailElements DEF loader
<1>5. /\ j.source \in Sources /\ j.url \in Urls /\ j.given \in {NIL, "given"}
      /\ Knows(j) \in BOOLEAN /\ (Knows(j) => j.url # NIL)
  BY <1>1, <1>3 DEF Job, Traceable, Knows
<1> HIDE DEF loader
<1>6. a \in Attempts(loader, j.source, j.url)
  BY <1>1 DEF loader
<1>7. /\ a.url \in Urls /\ (loader \notin Plugins /\ Knows(j) => a.url # NIL)
      /\ Unrequested(j.source, a.url)
  <2>1. CASE loader \in Plugins
    <3>1. a.url \in {j.url, "plugin", NIL}
      BY <1>5, <1>6, <2>1, PluginAttempt
    <3>2. NIL # "own"
      BY NILAssumption
    <3> QED
      BY <1>3, <1>5, <2>1, <3>1, <3>2 DEF Urls, Traceable, Unrequested
  <2>2. CASE loader \notin Plugins
    BY <1>3, <1>4, <1>5, <1>6, <2>2, BuiltInAttempt DEF Traceable
  <2> QED
    BY <2>1, <2>2
<1>8. ASSUME a.result = "nodes"
      PROVE  \A x \in job' : x \in Job /\ Traceable(x) /\ UsedByTests(x)'
  <2>0. PICK node : node = LoadedNode(loader, j.source)
    OBVIOUS
  <2>1. PICK x : x = [j EXCEPT !.by = loader, !.url = a.url, !.node = node]
    OBVIOUS
  <2>2. job' = {x}
    BY <1>1, <1>8, <2>0, <2>1 DEF loader
  <2>3. node \in Nodes /\ node \notin taken
    BY <1>5, <2>0 DEF LoadedNode, LoadingInv, Nodes
  <2>4. /\ x \in Job
        /\ x.by = loader /\ x.url = a.url /\ x.source = j.source /\ x.given = j.given
        /\ x.misleading = j.misleading /\ x.node = node /\ x.spent = j.spent
    BY <1>3, <1>4, <1>7, <2>1, <2>3 DEF Job
  <2>5. x.by # NIL
    BY <1>4, <2>4, NILAssumption
  <2>6. x.by \notin Plugins \cup {NIL} /\ x.misleading \cap Plugins = {} => x.url = Origin(x)
    <3> SUFFICES ASSUME loader \notin Plugins, j.misleading \cap Plugins = {}
                 PROVE  x.url = Origin(x)
      BY <2>4
    <3>1. Tracked(j.source, j.given, j.url)
      BY <1>1, <1>3 DEF Traceable
    <3>2. a.url = IF loader = "web" THEN "own"
                  ELSE IF loader \in {"path", "buffer"} /\ j.given = NIL THEN "own"
                  ELSE j.given
      BY <1>4, <1>5, <1>6, <1>8, <3>1, BuiltInAttempt
    <3>3. Origin(x) = IF loader = "web" THEN "own"
                      ELSE IF loader \in {"path", "buffer"} /\ j.given = NIL THEN "own"
                      ELSE j.given
      <4>1. CASE loader = "web"
        BY <2>4, <4>1 DEF Origin
      <4>2. CASE loader \in {"path", "buffer"}
        BY <2>4, <4>2 DEF Origin
      <4>3. CASE loader \notin {"web", "path", "buffer"}
        BY <2>4, <4>3 DEF Origin
      <4> QED
        BY <4>1, <4>2, <4>3
    <3> QED
      BY <2>4, <3>2, <3>3
  <2>7. Traceable(x)
    BY <1>7, <2>4, <2>5, <2>6 DEF Traceable
  <2>8. UsedByTests(x)'
    BY <1>1, <1>2, <1>3, <2>3, <2>4, <2>5 DEF UsedByTests, IsTaken
  <2> QED
    BY <2>2, <2>4, <2>7, <2>8
<1>9. ASSUME a.result # "nodes"
      PROVE  \A x \in job' : x \in Job /\ Traceable(x) /\ UsedByTests(x)'
  <2>1. PICK x : x = [j EXCEPT !.left = Tail(j.left), !.url = a.url,
                               !.misleading = j.misleading \cup IF a.url = j.url THEN {}
                                                                ELSE {loader}]
    OBVIOUS
  <2>2. job' = {x}
    BY <1>1, <1>9, <2>1 DEF loader
  <2>3. /\ x \in Job
        /\ x.by = NIL /\ x.url = a.url /\ x.source = j.source /\ x.given = j.given
        /\ x.left = Tail(j.left) /\ x.node = j.node /\ x.spent = j.spent
        /\ x.misleading = j.misleading \cup IF a.url = j.url THEN {} ELSE {loader}
    BY <1>1, <1>3, <1>4, <1>7, <2>1 DEF Job
  <2>4. x.misleading \cap Plugins = {} => Tracked(x.source, x.given, x.url)
    <3> SUFFICES ASSUME x.misleading \cap Plugins = {} PROVE Tracked(j.source, j.given, a.url)
      BY <2>3
    <3>1. Tracked(j.source, j.given, j.url)
      BY <1>1, <1>3, <2>3 DEF Traceable
    <3>2. CASE loader \in Plugins
      BY <2>3, <3>1, <3>2
    <3>3. CASE loader \notin Plugins
      BY <1>4, <1>5, <1>6, <3>1, <3>3, BuiltInAttempt
    <3> QED
      BY <3>2, <3>3
  <2>5. Knows(x) => Knows(j)
    BY <2>3 DEF Knows
  <2>6. ASSUME NEW l \in LoaderNames \ Plugins
        PROVE  l \in ToSet(x.left) \/ Excused(l, x.source, Knows(x))
    <3>1. l \in ToSet(j.left) \/ Excused(l, j.source, Knows(j))
      BY <1>1, <1>3 DEF Traceable
    <3>2. Excused(l, j.source, Knows(j)) => Excused(l, x.source, Knows(x))
      BY <2>3, <2>5 DEF Excused
    <3>3. CASE l = loader
      <4>1. Excused(loader, j.source, Knows(j))
        BY <1>4, <1>5, <1>6, <1>9, <3>3, BuiltInAttempt
      <4> QED
        BY <3>2, <3>3, <4>1
    <3>4. CASE l # loader
      BY <1>4, <2>3, <3>1, <3>2, <3>4
    <3> QED
      BY <3>3, <3>4
  <2>7. Knows(x) => x.url # NIL
    <3> SUFFICES ASSUME Knows(x) PROVE a.url # NIL
      BY <2>3
    <3>1. Knows(j) /\ (loader \in Plugins => a.url = j.url)
      BY <2>3, <2>5 DEF Knows
    <3> QED
      BY <1>5, <1>7, <3>1
  <2>8. Traceable(x)
    BY <1>7, <2>3, <2>4, <2>6, <2>7 DEF Traceable
  <2>9. UsedByTests(x)'
    BY <1>1, <1>2, <1>3, <2>3 DEF LoadingInv, UsedByTests, IsTaken
  <2> QED
    BY <2>2, <2>3, <2>8, <2>9
<1>10. SourceUrlIsTheOrigin' /\ FailuresHaveReasons'
  BY <1>2 DEF LoadingInv, SourceUrlIsTheOrigin, FailuresHaveReasons, Origin
<1>11. \A x, y \in job' : x = y
  BY <1>1
<1> QED
  BY <1>2, <1>8, <1>9, <1>10, <1>11 DEF LoadingInv

\* A class knows all loaders of the library, and the one for tag nodes.
LEMMA ExtendedKeepsSeenInv ==
    ASSUME SeenInv, RegistryInv, NEW c, c \notin Defined, NEW bases, Extended(c, bases)
    PROVE  SeenInv'
<1>1. /\ Defined' = Defined \cup {c}
      /\ seen' = [x \in Defined \cup {c} |-> IF x = c THEN <<"tag node">> \o loaders ELSE seen[x]]
  BY DEF Extended, Defined
<1>2. PICK s : s = <<"tag node">> \o loaders
  OBVIOUS
<1>3. s \in Seq(LoaderNames) /\ LoaderNames \ Plugins \subseteq ToSet(s)
  <2>1. loaders \in Seq(LoaderNames) /\ ToSet(BuiltIn) \subseteq ToSet(loaders)
    BY DEF RegistryInv
  <2>2. "tag node" \in LoaderNames
    BY DEF LoaderNames
  <2>3. s \in Seq(LoaderNames) /\ {"tag node"} \cup ToSet(loaders) \subseteq ToSet(s)
    BY <1>2, <2>1, <2>2, PrependElements
  <2> QED
    BY <2>1, <2>3 DEF LoaderNames
<1> HIDE DEF Defined
<1> QED
  BY <1>1, <1>2, <1>3 DEF SeenInv

LEMMA LoadKeepsLoadingInv ==
    ASSUME LoadingInv, SeenInv, ClassesInv, NEW cls \in Defined, NEW source \in Sources,
           NEW klass \in Defined \cup {NIL}, NEW url \in {NIL, "given"},
           Load(cls, source, klass, url)
    PROVE  LoadingInv'
<1>1. PICK j : j = [cls |-> cls, source |-> source, klass |-> klass, given |-> url, url |-> url,
                    left |-> seen[cls], misleading |-> {}, by |-> NIL, node |-> NIL,
                    spent |-> FALSE]
  OBVIOUS
<1>2. job' = {j} /\ UNCHANGED <<made, failed, taken>> /\ (IsTested' <=> IsTested)
  BY <1>1, SameTests DEF Load, registry
<1> HIDE DEF Defined
<1>3. cls \in ClassNames /\ klass \in ClassNames \cup {NIL}
  BY DEF ClassesInv
<1>4. seen[cls] \in Seq(LoaderNames) /\ LoaderNames \ Plugins \subseteq ToSet(seen[cls])
  BY DEF SeenInv
<1>5. j \in Job
  <2>1. NIL \in Nodes
    BY DEF Nodes
  <2> QED
    BY <1>1, <1>3, <1>4, <2>1 DEF Job, Urls
<1>6. /\ j.given = url /\ j.url = url /\ j.source = source /\ j.left = seen[cls] /\ j.by = NIL
      /\ j.node = NIL /\ j.spent = FALSE
      /\ url # "own"
  BY <1>1, NILAssumption
<1>7. Traceable(j)
  BY <1>4, <1>6 DEF Traceable, Tracked, Unrequested, Knows
<1>8. UsedByTests(j)'
  BY <1>2, <1>6 DEF LoadingInv, UsedByTests, IsTaken
<1>9. SourceUrlIsTheOrigin' /\ FailuresHaveReasons'
  BY <1>2 DEF LoadingInv, SourceUrlIsTheOrigin, FailuresHaveReasons, Origin
<1> QED
  BY <1>2, <1>5, <1>7, <1>8, <1>9 DEF LoadingInv

\* Nothing remains of a call that failed but the reason.
LEMMA FailedKeepsLoadingInv ==
    ASSUME LoadingInv, NEW j \in job, NEW refused \in BOOLEAN, Failed(j, refused),
           IF refused THEN j.klass = NIL /\ IsTested
           ELSE \/ j.source.kind = "tag" /\ j.source.node = NIL
                \/ ~j.source.found
                \/ ~j.source.wellformed
                \/ j.source.kind = "buffer" /\ ~j.source.named /\ ~Knows(j)
    PROVE  LoadingInv'
<1>1. PICK f : f = [source |-> j.source, given |-> j.given, klass |-> j.klass,
                    misleading |-> j.misleading, refused |-> refused]
  OBVIOUS
<1>2. job' = {} /\ failed' = {f} /\ UNCHANGED <<made, taken>> /\ (IsTested' <=> IsTested)
  BY <1>1, SameTests DEF Failed, registry
<1>3. /\ f.source = j.source /\ f.given = j.given /\ f.klass = j.klass
      /\ f.misleading = j.misleading /\ f.refused = refused
  BY <1>1
<1>4. FailuresHaveReasons'
  BY <1>2, <1>3 DEF FailuresHaveReasons, Knows
<1>5. SourceUrlIsTheOrigin'
  BY <1>2 DEF LoadingInv, SourceUrlIsTheOrigin, Origin
<1> QED
  BY <1>2, <1>4, <1>5 DEF LoadingInv

LEMMA GiveUpKeepsLoadingInv ==
    ASSUME LoadingInv, GiveUp
    PROVE  LoadingInv'
<1>1. PICK j \in job : j.by = NIL /\ j.left = <<>> /\ Failed(j, FALSE)
  BY DEF GiveUp
<1>2. j \in Job /\ Traceable(j)
  BY DEF LoadingInv
<1>3. ToSet(j.left) = {}
  BY <1>1 DEF ToSet
<1>4. \A loader \in {"tag node", "path", "buffer", "text", "web"} :
        Excused(loader, j.source, Knows(j))
  <2>1. {"tag node", "path", "buffer", "text", "web"} \subseteq LoaderNames \ Plugins
    BY BuiltInNames, NamesAssumption DEF LoaderNames
  <2> QED
    BY <1>1, <1>2, <1>3, <2>1 DEF Traceable
<1>5. j.source.kind \in {"tag", "path", "buffer", "text", "url"}
  BY <1>2, SourcesAssumption DEF Job, Kinds
<1>6. \/ j.source.kind = "tag" /\ j.source.node = NIL
      \/ ~j.source.found
      \/ ~j.source.wellformed
      \/ j.source.kind = "buffer" /\ ~j.source.named /\ ~Knows(j)
  BY <1>4, <1>5 DEF Excused
<1> QED
  BY <1>1, <1>6, FailedKeepsLoadingInv

LEMMA RefuseKeepsLoadingInv ==
    ASSUME LoadingInv, Refuse
    PROVE  LoadingInv'
<1>1. PICK j \in job : j.by # NIL /\ IsTaken(j) /\ Failed(j, TRUE)
  BY DEF Refuse
<1>2. j.klass = NIL /\ IsTested
  BY <1>1 DEF LoadingInv, UsedByTests
<1> QED
  BY <1>1, <1>2, FailedKeepsLoadingInv

LEMMA ConstructKeepsLoadingInv ==
    ASSUME LoadingInv, ClassesInv, CallsInv, MostSpecificClassIsChosen,
           NEW fitting \in SUBSET Testing, Construct(fitting)
    PROVE  LoadingInv' /\ ClassesInv' /\ CallsInv' /\ MostSpecificClassIsChosen'
<1>1. PICK j \in job :
        LET klass == IF j.klass # NIL THEN j.klass ELSE Chosen(j.cls, fitting)
            initialized == IsSubclass(klass, j.cls) IN
        /\ j.by # NIL
        /\ made' = {[cls |-> j.cls, klass |-> klass, asked |-> j.klass, node |-> j.node,
                     source |-> j.source, by |-> j.by, given |-> j.given,
                     misleading |-> j.misleading,
                     url |-> IF initialized THEN j.url ELSE UNSET,
                     config_url |-> IF initialized THEN NIL ELSE j.url,
                     fitting |-> {c \in ToSet(subclasses) : Fits(c, fitting)}]}
        /\ taken' = (taken \cup {j.node}) \ {NIL}
        /\ job' = {}
        /\ UNCHANGED <<registry, failed>>
  BY DEF Construct
<1>2. PICK klass, url, config_url, fit :
        /\ klass = IF j.klass # NIL THEN j.klass ELSE Chosen(j.cls, fitting)
        /\ url = IF IsSubclass(klass, j.cls) THEN j.url ELSE UNSET
        /\ config_url = IF IsSubclass(klass, j.cls) THEN NIL ELSE j.url
        /\ fit = {c \in ToSet(subclasses) : Fits(c, fitting)}
  OBVIOUS
<1>3. PICK doc :
        doc = [cls |-> j.cls, klass |-> klass, asked |-> j.klass, node |-> j.node,
               source |-> j.source, by |-> j.by, given |-> j.given,
               misleading |-> j.misleading, url |-> url, config_url |-> config_url,
               fitting |-> fit]
  OBVIOUS
<1>4. /\ made' = {doc} /\ job' = {} /\ taken' = (taken \cup {j.node}) \ {NIL}
      /\ j.by # NIL /\ UNCHANGED <<mro, subclasses, failed>>
  BY <1>1, <1>2, <1>3 DEF registry
<1>5. j \in Job /\ Traceable(j) /\ j.cls \in Defined /\ j.klass \in Defined \cup {NIL}
  BY DEF LoadingInv, CallsInv
<1>6. /\ fit \subseteq Defined /\ Chosen(j.cls, fitting) \in Defined
      /\ IF fit = {} THEN Chosen(j.cls, fitting) = j.cls
         ELSE /\ Chosen(j.cls, fitting) \in fit
              /\ \A c \in fit \ {Chosen(j.cls, fitting)} : ~IsSubclass(c, Chosen(j.cls, fitting))
  BY <1>2, <1>5, ChosenIsMostSpecific
<1>7. klass \in Defined /\ Defined \subseteq ClassNames
  BY <1>2, <1>5, <1>6 DEF ClassesInv
<1>8. Defined' = Defined /\ \A x, y : IsSubclass(x, y)' <=> IsSubclass(x, y)
  BY <1>4 DEF Defined, IsSubclass
<1>9. ClassesInv'
  BY <1>4 DEF ClassesInv, Defined, IsSubclass
<1> HIDE DEF Defined
<1>10. CallsInv'
  BY <1>3, <1>4, <1>6, <1>7, <1>8 DEF CallsInv
<1>11. MostSpecificClassIsChosen'
  <2> SUFFICES ASSUME j.klass = NIL
               PROVE  IF fit = {} THEN klass = j.cls
                      ELSE /\ klass \in fit
                           /\ \A c \in fit \ {klass} : ~IsSubclass(c, klass)'
    BY <1>3, <1>4 DEF MostSpecificClassIsChosen
  <2> QED
    BY <1>2, <1>6, <1>8
<1>12. doc \in Doc
  <2>1. j.node \in Nodes
    BY <1>5 DEF Job
  <2>2. j.by \in LoaderNames
    BY <1>4, <1>5 DEF Job
  <2>3. url \in Urls \cup {UNSET} /\ config_url \in Urls
    BY <1>2, <1>5 DEF Job, Urls
  <2> QED
    BY <1>3, <1>5, <1>6, <1>7, <2>1, <2>2, <2>3 DEF Doc, Job
<1>13. SourceUrlIsTheOrigin'
  <2>1. /\ doc.by = j.by /\ doc.misleading = j.misleading /\ doc.source = j.source
        /\ doc.given = j.given /\ doc.url = url
    BY <1>3
  <2>2. Origin(doc) = Origin(j)
    BY <2>1 DEF Origin
  <2>3. url # UNSET => url = j.url
    BY <1>2
  <2>4. ASSUME url # UNSET
        PROVE  /\ doc.by \notin Plugins /\ doc.misleading \cap Plugins = {} => doc.url = Origin(doc)
               /\ doc.source.kind = "url" /\ ~doc.source.found => doc.url # "own"
    BY <1>4, <1>5, <2>1, <2>2, <2>3, <2>4 DEF Traceable, Unrequested
  <2>5. \A x : Origin(x)' = Origin(x)
    BY DEF Origin
  <2> QED
    BY <1>4, <2>1, <2>4 DEF SourceUrlIsTheOrigin
<1>14. FailuresHaveReasons'
  <2>1. IsTested' <=> IsTested
    BY <1>4, SameTests
  <2> QED
    BY <1>4, <2>1 DEF LoadingInv, FailuresHaveReasons
<1>15. LoadingInv'
  BY <1>4, <1>12, <1>13, <1>14 DEF LoadingInv
<1> QED
  BY <1>9, <1>10, <1>11, <1>15

LEMMA TestRaisesKeepsLoadingInv ==
    ASSUME LoadingInv, TestRaises
    PROVE  LoadingInv'
<1>1. /\ job' = {} /\ UNCHANGED <<made, failed, taken>>
      /\ IsTested' <=> IsTested
  BY SameTests DEF TestRaises, registry
<1> QED
  BY <1>1 DEF LoadingInv, SourceUrlIsTheOrigin, FailuresHaveReasons, Origin

LEMMA TestTakesNodeKeepsLoadingInv ==
    ASSUME LoadingInv, TestTakesNode
    PROVE  LoadingInv'
<1>1. PICK j \in job :
        /\ j.by # NIL /\ j.klass = NIL /\ IsTested
        /\ job' = {[j EXCEPT !.spent = TRUE]}
        /\ taken' = (taken \cup {j.node}) \ {NIL}
        /\ UNCHANGED <<made, failed>>
        /\ IsTested' <=> IsTested
  BY SameTests DEF TestTakesNode, registry
<1>2. PICK x : x = [j EXCEPT !.spent = TRUE]
  OBVIOUS
<1>3. j \in Job /\ Traceable(j)
  BY DEF LoadingInv
<1>4. /\ x \in Job
      /\ x.by = j.by /\ x.url = j.url /\ x.source = j.source /\ x.given = j.given
      /\ x.left = j.left /\ x.misleading = j.misleading /\ x.klass = j.klass
  BY <1>2, <1>3 DEF Job
<1>5. Traceable(x)
  BY <1>1, <1>3, <1>4 DEF Traceable, Origin
<1>6. UsedByTests(x)'
  BY <1>1, <1>4 DEF UsedByTests
<1>7. SourceUrlIsTheOrigin' /\ FailuresHaveReasons'
  BY <1>1 DEF LoadingInv, SourceUrlIsTheOrigin, FailuresHaveReasons, Origin
<1> QED
  BY <1>1, <1>2, <1>4, <1>5, <1>6, <1>7 DEF LoadingInv

LEMMA CloneKeepsLoadingInv ==
    ASSUME LoadingInv, CallsInv, ClassesInv, MostSpecificClassIsChosen,
           NEW doc \in made, Clone(doc)
    PROVE  LoadingInv' /\ CallsInv' /\ ClassesInv' /\ MostSpecificClassIsChosen'
<1>1. PICK clone : clone = [doc EXCEPT !.cls = "Document", !.asked = doc.klass, !.by = "tag node",
                                       !.given = NIL, !.misleading = {}, !.url = NIL, !.node = NIL]
  OBVIOUS
<1>2. made' = {clone} /\ UNCHANGED <<mro, subclasses, job, failed, taken>>
  BY <1>1 DEF Clone, registry
<1>3. doc \in Doc /\ doc.klass \in Defined /\ doc.fitting \subseteq Defined
  BY DEF LoadingInv, CallsInv
<1>4. /\ clone \in Doc
      /\ clone.klass = doc.klass /\ clone.asked = doc.klass /\ clone.fitting = doc.fitting
      /\ clone.by = "tag node" /\ clone.url = NIL /\ clone.given = NIL
  <2>1. doc.klass \in ClassNames /\ "Document" \in ClassNames
    BY <1>3 DEF ClassesInv, ClassNames
  <2>2. "tag node" \in LoaderNames
    BY DEF LoaderNames
  <2>3. NIL \in Nodes /\ NIL \in Urls
    BY DEF Nodes, Urls
  <2> QED
    BY <1>1, <1>3, <2>1, <2>2, <2>3 DEF Doc
<1>5. Defined' = Defined /\ \A x, y : IsSubclass(x, y)' <=> IsSubclass(x, y)
  BY <1>2 DEF Defined, IsSubclass
<1>6. ClassesInv'
  BY <1>2 DEF ClassesInv, Defined, IsSubclass
<1> HIDE DEF Defined
<1>7. CallsInv'
  BY <1>2, <1>3, <1>4, <1>5 DEF CallsInv
<1>8. clone.asked # NIL
  BY <1>3, <1>4, NILAssumption DEF ClassesInv, ClassNames
<1>9. MostSpecificClassIsChosen'
  BY <1>2, <1>8 DEF MostSpecificClassIsChosen
<1>10. Origin(clone) = NIL
  BY <1>4 DEF Origin
<1>11. SourceUrlIsTheOrigin'
  <2>1. NIL # "own"
    BY NILAssumption
  <2> QED
    BY <1>2, <1>4, <1>10, <2>1 DEF SourceUrlIsTheOrigin
<1>12. \A x : UsedByTests(x)' <=> UsedByTests(x)
  BY <1>2, SameTests DEF UsedByTests, IsTaken
<1>13. FailuresHaveReasons'
  BY <1>2, SameTests DEF LoadingInv, FailuresHaveReasons
<1>14. LoadingInv'
  BY <1>2, <1>4, <1>11, <1>12, <1>13 DEF LoadingInv
<1> QED
  BY <1>6, <1>7, <1>9, <1>14

-----------------------------------------------------------------------------
(* Together *)

IInv == RegistryInv /\ ClassesInv /\ CallsInv /\ SeenInv /\ LoadingInv /\ MostSpecificClassIsChosen

LEMMA InitIInv == Init => IInv
<1> SUFFICES ASSUME Init PROVE IInv
  OBVIOUS
<1>1. SeenInv
  BY DEF Init, SeenInv, Defined
<1>2. LoadingInv
  BY DEF Init, LoadingInv, SourceUrlIsTheOrigin, FailuresHaveReasons
<1> QED
  BY <1>1, <1>2, InitRegistryInv, InitClassesInv DEF IInv

\* the parts that depend on what a step leaves alone
LEMMA SameClasses ==
    ASSUME ClassesInv, UNCHANGED <<mro, subclasses>>
    PROVE  ClassesInv'
BY DEF ClassesInv, Defined, IsSubclass

LEMMA SameChoices ==
    ASSUME CallsInv, MostSpecificClassIsChosen, UNCHANGED mro,
           made' \subseteq made,
           \A x \in job' : x.cls \in Defined /\ x.klass \in Defined \cup {NIL}
    PROVE  CallsInv' /\ MostSpecificClassIsChosen'
<1>1. Defined' = Defined /\ \A x, y : IsSubclass(x, y)' <=> IsSubclass(x, y)
  BY DEF Defined, IsSubclass
<1> HIDE DEF Defined
<1> QED
  BY <1>1 DEF CallsInv, MostSpecificClassIsChosen

LEMMA SameSeen ==
    ASSUME SeenInv, UNCHANGED <<mro, seen>>
    PROVE  SeenInv'
BY DEF SeenInv, Defined

LEMMA SameLoading ==
    ASSUME LoadingInv, UNCHANGED <<job, taken>>, made' \subseteq made, failed' \subseteq failed,
           IsTested => IsTested'
    PROVE  LoadingInv'
<1>1. \A x \in job : UsedByTests(x)'
  BY DEF LoadingInv, UsedByTests, IsTaken
<1>2. SourceUrlIsTheOrigin' /\ FailuresHaveReasons'
  BY DEF LoadingInv, SourceUrlIsTheOrigin, FailuresHaveReasons, Origin
<1> QED
  BY <1>1, <1>2 DEF LoadingInv

\* Classes with tests stay.
LEMMA TestsStay ==
    ASSUME ClassesInv, DefineDocument \/ \E c \in Classes, b \in Defined : DefineClass(c, b)
    PROVE  IsTested => IsTested'
<1> SUFFICES ASSUME NEW d \in ToSet(subclasses), Fits(d, Testing)
             PROVE  IsTested'
  BY DEF IsTested
<1>1. subclasses \in Seq(Defined)
  BY DEF ClassesInv
<1>2. d \in Defined
  BY <1>1, ElementsOfSequence
<1>3. PICK c \in Classes, b \in Defined : DefineClass(c, b)
  BY <1>2 DEF DefineDocument
<1>4. /\ mro' = [x \in Defined \cup {c} |-> IF x = c THEN <<c>> \o mro[b] ELSE mro[x]]
      /\ c \notin Defined
      /\ subclasses' = <<c>> \o subclasses
  BY <1>3 DEF DefineClass, Extended, Registered
<1> HIDE DEF Defined
<1>5. Fits(d, Testing)'
  BY <1>2, <1>4 DEF Fits
<1>6. d \in ToSet(subclasses')
  <2>1. subclasses \in Seq(Defined \cup {c})
    BY <1>1
  <2>2. ToSet(subclasses) \subseteq ToSet(<<c>> \o subclasses)
    BY <2>1, PrependElements
  <2> QED
    BY <1>4, <2>2
<1> QED
  BY <1>5, <1>6 DEF IsTested

LEMMA NextKeepsIInv ==
    ASSUME IInv, [Next]_vars
    PROVE  IInv'
<1> USE DEF IInv
<1>1. ASSUME NEW l \in Plugins, NEW placement \in Placements, RegisterLoader(l, placement)
      PROVE  IInv'
  <2>1. UNCHANGED <<mro, seen, subclasses, job, made, failed, taken>>
    BY <1>1 DEF RegisterLoader
  <2>2. RegistryInv'
    BY <1>1, RegisterLoaderKeepsRegistryInv
  <2> QED
    BY <2>1, <2>2, SameClasses, SameChoices, SameSeen, SameTests, SameLoading DEF CallsInv
<1>2. ASSUME NEW p \in pending, Register(p)
      PROVE  IInv'
  <2>1. UNCHANGED <<mro, seen, subclasses, job, made, failed, taken>>
    BY <1>2 DEF Register
  <2>2. RegistryInv'
    BY <1>2, RegisterKeepsRegistryInv
  <2> QED
    BY <2>1, <2>2, SameClasses, SameChoices, SameSeen, SameTests, SameLoading DEF CallsInv
<1>3. CASE DefineDocument
  <2>1. /\ Defined = {} /\ Extended("Document", <<>>)
        /\ UNCHANGED <<loaders, pending, placed, job, made, failed, taken>>
    BY <1>3 DEF DefineDocument
  <2>2. SeenInv'
    BY <2>1, ExtendedKeepsSeenInv
  <2>3. ClassesInv' /\ CallsInv' /\ MostSpecificClassIsChosen'
    BY <1>3, DefineDocumentKeepsClasses
  <2>4. IsTested => IsTested'
    BY <1>3, TestsStay
  <2> QED
    BY <2>1, <2>2, <2>3, <2>4, OthersKeepRegistryInv, SameLoading
<1>4. ASSUME NEW c \in Classes, NEW b \in Defined, DefineClass(c, b)
      PROVE  IInv'
  <2>1. /\ c \notin Defined /\ Extended(c, mro[b])
        /\ UNCHANGED <<loaders, pending, placed, job, made, failed, taken>>
    BY <1>4 DEF DefineClass
  <2>2. SeenInv'
    BY <2>1, ExtendedKeepsSeenInv
  <2>3. ClassesInv' /\ CallsInv' /\ MostSpecificClassIsChosen'
    BY <1>4, DefineClassKeepsClasses
  <2>4. IsTested => IsTested'
    BY <1>4, TestsStay
  <2> QED
    BY <2>1, <2>2, <2>3, <2>4, OthersKeepRegistryInv, SameLoading
<1>5. ASSUME NEW cls \in Defined, NEW source \in Sources, NEW klass \in Defined \cup {NIL},
             NEW url \in {NIL, "given"}, Load(cls, source, klass, url)
      PROVE  IInv'
  <2>1. /\ UNCHANGED <<loaders, pending, placed, mro, seen, subclasses, made>>
        /\ \A x \in job' : x.cls = cls /\ x.klass = klass
    BY <1>5 DEF Load, registry
  <2>2. LoadingInv'
    BY <1>5, LoadKeepsLoadingInv
  <2>3. CallsInv' /\ MostSpecificClassIsChosen'
    BY <2>1, SameChoices
  <2> QED
    BY <2>1, <2>2, <2>3, OthersKeepRegistryInv, SameClasses, SameSeen
<1>6. CASE TryLoader
  <2>1. /\ UNCHANGED <<loaders, pending, placed, mro, seen, subclasses, made>>
        /\ \A x \in job' : \E j \in job : x.cls = j.cls /\ x.klass = j.klass
    <3>1. job \subseteq Job
      BY DEF LoadingInv
    <3> QED
      BY <1>6, <3>1 DEF TryLoader, registry, Job
  <2>2. LoadingInv'
    BY <1>6, TryLoaderKeepsLoadingInv
  <2>3. CallsInv' /\ MostSpecificClassIsChosen'
    BY <2>1, SameChoices DEF CallsInv
  <2> QED
    BY <2>1, <2>2, <2>3, OthersKeepRegistryInv, SameClasses, SameSeen
<1>7. CASE GiveUp
  <2>1. /\ UNCHANGED <<loaders, pending, placed, mro, seen, subclasses, made>>
        /\ job' = {}
    BY <1>7 DEF GiveUp, Failed, registry
  <2>2. LoadingInv'
    BY <1>7, GiveUpKeepsLoadingInv
  <2>3. CallsInv' /\ MostSpecificClassIsChosen'
    BY <2>1, SameChoices
  <2> QED
    BY <2>1, <2>2, <2>3, OthersKeepRegistryInv, SameClasses, SameSeen
<1>8. ASSUME NEW fitting \in SUBSET Testing, Construct(fitting)
      PROVE  IInv'
  <2>1. UNCHANGED <<loaders, pending, placed, mro, seen, subclasses>>
    BY <1>8 DEF Construct, registry
  <2>2. LoadingInv' /\ ClassesInv' /\ CallsInv' /\ MostSpecificClassIsChosen'
    BY <1>8, ConstructKeepsLoadingInv
  <2> QED
    BY <2>1, <2>2, OthersKeepRegistryInv, SameSeen
<1>9. CASE TestRaises
  <2>1. /\ UNCHANGED <<loaders, pending, placed, mro, seen, subclasses, made>>
        /\ job' = {}
    BY <1>9 DEF TestRaises, registry
  <2>2. LoadingInv'
    BY <1>9, TestRaisesKeepsLoadingInv
  <2>3. CallsInv' /\ MostSpecificClassIsChosen'
    BY <2>1, SameChoices
  <2> QED
    BY <2>1, <2>2, <2>3, OthersKeepRegistryInv, SameClasses, SameSeen
<1>10. CASE TestTakesNode
  <2>1. /\ UNCHANGED <<loaders, pending, placed, mro, seen, subclasses, made>>
        /\ \A x \in job' : \E j \in job : x.cls = j.cls /\ x.klass = j.klass
    <3>1. job \subseteq Job
      BY DEF LoadingInv
    <3> QED
      BY <1>10, <3>1 DEF TestTakesNode, registry, Job
  <2>2. LoadingInv'
    BY <1>10, TestTakesNodeKeepsLoadingInv
  <2>3. CallsInv' /\ MostSpecificClassIsChosen'
    BY <2>1, SameChoices DEF CallsInv
  <2> QED
    BY <2>1, <2>2, <2>3, OthersKeepRegistryInv, SameClasses, SameSeen
<1>11. CASE Refuse
  <2>1. /\ UNCHANGED <<loaders, pending, placed, mro, seen, subclasses, made>>
        /\ job' = {}
    BY <1>11 DEF Refuse, Failed, registry
  <2>2. LoadingInv'
    BY <1>11, RefuseKeepsLoadingInv
  <2>3. CallsInv' /\ MostSpecificClassIsChosen'
    BY <2>1, SameChoices
  <2> QED
    BY <2>1, <2>2, <2>3, OthersKeepRegistryInv, SameClasses, SameSeen
<1>12. ASSUME NEW doc \in made, Clone(doc)
       PROVE  IInv'
  <2>1. UNCHANGED <<loaders, pending, placed, mro, seen, subclasses>>
    BY <1>12 DEF Clone, registry
  <2>2. LoadingInv' /\ CallsInv' /\ ClassesInv' /\ MostSpecificClassIsChosen'
    BY <1>12, CloneKeepsLoadingInv
  <2> QED
    BY <2>1, <2>2, OthersKeepRegistryInv, SameSeen
<1>13. CASE Proceed
  <2>1. /\ UNCHANGED <<loaders, pending, placed, mro, seen, subclasses, job, taken>>
        /\ made' = {} /\ failed' = {}
    BY <1>13 DEF Proceed, registry
  <2>2. LoadingInv'
    BY <2>1, SameTests, SameLoading
  <2>3. CallsInv' /\ MostSpecificClassIsChosen'
    BY <2>1, SameChoices DEF CallsInv
  <2> QED
    BY <2>1, <2>2, <2>3, OthersKeepRegistryInv, SameClasses, SameSeen
<1>14. CASE UNCHANGED vars
  <2>1. UNCHANGED <<loaders, pending, placed, mro, seen, subclasses, job, made, failed, taken>>
    BY <1>14 DEF vars, registry
  <2> QED
    BY <2>1, OthersKeepRegistryInv, SameClasses, SameChoices, SameSeen, SameTests, SameLoading
       DEF CallsInv
<1> QED
  BY <1>1, <1>2, <1>3, <1>4, <1>5, <1>6, <1>7, <1>8, <1>9, <1>10, <1>11, <1>12, <1>13, <1>14
     DEF Next

THEOREM DocumentsInvariance == Spec => []IInv
BY InitIInv, NextKeepsIInv, PTL DEF Spec

\* Constraints on loaders' places hold for good, however many are registered and in
\* whatever order decorators are made and called.
THEOREM LoadersAlwaysKeepTheirPlaces == Spec => []LoadersKeepTheirPlaces
<1>1. IInv => LoadersKeepTheirPlaces
  BY DEF IInv, RegistryInv, LoadersKeepTheirPlaces, InPlace
<1> QED
  BY DocumentsInvariance, <1>1, PTL

\* Of all classes whose tests turn out true, the chosen one is a most specific one.
THEOREM MostSpecificClassIsAlwaysChosen == Spec => []MostSpecificClassIsChosen
<1>1. IInv => MostSpecificClassIsChosen
  BY DEF IInv
<1> QED
  BY DocumentsInvariance, <1>1, PTL

\* Failing loaders of the library don't misattribute a document's source.
THEOREM SourceUrlIsAlwaysTheOrigin == Spec => []SourceUrlIsTheOrigin
<1>1. IInv => SourceUrlIsTheOrigin
  BY DEF IInv, LoadingInv
<1> QED
  BY DocumentsInvariance, <1>1, PTL

\* A source that one of the library's loaders can load is loaded, unless a plugin removed a
\* nameless buffer's source_url or a class test put the loaded node into another document.
THEOREM FailuresAlwaysHaveReasons == Spec => []FailuresHaveReasons
<1>1. IInv => FailuresHaveReasons
  BY DEF IInv, LoadingInv
<1> QED
  BY DocumentsInvariance, <1>1, PTL

=============================================================================
