----------------------- MODULE UnicodeStringViewProofs -----------------------
(***************************************************************************)
(* Proofs about UnicodeStringView, for any number of views and any texts.  *)
(* The properties that TLC checks are inductive together: each assignment  *)
(* is described by the object it leaves, so the proof has a lemma per way  *)
(* of making an object, one that turns such an object into the next state, *)
(* and one step per operation.                                             *)
(***************************************************************************)
EXTENDS UnicodeStringView, TLAPS

Contents == [encoding : Encodings \union {"Unkown"},
             text : Texts \union {NoText}]

Inv == TypeOK /\ TagMatches /\ HoldsAssigned /\ LeakOnlyByBlank

\* The member the tag of o names is there.
Sound(o) == o.encoding # "Unkown" => o.member = o.encoding

\* o holds c, or c was passed over because o has its encoding.
Agrees(o, c) ==
  \/ ContentOf(o) = c
  \/ o.encoding = c.encoding /\ c.encoding \in Encodings \ {"Latin1"}

\* What an operation on v must show of the object o it leaves.
Good(v, o, c) ==
  /\ o \in Objects /\ c \in Contents
  /\ Sound(o) /\ Agrees(o, c)
  /\ blanked' \subseteq Views /\ blanked \subseteq blanked'
  /\ leaked' \subseteq leaked \union {v}
  /\ v \in leaked' => v \in leaked \/ v \in blanked'
  /\ (o.encoding = "Unkown" /\ o.member # "none") => v \in blanked'

\* A fresh view is sound, holds its text and has nothing to lose.
LEMMA FreshObject ==
  ASSUME NEW e \in Encodings, NEW t \in Texts \union {NoText},
         NEW o, o = [Construct(Blank, e, t) EXCEPT !.encoding = e]
  PROVE  /\ o \in Objects /\ Sound(o) /\ o.encoding # "Unkown"
         /\ ContentOf(o) = Content(e, t)
  BY DEF Construct, Blank, Dead, Objects, Sound, Encodings, ContentOf, Content

\* deallocate() leaves an Unkown tag, and a string only under one.
LEMMA DeallocateObject ==
  ASSUME NEW o \in Objects
  PROVE  /\ Deallocate(o) \in Objects
         /\ Deallocate(o).encoding = "Unkown"
         /\ Deallocate(o).alive = o.alive
         /\ Deallocate(o).member # "none"
              => o.encoding = "Unkown" /\ o.member # "none"
  BY DEF Deallocate, Objects, NoText

\* Replacing the string gives a sound view with the new text.
LEMMA ReplaceObject ==
  ASSUME NEW o \in Objects, NEW e \in Encodings, NEW t \in Texts \union {NoText}
  PROVE  /\ Replace(o, e, t) \in Objects /\ Sound(Replace(o, e, t))
         /\ Replace(o, e, t).encoding = e
         /\ ContentOf(Replace(o, e, t)) = Content(e, t)
<1>1. /\ Deallocate(o) \in Objects
  BY DeallocateObject
<1>2. e # "Unkown"
  BY DEF Encodings
<1>3. /\ Replace(o, e, t) \in Objects
      /\ Replace(o, e, t).encoding = e /\ Replace(o, e, t).member = e
      /\ Replace(o, e, t).text = t
  BY <1>1 DEF Replace, Construct, Objects
<1> QED
  BY <1>2, <1>3 DEF Sound, ContentOf, Content

\* Writing the text of a sound view with a string leaves it sound.
LEMMA WriteObject ==
  ASSUME NEW o \in Objects, Sound(o), o.encoding # "Unkown",
         NEW t \in Texts \union {NoText}
  PROVE  LET n == [o EXCEPT !.text = t] IN
         /\ n \in Objects /\ Sound(n) /\ n.encoding = o.encoding
         /\ ContentOf(n) = Content(o.encoding, t)
  BY DEF Objects, Sound, ContentOf, Content

\* An operation that leaves v with a good object keeps the invariant.
LEMMA BecomesKeepsInv ==
  ASSUME Inv, NEW v \in Views, NEW o, NEW c, Becomes(v, o, c), Good(v, o, c)
  PROVE  Inv'
<1> USE DEF Inv
<1>1. TypeOK'
  BY DEF TypeOK, Becomes, Good, Contents
<1>2. /\ view'[v] = o /\ want'[v] = c
      /\ \A u \in Views \ {v} : view'[u] = view[u] /\ want'[u] = want[u]
      /\ \A u \in Views \ {v} : u \in ignored' <=> u \in ignored
      /\ v \in ignored' <=> ContentOf(o) # c
  BY DEF TypeOK, Becomes
<1>3. TagMatches'
  BY <1>2 DEF TagMatches, Good, Sound
<1>4. HoldsAssigned'
  BY <1>2 DEF HoldsAssigned, Good, Agrees
<1>5. LeakOnlyByBlank'
  BY <1>2 DEF LeakOnlyByBlank, Good, TypeOK
<1> QED
  BY <1>1, <1>3, <1>4, <1>5

\* Before any view is made the invariant holds.
LEMMA InitInv == Init => Inv
  BY DEF Init, Inv, TypeOK, TagMatches, HoldsAssigned, LeakOnlyByBlank, Objects,
         Dead, NoContent, Content, ContentOf

\* Every operation keeps the invariant.
LEMMA StepInv == Inv /\ [Next]_vars => Inv'
<1> SUFFICES ASSUME Inv, [Next]_vars PROVE Inv'
  OBVIOUS
<1>0. CASE UNCHANGED vars
  BY <1>0 DEF vars, Inv, TypeOK, TagMatches, HoldsAssigned, LeakOnlyByBlank
<1>1. \A u \in Views : view[u] \in Objects /\ Sound(view[u])
  BY DEF Inv, TypeOK, TagMatches, Sound
<1>2. /\ blanked \subseteq Views /\ leaked \subseteq blanked
      /\ \A u \in Views :
           (view[u].encoding = "Unkown" /\ view[u].member # "none")
             => u \in blanked
  BY DEF Inv, TypeOK, LeakOnlyByBlank
<1>3. \A u \in Views : ContentOf(view[u]) \in Contents
  BY <1>1 DEF ContentOf, Content, NoContent, Contents, Objects
<1>4. ASSUME NEW v \in Views, CreateBlank(v) PROVE Inv'
  <2>1. Good(v, Blank, NoContent)
    BY <1>2, <1>4 DEF CreateBlank, Good, Blank, Dead, Objects, Sound, Agrees,
                      ContentOf, NoContent, Content, Contents
  <2> QED
    BY <1>4, <2>1, BecomesKeepsInv DEF CreateBlank
<1>5. ASSUME NEW v \in Views, Destroy(v) PROVE Inv'
  <2>1. LeaksBy(view[v], TRUE) => v \in blanked
    BY <1>1, <1>2, DeallocateObject DEF LeaksBy
  <2>2. Good(v, Dead, NoContent)
    BY <1>2, <1>5, <2>1 DEF Destroy, Loses, Good, Dead, Objects, Sound, Agrees,
                            ContentOf, NoContent, Content, Contents
  <2> QED
    BY <1>5, <2>2, BecomesKeepsInv DEF Destroy
<1>6. ASSUME NEW v \in Views, NEW u \in Views, CreateCopy(v, u) PROVE Inv'
  <2> DEFINE o == view[u]
             n == IF o.encoding = "Unkown" THEN Blank
                  ELSE [Construct(Blank, o.encoding, o.text)
                          EXCEPT !.encoding = o.encoding]
  <2>1. CASE o.encoding = "Unkown"
    <3>1. Good(v, n, ContentOf(o))
      BY <1>2, <1>3, <1>6, <2>1 DEF CreateCopy, Good, Blank, Dead, Objects,
           Sound, Agrees, ContentOf, NoContent, Content
    <3> QED
      BY <1>6, <3>1, BecomesKeepsInv DEF CreateCopy
  <2>2. CASE o.encoding # "Unkown"
    <3>1. o.encoding \in Encodings /\ o.text \in Texts \union {NoText}
      BY <1>1, <2>2 DEF Objects
    <3>2. /\ n \in Objects /\ Sound(n) /\ n.encoding # "Unkown"
          /\ ContentOf(n) = ContentOf(o)
      BY <2>2, <3>1, FreshObject DEF ContentOf
    <3>3. Good(v, n, ContentOf(o))
      BY <1>2, <1>3, <1>6, <3>2 DEF CreateCopy, Good, Agrees
    <3> QED
      BY <1>6, <3>3, BecomesKeepsInv DEF CreateCopy
  <2> QED
    BY <2>1, <2>2
<1>7. ASSUME NEW v \in Views, NEW u \in Views, AssignView(v, u) PROVE Inv'
  <2> DEFINE o == view[v]
             r == view[u]
             n == Assigned(o, r)
  <2>1. CASE v = u
    BY <1>0, <1>7, <2>1 DEF AssignView
  <2> SUFFICES ASSUME v # u PROVE Inv'
    BY <2>1
  <2>2. /\ Becomes(v, n, ContentOf(r))
        /\ blanked' = IF r.encoding = "Unkown" /\ o.member # "none"
                        THEN blanked \union {v} ELSE blanked
        /\ Loses(v, LeaksBy(o, r.encoding \notin {"Unkown", o.encoding}))
    BY <1>7 DEF AssignView
  <2>3. LeaksBy(o, r.encoding \notin {"Unkown", o.encoding}) => v \in blanked
    BY <1>1, <1>2, DeallocateObject DEF LeaksBy
  <2>4. /\ n \in Objects /\ Sound(n) /\ ContentOf(n) = ContentOf(r)
        /\ n.encoding = r.encoding
        /\ r.encoding = "Unkown" => n.member = o.member
    <3>0. o \in Objects /\ r \in Objects /\ Sound(o)
      BY <1>1
    <3>1. CASE r.encoding = "Unkown"
      BY <3>0, <3>1 DEF Assigned, Objects, Sound, ContentOf
    <3>2. CASE r.encoding # "Unkown" /\ r.encoding = o.encoding
      <4>1. r.text \in Texts \union {NoText}
        BY <3>0 DEF Objects
      <4> QED
        BY <3>0, <3>2, <4>1, WriteObject DEF Assigned, ContentOf
    <3>3. CASE r.encoding # "Unkown" /\ r.encoding # o.encoding
      <4>1. r.encoding \in Encodings /\ r.text \in Texts \union {NoText}
        BY <3>0, <3>3 DEF Objects
      <4> QED
        BY <3>0, <3>3, <4>1, ReplaceObject DEF Assigned, ContentOf
    <3> QED
      BY <3>1, <3>2, <3>3
  <2>5. Good(v, n, ContentOf(r))
    BY <1>2, <1>3, <2>2, <2>3, <2>4 DEF Good, Agrees, Loses
  <2> QED
    BY <2>2, <2>5, BecomesKeepsInv
<1>8. ASSUME NEW v \in Views, NEW t \in Texts, AssignLatin1(v, t) PROVE Inv'
  <2> DEFINE o == view[v]
             n == IF o.encoding = "Latin1" THEN [o EXCEPT !.text = t]
                  ELSE Replace(o, "Latin1", t)
  <2>0. "Latin1" \in Encodings /\ "Latin1" # "Unkown"
    BY DEF Encodings
  <2>1. LeaksBy(o, o.encoding # "Latin1") => v \in blanked
    BY <1>1, <1>2, DeallocateObject DEF LeaksBy
  <2>2. /\ n \in Objects /\ Sound(n) /\ n.encoding = "Latin1"
        /\ ContentOf(n) = Content("Latin1", t)
    BY <1>1, <2>0, WriteObject, ReplaceObject
  <2>3. Content("Latin1", t) \in Contents
    BY <2>0 DEF Content, Contents
  <2>4. Good(v, n, Content("Latin1", t))
    BY <1>2, <1>8, <2>0, <2>1, <2>2, <2>3 DEF AssignLatin1, Good, Agrees, Loses
  <2> QED
    BY <1>8, <2>4, BecomesKeepsInv DEF AssignLatin1
<1>9. ASSUME NEW v \in Views, NEW t \in Texts, Modify(v, t) PROVE Inv'
  <2> DEFINE o == view[v]
             n == [o EXCEPT !.text = t]
  <2>1. o.encoding # "Unkown"
    BY <1>9 DEF Modify
  <2>2. /\ n \in Objects /\ Sound(n) /\ n.encoding # "Unkown"
        /\ ContentOf(n) = Content(o.encoding, t)
    BY <1>1, <2>1, WriteObject
  <2>3. Content(o.encoding, t) \in Contents
    BY <1>1 DEF Content, Contents, Objects
  <2>4. Good(v, n, Content(o.encoding, t))
    BY <1>2, <1>9, <2>2, <2>3 DEF Modify, Good, Agrees
  <2> QED
    BY <1>9, <2>4, BecomesKeepsInv DEF Modify
<1>10. ASSUME NEW v \in Views, NEW t \in Texts, NEW e \in Encodings,
              Create(v, e, t) PROVE Inv'
  <2> DEFINE n == [Construct(Blank, e, t) EXCEPT !.encoding = e]
  <2>1. /\ n \in Objects /\ Sound(n) /\ n.encoding # "Unkown"
        /\ ContentOf(n) = Content(e, t)
    BY FreshObject
  <2>2. Content(e, t) \in Contents
    BY DEF Content, Contents
  <2>3. Good(v, n, Content(e, t))
    BY <1>2, <1>10, <2>1, <2>2 DEF Create, Good, Agrees
  <2> QED
    BY <1>10, <2>3, BecomesKeepsInv DEF Create
<1>11. ASSUME NEW v \in Views, NEW t \in Texts, NEW e \in Encodings,
              AssignWide(v, e, t) PROVE Inv'
  <2> DEFINE o == view[v]
             n == IF o.encoding = e THEN o ELSE Replace(o, e, t)
  <2>0. e # "Unkown" /\ e # "Latin1"
    BY <1>11 DEF AssignWide, Encodings
  <2>1. LeaksBy(o, o.encoding # e) => v \in blanked
    BY <1>1, <1>2, DeallocateObject DEF LeaksBy
  <2>2. n \in Objects /\ Sound(n) /\ n.encoding = e
    BY <1>1, ReplaceObject
  <2>3. Content(e, t) \in Contents /\ Content(e, t).encoding = e
    BY DEF Content, Contents
  <2>4. Good(v, n, Content(e, t))
    BY <1>2, <1>11, <2>0, <2>1, <2>2, <2>3 DEF AssignWide, Good, Agrees, Loses
  <2> QED
    BY <1>11, <2>4, BecomesKeepsInv DEF AssignWide
<1> QED
  BY <1>0, <1>4, <1>5, <1>6, <1>7, <1>8, <1>9, <1>10, <1>11 DEF Next

\* Any sequence of constructions, assignments and destructions of any number
\* of views keeps the tag and the constructed member of each in step.
THEOREM TagAlwaysMatches == Spec => []TagMatches
<1>1. Inv => TagMatches
  BY DEF Inv
<1> QED
  BY <1>1, InitInv, StepInv, PTL DEF Spec

\* A view always holds what was last assigned, save for the passed-over
\* assignments of Utf8, Utf16 and Utf32 strings to a view of that encoding.
THEOREM AlwaysHoldsAssigned == Spec => []HoldsAssigned
<1>1. Inv => HoldsAssigned
  BY DEF Inv
<1> QED
  BY <1>1, InitInv, StepInv, PTL DEF Spec

\* No string is lost except under an Unkown view assigned over it.
THEOREM LeaksOnlyByBlank == Spec => []LeakOnlyByBlank
<1>1. Inv => LeakOnlyByBlank
  BY DEF Inv
<1> QED
  BY <1>1, InitInv, StepInv, PTL DEF Spec

\* The comparisons of any number of views that are still alive are those of a
\* total order on each encoding, whatever assignments made the views.
THEOREM OrderIsTotal == Spec => []OrderConsistent
<1>1. TypeOK => OrderConsistent
  <2> SUFFICES ASSUME TypeOK, NEW u \in Views, NEW v \in Views, NEW w \in Views
               PROVE  OrderConsistent!(u, v, w)
    BY DEF OrderConsistent
  <2>1. PICK a \in Objects, b \in Objects, c \in Objects :
          a = view[u] /\ b = view[v] /\ c = view[w]
    BY DEF TypeOK
  <2>2. a.text \in Nat /\ b.text \in Nat /\ c.text \in Nat
    <3>1. \A o \in Objects : o.text \in Texts \union {NoText}
      BY DEF Objects
    <3>2. Texts \union {NoText} \subseteq Nat
      BY TextsAssumption DEF NoText
    <3> QED
      BY <3>1, <3>2
  <2> QED
    BY <2>1, <2>2 DEF Less, Greater, LessEqual, GreaterEqual, Equal, NotEqual
<1>2. Inv => OrderConsistent
  BY <1>1 DEF Inv
<1> QED
  BY <1>2, InitInv, StepInv, PTL DEF Spec

=============================================================================
