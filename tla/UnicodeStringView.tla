-------------------------- MODULE UnicodeStringView --------------------------
(***************************************************************************)
(* unicode_string_view (src/include/footstone/unicode_string_view.h and    *)
(* src/src/footstone/unicode_string_view.cc): a tag, encoding_, and an     *)
(* anonymous union of four string types whose constructors, destructors    *)
(* and assignments are written by hand.  A view is a record of the tag, of *)
(* the member of the union that has been constructed and not destroyed, and*)
(* of its text.  Texts are numbers, ordered as the strings compare.        *)
(***************************************************************************)
EXTENDS Naturals

CONSTANTS Views,  \* the variables of the program that hold a view
          Texts   \* the contents of strings

ASSUME TextsAssumption == Texts \subseteq Nat

Encodings == {"Latin1", "Utf8", "Utf16", "Utf32"}

VARIABLES
  view,     \* per variable: its view
  want,     \* history: what was last assigned to it, or written through it
  ignored,  \* history: views whose last assignments were passed over
  blanked,  \* history: views given an Unkown one while they held a string
  leaked    \* history: views that lost a string without destroying it

vars == <<view, want, ignored, blanked, leaked>>

NoText == 0  \* nothing has been constructed

Content(e, t) == [encoding |-> e, text |-> t]
NoContent == Content("Unkown", NoText)
ContentOf(o) ==
  IF o.encoding = "Unkown" THEN NoContent ELSE Content(o.encoding, o.text)

\* A variable without a view, or whose view was destroyed.
Dead == [alive |-> FALSE, encoding |-> "Unkown", member |-> "none",
         text |-> NoText]
Blank == [Dead EXCEPT !.alive = TRUE]  \* unicode_string_view() {}

\* Placement new of a member; the tag is set by the caller.
Construct(o, e, t) == [o EXCEPT !.member = e, !.text = t]

DeallocateM(o) ==  \* mutant: a case of the switch is missing
  IF o.encoding \in {"Unkown", "Utf32"} THEN [o EXCEPT !.encoding = "Unkown"]
  ELSE [o EXCEPT !.encoding = "Unkown", !.member = "none", !.text = NoText]

\* Destroys the member the tag names, none when it is Unkown.
Deallocate(o) ==
  IF o.encoding = "Unkown" THEN o
  ELSE [o EXCEPT !.encoding = "Unkown", !.member = "none", !.text = NoText]

\* deallocate(), new and the tag, of every assignment that changes it.
Replace(o, e, t) == [Construct(Deallocate(o), e, t) EXCEPT !.encoding = e]

\* A string is lost when another is constructed over it, or the view ends.
LeaksBy(o, next) == Deallocate(o).member # "none" /\ next

Init ==
  /\ view = [v \in Views |-> Dead]
  /\ want = [v \in Views |-> NoContent]
  /\ ignored = {} /\ blanked = {} /\ leaked = {}

\* The view v is left with o and holds, as far as the program knows, c.
Becomes(v, o, c) ==
  /\ view' = [view EXCEPT ![v] = o]
  /\ want' = [want EXCEPT ![v] = c]
  /\ ignored' = IF ContentOf(o) = c THEN ignored \ {v} ELSE ignored \union {v}

Loses(v, lost) == leaked' = IF lost THEN leaked \union {v} ELSE leaked

-----------------------------------------------------------------------------
(* Constructors and the destructor.                                        *)

CreateBlank(v) ==
  /\ ~view[v].alive
  /\ Becomes(v, Blank, NoContent)
  /\ UNCHANGED <<blanked, leaked>>

\* From a string or a pointer, with or without a length, copied or moved;
\* new_from_utf8 and the literal _u8s are the constructor for Utf8.
Create(v, e, t) ==
  /\ ~view[v].alive
  /\ Becomes(v, [Construct(Blank, e, t) EXCEPT !.encoding = e], Content(e, t))
  /\ UNCHANGED <<blanked, leaked>>

\* The copy constructor, which also stands in for a move.
CreateCopy(v, u) ==
  LET o == view[u] IN
  /\ ~view[v].alive /\ o.alive
  /\ Becomes(v, IF o.encoding = "Unkown" THEN Blank
                ELSE [Construct(Blank, o.encoding, o.text)
                        EXCEPT !.encoding = o.encoding],
             ContentOf(o))
  /\ UNCHANGED <<blanked, leaked>>

Destroy(v) ==
  /\ view[v].alive
  /\ Becomes(v, Dead, NoContent)
  /\ Loses(v, LeaksBy(view[v], TRUE))
  /\ UNCHANGED blanked

-----------------------------------------------------------------------------
(* Assignments.                                                            *)

AssignedM(o, r) ==  \* mutant: a case of the switch is missing
  IF r.encoding \in {"Unkown", "Utf32"} THEN [o EXCEPT !.encoding = r.encoding]
  ELSE IF r.encoding = o.encoding THEN [o EXCEPT !.text = r.text]
  ELSE Replace(o, r.encoding, r.text)

\* operator=(const unicode_string_view&), for another view.  An Unkown one
\* changes the tag alone: what the union holds is not destroyed.
Assigned(o, r) ==
  IF r.encoding = "Unkown" THEN [o EXCEPT !.encoding = "Unkown"]
  ELSE IF r.encoding = o.encoding THEN [o EXCEPT !.text = r.text]
  ELSE Replace(o, r.encoding, r.text)

AssignView(v, u) ==
  LET o == view[v]
      r == view[u] IN
  /\ o.alive /\ r.alive
  /\ \/ v = u /\ UNCHANGED vars
     \/ /\ v # u
        /\ Becomes(v, Assigned(o, r), ContentOf(r))
        /\ blanked' = IF r.encoding = "Unkown" /\ o.member # "none"
                        THEN blanked \union {v} ELSE blanked
        /\ Loses(v, LeaksBy(o, r.encoding \notin {"Unkown", o.encoding}))

\* operator= of a string or a pointer: a Latin1 text replaces the old one ...
AssignLatin1(v, t) ==
  LET o == view[v] IN
  /\ o.alive
  /\ Becomes(v, IF o.encoding = "Latin1" THEN [o EXCEPT !.text = t]
                ELSE Replace(o, "Latin1", t), Content("Latin1", t))
  /\ Loses(v, LeaksBy(o, o.encoding # "Latin1"))
  /\ UNCHANGED blanked

AssignWideM(v, e, t) ==  \* mutant: the test is turned around
  LET o == view[v] IN
  /\ o.alive /\ e # "Latin1"
  /\ Becomes(v, IF o.encoding = e THEN Replace(o, e, t) ELSE o, Content(e, t))
  /\ Loses(v, LeaksBy(o, o.encoding = e))
  /\ UNCHANGED blanked

\* ... one of the other three only when the view has another encoding.
AssignWide(v, e, t) ==
  LET o == view[v] IN
  /\ o.alive /\ e # "Latin1"
  /\ Becomes(v, IF o.encoding = e THEN o ELSE Replace(o, e, t), Content(e, t))
  /\ Loses(v, LeaksBy(o, o.encoding # e))
  /\ UNCHANGED blanked

\* Through the reference that latin1_value(), utf8_value() ... return to a
\* caller that asked is_latin1() and so on first, as their asserts demand.
Modify(v, t) ==
  LET o == view[v] IN
  /\ o.alive /\ o.encoding # "Unkown"
  /\ Becomes(v, [o EXCEPT !.text = t], Content(o.encoding, t))
  /\ UNCHANGED <<blanked, leaked>>

-----------------------------------------------------------------------------
(* Comparisons.                                                            *)

Equal(a, b) ==
  a.encoding = b.encoding /\ a.encoding # "Unkown" /\ a.text = b.text
NotEqual(a, b) == ~Equal(a, b)
Less(a, b) ==
  a.encoding = b.encoding /\ a.encoding # "Unkown" /\ a.text < b.text
Greater(a, b) ==
  a.encoding = b.encoding /\ a.encoding # "Unkown" /\ a.text > b.text

LessEqualM(a, b) == ~Greater(a, b)  \* mutant: without the test of the tags
LessEqual(a, b) == a.encoding = b.encoding /\ ~Greater(a, b)
GreaterEqual(a, b) == a.encoding = b.encoding /\ ~Less(a, b)

-----------------------------------------------------------------------------
Next ==
  \E v \in Views :
    \/ CreateBlank(v) \/ Destroy(v)
    \/ \E u \in Views : CreateCopy(v, u) \/ AssignView(v, u)
    \/ \E t \in Texts : \/ AssignLatin1(v, t) \/ Modify(v, t)
                        \/ \E e \in Encodings : \/ Create(v, e, t)
                                                \/ AssignWide(v, e, t)

Spec == Init /\ [][Next]_vars

-----------------------------------------------------------------------------
(* Properties.                                                             *)

Objects == [alive : BOOLEAN, encoding : Encodings \union {"Unkown"},
            member : Encodings \union {"none"}, text : Texts \union {NoText}]

\* Every variable has its type.
TypeOK ==
  /\ view \in [Views -> Objects]
  /\ want \in [Views -> [encoding : Encodings \union {"Unkown"},
                         text : Texts \union {NoText}]]
  /\ ignored \subseteq Views /\ blanked \subseteq Views /\ leaked \subseteq Views

\* After every sequence of constructions, assignments and destructions the
\* member the tag names has been constructed: no destructor, comparison or
\* access ever meets a string that is not there.
TagMatches ==
  \A v \in Views :
    view[v].encoding # "Unkown" => view[v].member = view[v].encoding

\* A view holds what was last assigned to it, unless that was a Utf8, Utf16 or
\* Utf32 string and the view had the same encoding: then it has the encoding
\* and keeps its old text.
HoldsAssigned ==
  \A v \in Views :
    IF v \in ignored
      THEN /\ view[v].encoding = want[v].encoding
           /\ want[v].encoding \in Encodings \ {"Latin1"}
      ELSE ContentOf(view[v]) = want[v]

\* Every string is destroyed, by deallocate() or with its view, unless an
\* Unkown view was assigned over it.
LeakOnlyByBlank ==
  /\ leaked \subseteq blanked
  /\ \A v \in Views :
       view[v].encoding = "Unkown" /\ view[v].member # "none" => v \in blanked

\* The six comparisons of views that came out of any assignments.  On the
\* strings of one encoding they are those of a total order.  Between different
\* encodings only != holds.  Views without a string are unequal, each to
\* itself too, neither is less, and both <= and >= hold.
OrderConsistent ==
  \A u, v, w \in Views :
    LET a == view[u]
        b == view[v]
        c == view[w] IN
    (a.alive /\ b.alive /\ c.alive) =>
      /\ Less(a, b) <=> Greater(b, a)
      /\ LessEqual(a, b) <=> GreaterEqual(b, a)
      /\ a.encoding # b.encoding =>
           NotEqual(a, b) /\ ~Less(a, b) /\ ~LessEqual(a, b) /\ ~LessEqual(b, a)
      /\ a.encoding = b.encoding => LessEqual(a, b) \/ LessEqual(b, a)
      /\ LessEqual(a, b) /\ LessEqual(b, c) => LessEqual(a, c)
      /\ IF a.encoding = "Unkown"
           THEN NotEqual(a, b) /\ ~Less(a, b) /\ ~Less(b, a)
           ELSE /\ u = v => Equal(a, b)
                /\ LessEqual(a, b) <=> Less(a, b) \/ Equal(a, b)
                /\ NotEqual(a, b) /\ a.encoding = b.encoding
                     <=> Less(a, b) \/ Less(b, a)
                /\ Less(a, b) /\ Less(b, c) => Less(a, c)
=============================================================================
