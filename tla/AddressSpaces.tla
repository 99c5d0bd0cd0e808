---------------------------- MODULE AddressSpaces ----------------------------
(***************************************************************************)
(* What the virtual memory system promises: memory objects with contents,  *)
(* and address spaces that show them.  A new object is zero, a forked      *)
(* address space shows copies of its own, and a store changes one place of *)
(* one object.                                                             *)
(***************************************************************************)
EXTENDS Naturals

CONSTANTS Maps, VAs, Objs, Offsets, Values, Zero, None

VARIABLES
    view,      \* view[m][va]: the <<object, offset>> shown there, or None
    contents   \* contents[o][i]

vars == <<view, contents>>

Shown(v) == {v[x[1]][x[2]][1] : x \in {y \in Maps \X VAs : v[y[1]][y[2]] # None}}
AllZero  == [i \in Offsets |-> Zero]
NoView   == [va \in VAs |-> None]

Init ==
    /\ view = [m \in Maps |-> NoView]
    /\ contents = [o \in Objs |-> AllZero]

Store(m, va, v) ==
    /\ view[m][va] # None
    /\ contents' = [contents EXCEPT ![view[m][va][1]][view[m][va][2]] = v]
    /\ UNCHANGED view

\* A new object is shown from base on.
Map(m, o, base, end) ==
    /\ o \notin Shown(view) /\ contents[o] = AllZero
    /\ \A va \in base .. end : view[m][va] = None
    /\ view' = [view EXCEPT ![m] = [va \in VAs |->
           IF va \in base .. end THEN <<o, va - base>> ELSE @[va]]]
    /\ UNCHANGED contents

\* Some places of m are no longer shown.  An object that nobody can show again is
\* forgotten.
Unmap(m) ==
    /\ \A n \in Maps \ {m} : view'[n] = view[n]
    /\ \A va \in VAs : view'[m][va] \in {view[m][va], None}
    /\ \A o \in Objs : contents'[o] =
           IF o \in Shown(view') THEN contents[o] ELSE AllZero

\* n becomes a copy of m, with objects of its own.
Fork(m, n) ==
    /\ view[n] = NoView
    /\ \A k \in Maps \ {n} : view'[k] = view[k]
    /\ \A va \in VAs :
           LET old == view[m][va]
               new == view'[n][va]
           IN  IF old = None THEN new = None
               ELSE /\ new # None
                    /\ new[2] = old[2]
                    /\ new[1] \notin Shown(view)
                    /\ contents'[new[1]] = contents[old[1]]
                    /\ \A vb \in VAs : view[m][vb] # None =>
                           (old[1] = view[m][vb][1] <=> new[1] = view'[n][vb][1])
    /\ \A o \in Shown(view) : contents'[o] = contents[o]

Next ==
    \/ \E m \in Maps, va \in VAs, v \in Values : Store(m, va, v)
    \/ \E m \in Maps, o \in Objs, base, end \in VAs : Map(m, o, base, end)
    \/ \E m \in Maps : Unmap(m)
    \/ \E m, n \in Maps : Fork(m, n)

Spec == Init /\ [][Next]_vars
=============================================================================
