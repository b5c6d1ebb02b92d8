------------------------------ MODULE MCTracing -------------------------------
(***************************************************************************)
(* Instances of Tracing for TLC: two workers and four objects, whose heaps *)
(* have a cycle, an object reached along two paths, a monitor of an object *)
(* and of a class, a weak reference whose referent is reached by another   *)
(* field or by none, an array of objects and one of characters whose words *)
(* look like references, monitors with a monitor, and blocks that are not  *)
(* all evacuated.                                                          *)
(***************************************************************************)
EXTENDS Tracing, TLC

CONSTANTS r, a, b, m, plain, weak, chars, objects

MCObjects == {r, a, b, m}
MCClasses == {plain, weak, chars, objects}

Empty == [class |-> [o \in MCObjects |-> plain],
          fields |-> [o \in MCObjects |-> <<>>],
          lock |-> [o \in MCObjects |-> Thin],
          classLock |-> [c \in MCClasses |-> Thin],
          roots |-> {r}, moving |-> MCObjects, reserve |-> 4]

\* An array r points to a and b, which point to each other; m is b's monitor.
Cycle == [Empty EXCEPT
            !.class[r] = objects, !.fields[r] = <<a, Null, b>>,
            !.fields[a] = <<b>>, !.fields[b] = <<a>>, !.lock[b] = m]
\* Two roots share the weak reference b; m is its referent, the value of
\* another field of it and the monitor of its class.
Weak == [Empty EXCEPT
           !.class[b] = weak, !.classLock[weak] = m, !.roots = {r, a},
           !.fields[r] = <<b>>, !.fields[a] = <<b>>, !.fields[b] = <<m, m>>]
\* Only the weak reference b points to a.
WeakOnly == [Empty EXCEPT
               !.class[b] = weak, !.fields[r] = <<b, b>>, !.fields[b] = <<a>>]
Chars == [Empty EXCEPT
            !.class[a] = chars, !.fields[r] = <<a, b>>, !.fields[a] = <<m>>,
            !.fields[b] = <<a>>, !.moving = {a}]

\* r points to b, whose monitor m has a monitor too, a.
Nested == [Empty EXCEPT !.fields[r] = <<b>>, !.lock[b] = m, !.lock[m] = a]
\* The root r has a monitor, which has one; so all three are roots.
Locked == [Empty EXCEPT
             !.lock[r] = b, !.lock[b] = m, !.fields[m] = <<a, b>>,
             !.roots = {r, b, m}, !.moving = {a}]

\* In these nothing that stays in an evacuated block is pointed to.
Uncontested ==
    {Cycle, [Cycle EXCEPT !.moving = {a, m}], Weak, WeakOnly, Chars, Nested, Locked}

\* In these something is: a root, whether or not there is space to copy it, and
\* what there is no space left for.
Contested ==
    {[Cycle EXCEPT !.fields[b] = <<r, a>>, !.reserve = 1],
     [Cycle EXCEPT !.class[r] = plain, !.fields[a] = <<r, b>>, !.reserve = 1],
     [Weak EXCEPT !.fields[b] = <<m, r>>, !.classLock[weak] = Thin]}

MCHeaps == Uncontested \cup Contested
=============================================================================
