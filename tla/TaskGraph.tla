----------------------------- MODULE TaskGraph -----------------------------
(***************************************************************************)
(* The graph that orders things that come before one another,              *)
(* celib/containers/bagraph.h: tasks of the kernel, systems of a world,    *)
(* entities under their parents.  The operators are the functions          *)
(* ce_bag_*; a graph is the value of a ce_ba_graph_t.                      *)
(*                                                                         *)
(* before[x] holds the names that x must come before, after[x] those that  *)
(* must come before x.  A name that comes before nothing is popped first   *)
(* and every name is put in FRONT of those popped earlier.                 *)
(***************************************************************************)
EXTENDS Integers, Sequences, SequencesExt

CONSTANT Names

BagEmpty == [name |-> << >>, before |-> [x \in Names |-> << >>],
             after |-> [x \in Names |-> << >>], input |-> << >>, output |-> << >>]

GetOrCreate(g, x) == IF Contains(g.name, x) THEN g ELSE [g EXCEPT !.name = Append(@, x)]

(* x comes before y. *)
Precede(g, x, y) == [g EXCEPT !.before[x] = Append(@, y), !.after[y] = Append(@, x)]

BagAdd(g, x, befores, afters) ==
    LET earlier[i \in 0 .. Len(befores)] ==
            IF i = 0 THEN GetOrCreate(g, x)
            ELSE Precede(GetOrCreate(earlier[i - 1], befores[i]), x, befores[i])
        later[i \in 0 .. Len(afters)] ==
            IF i = 0 THEN earlier[Len(befores)]
            ELSE Precede(GetOrCreate(later[i - 1], afters[i]), afters[i], x)
    IN  later[Len(afters)]

(* Mutant of Release: y comes as soon as one of those it waits for has.    *)
ReleaseEarly(g, x, y) ==
    [g EXCEPT !.before[y] = RemoveFirst(@, x), !.input = Append(@, y)]

(* y no longer waits for x, and is next to come when it waits for nothing. *)
Release(g, x, y) ==
    LET waits == RemoveFirst(g.before[y], x)
    IN  [g EXCEPT !.before[y] = waits,
                  !.input = IF waits = << >> THEN Append(@, y) ELSE @]

PopInput(g) ==
    LET x == Last(g.input)
        released[i \in 0 .. Len(g.after[x])] ==
            IF i = 0 THEN [g EXCEPT !.input = Front(@), !.output = <<x>> \o @]
            ELSE Release(released[i - 1], x, g.after[x][i])
    IN  [released[Len(g.after[x])] EXCEPT !.after[x] = << >>]

(* The names that come before nothing, in order. *)
Free(g) ==
    LET free[i \in 0 .. Len(g.name)] ==
            IF i = 0 THEN << >>
            ELSE IF g.before[g.name[i]] # << >> THEN free[i - 1]
            ELSE Append(free[i - 1], g.name[i])
    IN  free[Len(g.name)]

(* Every name is popped at most once: a name per pop is enough. *)
BagBuild(g) ==
    LET pops[n \in 0 .. Len(g.name)] ==
            IF n = 0 THEN [g EXCEPT !.input = Free(g)]
            ELSE LET h == pops[n - 1] IN IF h.input = << >> THEN h ELSE PopInput(h)
    IN  pops[Len(g.name)]

BagOutput(g) == BagBuild(g).output

(* The graph of things that are added in order, each with its two lists. *)
BagOrder(names, before, after) ==
    LET graph[i \in 0 .. Len(names)] ==
            IF i = 0 THEN BagEmpty
            ELSE BagAdd(graph[i - 1], names[i], before[names[i]], after[names[i]])
    IN  BagOutput(graph[Len(names)])
=============================================================================
