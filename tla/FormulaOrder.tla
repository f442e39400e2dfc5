----------------------------- MODULE FormulaOrder -----------------------------
(***************************************************************************)
(* The order in which a calculation run evaluates its formulas:             *)
(* topoSortFormulas of calculations/calculation.processor.ts, a depth-first *)
(* search from each formula of the list in turn.                            *)
(*                                                                         *)
(* A formula is a record with the key it computes (out), the inputs it      *)
(* declares (in, a sequence of keys) and an id; the id tells apart formulas *)
(* with the same output key, which the sort does not.                       *)
(***************************************************************************)
EXTENDS Integers, Sequences, FiniteSets, Functions

\* byKey.get(k): the last formula of fs that computes k, if one does.
Undefined == [id |-> "undefined"]
HasFormula(fs, k) == \E i \in DOMAIN fs : fs[i].out = k
ByKey(fs, k) ==
    IF HasFormula(fs, k) THEN fs[CHOOSE i \in DOMAIN fs :
                                     /\ fs[i].out = k
                                     /\ \A j \in DOMAIN fs : fs[j].out = k => j <= i]
    ELSE Undefined

OutputKeys(fs) == {fs[i].out : i \in DOMAIN fs}

\* What the search has done so far: result, and whether it threw "Formula cycle".
Search(fs) == [done : Seq(Range(fs)), cycle : BOOLEAN]

\* What f declares to read, input by input.
Dependencies(fs, f) == [i \in DOMAIN f.in |-> ByKey(fs, f.in[i])]

\* visited.has(f.outputKey)
Visited(s, f) == f.out \in OutputKeys(s.done)

\* What the search goes on from: formulas to visit in turn, the stack, and how far it is.
Calls(fs) == Seq(Range(fs) \cup {Undefined}) \X (SUBSET OutputKeys(fs)) \X Search(fs)

\* visit(f, stack) for each f of the formulas to visit, but for undefined ones.  The stack
\* holds output keys and grows with every call, so that the search ends.
VisitAll(fs) ==
    LET visitAll[call \in Calls(fs)] ==
            LET todo == call[1]
                stack == call[2]
                s == call[3]
                f == Head(todo)
                inputs == visitAll[Dependencies(fs, f), stack \cup {f.out}, s]
                after == IF f = Undefined \/ Visited(s, f) THEN s
                         ELSE IF f.out \in stack THEN [s EXCEPT !.cycle = TRUE]
                         ELSE IF inputs.cycle THEN inputs
                         ELSE [inputs EXCEPT !.done = Append(@, f)]
            IN IF s.cycle \/ todo = <<>> THEN s ELSE visitAll[Tail(todo), stack, after]
    IN visitAll

\* topoSortFormulas(fs): done is its result, unless it throws.
TopoSort(fs) == VisitAll(fs)[fs, {}, [done |-> <<>>, cycle |-> FALSE]]

-------------------------------------------------------------------------------
(* What the sort promises.                                                   *)

Edges(fs) == {e \in OutputKeys(fs) \X OutputKeys(fs) :
                 \E i \in DOMAIN fs : fs[i].out = e[2] /\ e[1] \in Range(fs[i].in)}

\* Some output is computed, directly or not, from itself.
Cyclic(fs) == \E T \in (SUBSET OutputKeys(fs)) \ {{}} :
                \A k \in T : \E l \in T : <<l, k>> \in Edges(fs)

UniqueOutputs(fs) == \A i, j \in DOMAIN fs : fs[i].out = fs[j].out => i = j

\* The result has a formula for every output key, and one only, after formulas for all
\* the inputs it declares that are computed at all.
Topological(fs, done) ==
    /\ done \in Seq(Range(fs))
    /\ OutputKeys(done) = OutputKeys(fs)
    /\ UniqueOutputs(done)
    /\ \A i \in DOMAIN done :
          Range(done[i].in) \cap OutputKeys(fs) \subseteq OutputKeys(SubSeq(done, 1, i - 1))

\* topoSortFormulas either orders the formulas or refuses them, and it refuses only
\* lists with a cycle -- all of those, if no two formulas compute the same key.  (Of
\* two that do it keeps one, and may thereby break the cycle.)
SortIsSound(fs) ==
    LET s == TopoSort(fs)
    IN  /\ s.cycle => Cyclic(fs)
        /\ ~s.cycle => Topological(fs, s.done)
        /\ UniqueOutputs(fs) => s.cycle = Cyclic(fs)
===============================================================================
