------------------------------ MODULE GoSlices ------------------------------
(***************************************************************************)
(* Go slices of configuration entries and pointers into them, as           *)
(* config/manager.go hands them out.  A slice is its backing array and its *)
(* length; a pointer is an index into the array, so that what it leads to  *)
(* changes when an element is overwritten or the elements behind a deleted *)
(* one move up.  Once append has copied the array, a pointer keeps the     *)
(* element it had.                                                         *)
(***************************************************************************)
EXTENDS Naturals, Sequences, FiniteSets

Slice(seq) == [cells |-> seq, len |-> Len(seq)]
Listed(s) == SubSeq(s.cells, 1, s.len)
Elements(s) == {s.cells[i] : i \in 1 .. s.len}
IdSet(elements) == {e.id : e \in elements}
IdsOf(s) == IdSet(Elements(s))

(* The loop over a list stops at the first element with the identifier. *)
IndexOf(s, id) ==
  CHOOSE i \in 1 .. s.len : s.cells[i].id = id /\ \A k \in 1 .. i - 1 : s.cells[k].id # id
Element(s, id) == s.cells[IndexOf(s, id)]
SetElement(s, i, e) == [s EXCEPT !.cells[i] = e]

(* Mutant: the elements move up and the length stays. *)
RemoveKeepsLength(s, i) ==
  [s EXCEPT !.cells = [k \in DOMAIN s.cells |->
                         IF i <= k /\ k < s.len THEN s.cells[k + 1] ELSE s.cells[k]]]

(* append(s[:i], s[i+1:]...): the last cell keeps what it held. *)
Remove(s, i) ==
  [cells |-> [k \in DOMAIN s.cells |->
                IF i <= k /\ k < s.len THEN s.cells[k + 1] ELSE s.cells[k]],
   len |-> s.len - 1]

(* A loop over the list that keeps some of its elements, those with the    *)
(* indices in I.  SelectSeq would do, were its recursion within the        *)
(* provers' reach.                                                         *)
Selected(s, I) ==
  [k \in 1 .. Cardinality(I) |->
     s.cells[CHOOSE i \in I : Cardinality({j \in I : j < i}) = k - 1]]

(* append(s, e): when no cell is left behind the last element, it may be   *)
(* that the capacity is used up and the array is copied (ArrayMayMove).    *)
Appended(s, e) ==
  [cells |-> SubSeq(s.cells, 1, s.len) \o <<e>> \o SubSeq(s.cells, s.len + 2, Len(s.cells)),
   len |-> s.len + 1]

ArrayMayMove(s) == s.len = Len(s.cells)

PointerTo(i) == [kept |-> FALSE, at |-> i]
Deref(s, p) == IF p.kept THEN p.element ELSE s.cells[p.at]

=============================================================================
