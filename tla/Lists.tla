------------------------------- MODULE Lists --------------------------------
(***************************************************************************)
(* The doubly linked lists of src/pintos/src/lib/kernel/list.c, pointer by *)
(* pointer, beside the sequences they stand for in the other modules.  A   *)
(* heap h maps every node to its next and prev pointers.  An ASSERT of the *)
(* code is the only arm of a CASE: TLC stops where it would fail.          *)
(***************************************************************************)
EXTENDS Integers, Sequences, SequencesExt, FiniteSets, Pointers

CONSTANTS ListElem,      \* the elements
          Key(_)         \* what less() compares

VARIABLES heap,          \* next and prev of every node
          content,       \* the sequence each list stands for
          listops        \* operations still to come

lvars == <<heap, content, listops>>

ListName == {"list", "other"}
HeadOf(l) == <<l, "head">>
TailOf(l) == <<l, "tail">>
Nodes == ListElem \cup {HeadOf(l) : l \in ListName} \cup {TailOf(l) : l \in ListName}

less(a, b) == Key(a) < Key(b)

----------------------------------------------------------------------------
\* Reading.

is_head(h, e) == e # NULL /\ h.prev[e] = NULL /\ h.next[e] # NULL
is_interior(h, e) == e # NULL /\ h.prev[e] # NULL /\ h.next[e] # NULL
is_tail(h, e) == e # NULL /\ h.prev[e] # NULL /\ h.next[e] = NULL

list_begin(h, l) == h.next[HeadOf(l)]
list_next(h, e) == CASE is_head(h, e) \/ is_interior(h, e) -> h.next[e]
list_end(l) == TailOf(l)
list_rbegin(h, l) == h.prev[TailOf(l)]
list_prev(h, e) == CASE is_interior(h, e) \/ is_tail(h, e) -> h.prev[e]
list_rend(l) == HeadOf(l)
list_empty(h, l) == list_begin(h, l) = list_end(l)
list_front(h, l) == CASE ~list_empty(h, l) -> h.next[HeadOf(l)]
list_back(h, l) == CASE ~list_empty(h, l) -> h.prev[TailOf(l)]

\* The nodes from e up to end, exclusive, by list_next; and back by list_prev.
RECURSIVE Forward(_, _, _)
Forward(h, e, end) == IF e = end THEN <<>> ELSE <<e>> \o Forward(h, list_next(h, e), end)

RECURSIVE Backward(_, _, _)
Backward(h, e, end) == IF e = end THEN <<>> ELSE <<e>> \o Backward(h, list_prev(h, e), end)

list_size(h, l) == Len(Forward(h, list_begin(h, l), list_end(l)))

list_max(h, l) ==
  LET Step(m, e) == IF less(m, e) THEN e ELSE m
  IN  IF list_empty(h, l) THEN list_end(l)
      ELSE FoldLeft(Step, list_begin(h, l), Forward(h, list_next(h, list_begin(h, l)), list_end(l)))

list_min(h, l) ==
  LET Step(m, e) == IF less(e, m) THEN e ELSE m
  IN  IF list_empty(h, l) THEN list_end(l)
      ELSE FoldLeft(Step, list_begin(h, l), Forward(h, list_next(h, list_begin(h, l)), list_end(l)))

is_sorted(h, a, b) ==
  a = b \/ \A i \in DOMAIN Forward(h, list_next(h, a), b) :
             LET e == Forward(h, list_next(h, a), b)[i] IN ~less(e, list_prev(h, e))

----------------------------------------------------------------------------
\* Writing.

list_init(h, l) ==
  [next |-> [h.next EXCEPT ![HeadOf(l)] = TailOf(l), ![TailOf(l)] = NULL],
   prev |-> [h.prev EXCEPT ![HeadOf(l)] = NULL, ![TailOf(l)] = HeadOf(l)]]

list_insert(h, before, elem) ==
  CASE is_interior(h, before) \/ is_tail(h, before) ->
    [next |-> [h.next EXCEPT ![elem] = before, ![h.prev[before]] = elem],
     prev |-> [h.prev EXCEPT ![elem] = h.prev[before], ![before] = elem]]

list_remove(h, elem) ==
  CASE is_interior(h, elem) ->
    [next |-> [h.next EXCEPT ![h.prev[elem]] = h.next[elem]],
     prev |-> [h.prev EXCEPT ![h.next[elem]] = h.prev[elem]]]

\* Mutant: BEFORE's prev is read before FIRST through LAST leave their list.
list_splice_stale(h, before, first, last_) ==
  LET last == list_prev(h, last_)
      cut == [next |-> [h.next EXCEPT ![h.prev[first]] = h.next[last]],
              prev |-> [h.prev EXCEPT ![h.next[last]] = h.prev[first]]]
  IN  IF first = last_ THEN h
      ELSE [next |-> [cut.next EXCEPT ![last] = before, ![h.prev[before]] = first],
            prev |-> [cut.prev EXCEPT ![first] = h.prev[before], ![before] = last]]

\* FIRST through LAST, exclusive, leave their list and go before BEFORE, whose own
\* prev is read after they left.
list_splice(h, before, first, last_) ==
  LET last == list_prev(h, last_)
      cut == [next |-> [h.next EXCEPT ![h.prev[first]] = h.next[last]],
              prev |-> [h.prev EXCEPT ![h.next[last]] = h.prev[first]]]
  IN  CASE is_interior(h, before) \/ is_tail(h, before) ->
        IF first = last_ THEN h
        ELSE CASE is_interior(h, first) /\ is_interior(h, last) ->
          [next |-> [cut.next EXCEPT ![last] = before, ![cut.prev[before]] = first],
           prev |-> [cut.prev EXCEPT ![first] = cut.prev[before], ![before] = last]]

list_push_front(h, l, elem) == list_insert(h, list_begin(h, l), elem)
list_push_back(h, l, elem) == list_insert(h, list_end(l), elem)
list_pop_front(h, l) == list_remove(h, list_front(h, l))
list_pop_back(h, l) == list_remove(h, list_back(h, l))

\* Exchanges the prev and next pointers of node e.
swap(h, e) == [next |-> [h.next EXCEPT ![e] = h.prev[e]], prev |-> [h.prev EXCEPT ![e] = h.next[e]]]

list_reverse(h, l) ==
  LET turned == FoldLeft(swap, h, Forward(h, list_begin(h, l), list_end(l)))
      first == h.prev[TailOf(l)]
      last == h.next[HeadOf(l)]
      ends == [next |-> [turned.next EXCEPT ![HeadOf(l)] = first],
               prev |-> [turned.prev EXCEPT ![TailOf(l)] = last]]
  IN  IF list_empty(h, l) THEN h
      ELSE [next |-> [ends.next EXCEPT ![last] = ends.prev[first]],
            prev |-> [ends.prev EXCEPT ![first] = ends.next[last]]]

RECURSIVE find_end_of_run(_, _, _)
find_end_of_run(h, a, b) ==
  LET n == list_next(h, a)
  IN  IF n # b /\ ~less(n, list_prev(h, n)) THEN find_end_of_run(h, n, b) ELSE n

RECURSIVE Merge(_, _, _, _)
Merge(h, a0, a1b0, b1) ==
  IF a0 = a1b0 \/ a1b0 = b1 THEN h
  ELSE IF ~less(a1b0, a0) THEN Merge(h, list_next(h, a0), a1b0, b1)
  ELSE LET n == list_next(h, a1b0)
       IN  Merge(list_splice(h, a0, list_prev(h, n), n), a0, n, b1)

inplace_merge(h, a0, a1b0, b1) ==
  CASE is_sorted(h, a0, a1b0) /\ is_sorted(h, a1b0, b1) -> Merge(h, a0, a1b0, b1)

\* One pass over the list from a0: the heap and the number of runs output.
RECURSIVE SortPass(_, _, _, _)
SortPass(h, l, a0, runs) ==
  IF a0 = list_end(l) THEN [heap |-> h, runs |-> runs]
  ELSE LET a1b0 == find_end_of_run(h, a0, list_end(l))
       IN  IF a1b0 = list_end(l) THEN [heap |-> h, runs |-> runs + 1]
           ELSE LET b1 == find_end_of_run(h, a1b0, list_end(l))
                IN  SortPass(inplace_merge(h, a0, a1b0, b1), l, b1, runs + 1)

RECURSIVE list_sort(_, _)
list_sort(h, l) ==
  LET pass == SortPass(h, l, list_begin(h, l), 0)
  IN  IF pass.runs > 1 THEN list_sort(pass.heap, l)
      ELSE CASE is_sorted(pass.heap, list_begin(pass.heap, l), list_end(l)) -> pass.heap

RECURSIVE Position(_, _, _, _)
Position(h, l, e, elem) ==
  IF e = list_end(l) \/ less(elem, e) THEN e ELSE Position(h, l, list_next(h, e), elem)

list_insert_ordered(h, l, elem) == list_insert(h, Position(h, l, list_begin(h, l), elem), elem)

RECURSIVE UniqueFrom(_, _, _, _)
UniqueFrom(h, l, duplicates, elem) ==
  LET next == list_next(h, elem)
  IN  IF next = list_end(l) THEN h
      ELSE IF ~less(elem, next) /\ ~less(next, elem)
      THEN LET r == list_remove(h, next)
           IN  UniqueFrom(IF duplicates = NULL THEN r ELSE list_push_back(r, duplicates, next),
                          l, duplicates, elem)
      ELSE UniqueFrom(h, l, duplicates, next)

list_unique(h, l, duplicates) ==
  IF list_empty(h, l) THEN h ELSE UniqueFrom(h, l, duplicates, list_begin(h, l))
----------------------------------------------------------------------------
\* The same operations on the sequences.

InsertOrdered(s, e) ==
  SelectSeq(s, LAMBDA x : Key(x) <= Key(e)) \o <<e>> \o SelectSeq(s, LAMBDA x : Key(x) > Key(e))

StableSort(s) == FoldLeft(InsertOrdered, <<>>, s)

InOrder(s) == \A i, j \in DOMAIN s : i < j => Key(s[i]) <= Key(s[j])

\* The elements of s whose key equals, or does not equal, that of their predecessor.
Repeats(s, same) ==
  LET idx == SelectSeq([i \in DOMAIN s |-> i],
                       LAMBDA i : (i > 1 /\ Key(s[i]) = Key(s[i - 1])) = same)
  IN  [j \in DOMAIN idx |-> s[idx[j]]]

\* The node at position i of list l, its tail after the last.
Node(l, i) == IF i <= Len(content[l]) THEN content[l][i] ELSE TailOf(l)

\* Sequence s of list l with r before node n.
Before(s, l, n, r) ==
  LET at == IF n = TailOf(l) THEN Len(s) + 1 ELSE CHOOSE i \in DOMAIN s : s[i] = n
  IN  SubSeq(s, 1, at - 1) \o r \o SubSeq(s, at, Len(s))

Unlisted == ListElem \ UNION {Range(content[l]) : l \in ListName}

\* One operation on the heap and on the sequences.
ListStep(h, c) ==
  /\ listops > 0
  /\ listops' = listops - 1
  /\ heap' = h
  /\ content' = c

Push ==
  \E l \in ListName, e \in Unlisted :
    \/ ListStep(list_push_front(heap, l, e), [content EXCEPT ![l] = <<e>> \o @])
    \/ ListStep(list_push_back(heap, l, e), [content EXCEPT ![l] = Append(@, e)])
    \/ /\ InOrder(content[l])
       /\ ListStep(list_insert_ordered(heap, l, e), [content EXCEPT ![l] = InsertOrdered(@, e)])
    \/ \E i \in 1 .. Len(content[l]) :
         ListStep(list_insert(heap, Node(l, i), e),
                  [content EXCEPT ![l] = Before(@, l, Node(l, i), <<e>>)])

TakeOut ==
  \E l \in ListName :
    /\ content[l] # <<>>
    /\ \/ ListStep(list_pop_front(heap, l), [content EXCEPT ![l] = Tail(@)])
       \/ ListStep(list_pop_back(heap, l), [content EXCEPT ![l] = SubSeq(@, 1, Len(@) - 1)])
       \/ \E i \in DOMAIN content[l] :
            ListStep(list_remove(heap, content[l][i]),
                     [content EXCEPT ![l] = SubSeq(@, 1, i - 1) \o SubSeq(@, i + 1, Len(@))])

\* Positions i up to j of list l go before position k of list m, outside of them.
Splice ==
  \E l, m \in ListName : \E i \in 1 .. Len(content[l]) + 1, k \in 1 .. Len(content[m]) + 1 :
    \E j \in i .. Len(content[l]) + 1 :
      LET rest == SubSeq(content[l], 1, i - 1) \o SubSeq(content[l], j, Len(content[l]))
          out == [content EXCEPT ![l] = rest]
      IN  /\ l = m => k \notin i .. j - 1
          /\ ListStep(list_splice(heap, Node(m, k), Node(l, i), Node(l, j)),
                      [out EXCEPT ![m] = Before(@, m, Node(m, k), SubSeq(content[l], i, j - 1))])

Reorder ==
  \E l \in ListName :
    \/ ListStep(list_reverse(heap, l), [content EXCEPT ![l] = Reverse(@)])
    \/ ListStep(list_sort(heap, l), [content EXCEPT ![l] = StableSort(@)])
    \/ ListStep(list_unique(heap, l, NULL), [content EXCEPT ![l] = Repeats(@, FALSE)])
    \/ \E m \in ListName \ {l} :
         ListStep(list_unique(heap, l, m),
                  [content EXCEPT ![l] = Repeats(@, FALSE), ![m] = @ \o Repeats(content[l], TRUE)])

\* The heap in which every list of c was filled by list_push_back.
Filled(c) ==
  LET blank == [next |-> [n \in Nodes |-> NULL], prev |-> [n \in Nodes |-> NULL]]
      ready == list_init(list_init(blank, "list"), "other")
      Fill(h, l) == FoldLeft(LAMBDA g, e : list_push_back(g, l, e), h, c[l])
  IN  Fill(Fill(ready, "list"), "other")

\* Any distribution of elements over the lists.
ListsInit(ops) ==
  /\ \E s \in UNION {SetToSeqs(S) : S \in SUBSET ListElem} : \E n \in 0 .. Len(s) :
       content = IF ops = 0 THEN [l \in ListName |-> <<>>]
                 ELSE [l \in ListName |-> IF l = "list" THEN SubSeq(s, 1, n) ELSE SubSeq(s, n + 1, Len(s))]
  /\ heap = Filled(content)
  /\ listops = ops

ListsNext == Push \/ TakeOut \/ Splice \/ Reorder

\* Every list is the sequence that the other modules take it for: forward and backward
\* traversal, size, ends, maximum and minimum agree with it after any operation,
\* and sorting keeps the order of equal elements.
ListsAreSequences ==
  \A l \in ListName :
    LET s == content[l]
    IN  /\ Forward(heap, list_begin(heap, l), list_end(l)) = s
        /\ Backward(heap, list_rbegin(heap, l), list_rend(l)) = Reverse(s)
        /\ list_size(heap, l) = Len(s)
        /\ list_empty(heap, l) <=> s = <<>>
        /\ s # <<>> =>
             /\ list_front(heap, l) = s[1] /\ list_back(heap, l) = s[Len(s)]
             /\ list_max(heap, l) = Head(SelectSeq(s, LAMBDA x : \A i \in DOMAIN s : Key(s[i]) <= Key(x)))
             /\ list_min(heap, l) = Head(SelectSeq(s, LAMBDA x : \A i \in DOMAIN s : Key(s[i]) >= Key(x)))
=============================================================================
