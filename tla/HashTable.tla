----------------------------- MODULE HashTable ------------------------------
(***************************************************************************)
(* The hash tables of src/pintos/src/lib/kernel/hash.c.  A table is        *)
(*   elem_cnt   the count of elements,                                     *)
(*   buckets    a sequence of elements for each of the bucket_cnt buckets, *)
(*              which Lists shows a list to be, or NULL when there are     *)
(*              none.                                                      *)
(* An element carries the key that less compares and the value of hash;    *)
(* malloc succeeds or fails.                                               *)
(***************************************************************************)
EXTENDS Integers, Sequences, SequencesExt, FiniteSets, Bitwise, Pointers

CONSTANTS HashElem,                 \* records [key, hash, id]
          MIN_BUCKETS,              \* 4 in the code
          BEST_ELEMS_PER_BUCKET     \* 2 in the code

ASSUME HashAssumption == MIN_BUCKETS \in {2 ^ i : i \in 0 .. 4} /\ BEST_ELEMS_PER_BUCKET > 0

VARIABLES table,       \* the table
          members,     \* the elements it should have
          answer       \* what the last call returned, and what it should have

hvars == <<table, members, answer>>

turn_off_least_1bit(x) == x & (x - 1)
is_power_of_2(x) == x # 0 /\ turn_off_least_1bit(x) = 0

bucket_cnt(h) == Cardinality(DOMAIN h.buckets)

find_bucket(h, e) == e.hash & (bucket_cnt(h) - 1)

\* The first element of a bucket that is neither less nor greater than e.
find_elem(h, bucket, e) ==
  LET equal == SelectSeq(h.buckets[bucket], LAMBDA x : ~(x.key < e.key) /\ ~(e.key < x.key))
  IN  IF equal = <<>> THEN NULL ELSE Head(equal)

insert_elem(h, bucket, e) ==
  [elem_cnt |-> h.elem_cnt + 1, buckets |-> [h.buckets EXCEPT ![bucket] = <<e>> \o @]]

remove_elem(h, e) ==
  [elem_cnt |-> h.elem_cnt - 1,
   buckets |-> [b \in DOMAIN h.buckets |-> SelectSeq(h.buckets[b], LAMBDA x : x # e)]]

Empty(n) == [elem_cnt |-> 0, buckets |-> [b \in 0 .. n - 1 |-> <<>>]]

\* The elements of all buckets, one bucket after the other.
InBucketOrder(h) ==
  FoldLeft(LAMBDA s, b : s \o h.buckets[b - 1], <<>>, [b \in 1 .. bucket_cnt(h) |-> b])

\* The number of buckets for n elements: a power of 2, rounded down.
RECURSIVE RoundDown(_)
RoundDown(n) == IF is_power_of_2(n) THEN n ELSE RoundDown(turn_off_least_1bit(n))

BucketsFor(n) ==
  LET best == n \div BEST_ELEMS_PER_BUCKET
  IN  RoundDown(IF best < MIN_BUCKETS THEN MIN_BUCKETS ELSE best)

\* The lists of the old and of the new buckets while the elements move.
MovingLists(h, n) ==
  [x \in ({"old"} \X DOMAIN h.buckets) \cup ({"new"} \X (0 .. n - 1)) |->
     IF x[1] = "old" THEN h.buckets[x[2]] ELSE <<>>]

\* list_next: what follows e in the list it is on, NULL at the end.
ListNext(lists, e) ==
  LET l == lists[CHOOSE x \in DOMAIN lists : e \in Range(lists[x])]
      i == CHOOSE k \in DOMAIN l : l[k] = e
  IN  IF i = Len(l) THEN NULL ELSE l[i + 1]

\* list_remove from the old bucket, list_push_front on one of n new ones.
MoveElem(lists, n, e) ==
  [x \in DOMAIN lists |->
     IF x = <<"new", e.hash & (n - 1)>> THEN <<e>> \o lists[x] ELSE Remove(lists[x], e)]

\* Mutant: the next element is looked up after the element has moved.
MoveStep_late(lists, n, e) ==
  LET moved == MoveElem(lists, n, e) IN [lists |-> moved, next |-> ListNext(moved, e)]

\* One turn of the loop over an old bucket: next is saved before the element moves.
MoveStep(lists, n, e) == [lists |-> MoveElem(lists, n, e), next |-> ListNext(lists, e)]

RECURSIVE MoveFrom(_, _, _)
MoveFrom(lists, n, e) ==
  LET r == MoveStep(lists, n, e) IN IF e = NULL THEN lists ELSE MoveFrom(r.lists, n, r.next)

\* Every element of the old buckets goes to the front of its new one.
rehash(h, mallocOk) ==
  LET n == BucketsFor(h.elem_cnt)
      MoveBucket(lists, b) ==
        MoveFrom(lists, n, IF h.buckets[b - 1] = <<>> THEN NULL ELSE Head(h.buckets[b - 1]))
      moved == FoldLeft(MoveBucket, MovingLists(h, n), [b \in 1 .. bucket_cnt(h) |-> b])
  IN  IF n = bucket_cnt(h) \/ ~mallocOk THEN h
      ELSE [elem_cnt |-> h.elem_cnt, buckets |-> [b \in 0 .. n - 1 |-> moved[<<"new", b>>]]]

\* The elements that the destructor gets are InBucketOrder(h).
hash_clear(h) == Empty(bucket_cnt(h))

hash_init(mallocOk) ==
  IF mallocOk THEN Empty(MIN_BUCKETS) ELSE [elem_cnt |-> 0, buckets |-> NULL]

\* The elements the destructor got, if there is one; the buckets are freed.
hash_destroy(h, destructor) ==
  [given |-> IF destructor THEN InBucketOrder(h) ELSE <<>>,
   table |-> [elem_cnt |-> IF destructor THEN 0 ELSE h.elem_cnt, buckets |-> NULL]]

\* The table after a call and the element returned.
hash_insert(h, new, mallocOk) ==
  LET bucket == find_bucket(h, new)
      old == find_elem(h, bucket, new)
  IN  [table |-> rehash(IF old = NULL THEN insert_elem(h, bucket, new) ELSE h, mallocOk),
       ret |-> old]

hash_replace(h, new, mallocOk) ==
  LET bucket == find_bucket(h, new)
      old == find_elem(h, bucket, new)
  IN  [table |-> rehash(insert_elem(IF old # NULL THEN remove_elem(h, old) ELSE h, bucket, new),
                        mallocOk),
       ret |-> old]

hash_find(h, e) == find_elem(h, find_bucket(h, e), e)

hash_delete(h, e, mallocOk) ==
  LET found == hash_find(h, e)
  IN  [table |-> IF found # NULL THEN rehash(remove_elem(h, found), mallocOk) ELSE h, ret |-> found]

hash_size(h) == h.elem_cnt
hash_empty(h) == h.elem_cnt = 0

\* An iterator: the bucket and the position in it, 0 at the head of the list; the
\* bucket is bucket_cnt past the last one.
hash_first == [bucket |-> 0, pos |-> 0]

RECURSIVE SkipEnds(_, _)
SkipEnds(h, i) ==
  IF i.bucket < bucket_cnt(h) /\ i.pos > Len(h.buckets[i.bucket])
  THEN SkipEnds(h, [bucket |-> i.bucket + 1, pos |-> 1]) ELSE i

hash_next(h, i) == SkipEnds(h, [i EXCEPT !.pos = @ + 1])

hash_cur(h, i) == IF i.bucket = bucket_cnt(h) THEN NULL ELSE h.buckets[i.bucket][i.pos]

RECURSIVE Iterated(_, _)
Iterated(h, i) ==
  LET n == hash_next(h, i)
  IN  IF hash_cur(h, n) = NULL THEN <<>> ELSE <<hash_cur(h, n)>> \o Iterated(h, n)

\* The elements that action gets from hash_apply.
hash_apply(h) == InBucketOrder(h)

----------------------------------------------------------------------------
\* The member equal to e, NULL if there is none.
Equal(e) ==
  IF \E x \in members : x.key = e.key THEN CHOOSE x \in members : x.key = e.key ELSE NULL

Returned(r, expected) == answer' = [got |-> r, due |-> expected]

CallInit ==
  /\ table = NULL
  /\ \E ok \in BOOLEAN : table' = hash_init(ok)
  /\ UNCHANGED <<members, answer>>

CallInsert ==
  \E e \in HashElem \ members, ok \in BOOLEAN :
    /\ table' = hash_insert(table, e, ok).table
    /\ Returned(hash_insert(table, e, ok).ret, Equal(e))
    /\ members' = IF Equal(e) = NULL THEN members \cup {e} ELSE members

CallReplace ==
  \E e \in HashElem \ members, ok \in BOOLEAN :
    /\ table' = hash_replace(table, e, ok).table
    /\ Returned(hash_replace(table, e, ok).ret, Equal(e))
    /\ members' = (members \ {Equal(e)}) \cup {e}

CallDelete ==
  \E e \in HashElem, ok \in BOOLEAN :
    /\ table' = hash_delete(table, e, ok).table
    /\ Returned(hash_delete(table, e, ok).ret, Equal(e))
    /\ members' = members \ {Equal(e)}

CallClear ==
  /\ table' = hash_clear(table)
  /\ members' = {}
  /\ Returned(InBucketOrder(table), Iterated(table, hash_first))

CallDestroy ==
  LET r == hash_destroy(table, TRUE)
  IN  /\ table' = r.table
      /\ members' = {}
      /\ Returned(r.given, hash_apply(table))

HashInit(off) ==
  /\ table = IF off THEN [elem_cnt |-> 0, buckets |-> NULL] ELSE NULL
  /\ members = {}
  /\ answer = [got |-> NULL, due |-> NULL]

HashNext ==
  \/ CallInit
  \/ /\ table # NULL /\ table.buckets # NULL
     /\ CallInsert \/ CallReplace \/ CallDelete \/ CallClear \/ CallDestroy

\* A hash table is the set of elements its calls made it, whatever the allocations of
\* rehash did: every call returned the right element, hash_find finds an element equal
\* to any key that is there and none else, hash_size agrees, an iteration and
\* hash_apply visit every member exactly once.
HashIsASet ==
  table # NULL =>
    /\ answer.got = answer.due
    /\ hash_size(table) = Cardinality(members)
    /\ table.buckets # NULL =>
         /\ \A e \in HashElem : hash_find(table, e) = Equal(e)
         /\ IsInjective(Iterated(table, hash_first))
         /\ Range(Iterated(table, hash_first)) = members
         /\ hash_apply(table) = Iterated(table, hash_first)
         /\ hash_empty(table) <=> members = {}
=============================================================================
