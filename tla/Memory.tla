------------------------------- MODULE Memory -------------------------------
(***************************************************************************)
(* The page allocator of src/pintos/src/threads/palloc.c and the block     *)
(* allocator of src/pintos/src/threads/malloc.c.  The memory m is          *)
(*   kernel, user   the pools: base page and bitmap of the used pages,     *)
(*   arena          the header at the start of a page, NULL if none,       *)
(*   free_list      one sequence of block addresses per descriptor.        *)
(* A call is one step: malloc and free hold the descriptor's lock from the *)
(* first access to the free list to the last, and a scan holds the pool's  *)
(* lock, while a free without it only clears bits its caller owns.         *)
(***************************************************************************)
EXTENDS Bitmap, Pointers

CONSTANTS PGSIZE,             \* bytes of a page
          SizeofArena,        \* bytes of struct arena
          MinBlock,           \* the smallest block, 16 in the code
          SizeWidth,          \* bits of a size_t
          RamPages,           \* pages from 1 MB to the end of RAM
          UserPageLimit,
          RequestSize,        \* sizes the callers ask for
          CallocArgs,         \* pairs of arguments of calloc: the product fits, or is refused
          MaxBlocks           \* bound on the blocks in use

ASSUME MemoryAssumption ==
  /\ SizeofArena < PGSIZE /\ MinBlock < PGSIZE \div 2
  /\ \A ab \in CallocArgs : LET size == (ab[1] * ab[2]) % 2 ^ SizeWidth
                            IN  size = ab[1] * ab[2] \/ size < ab[1] \/ size < ab[2]

VARIABLES mem,        \* the memory
          blocks,     \* address of each block in use |-> what its caller asked for, and lost
          upages      \* user pages in use

mvars == <<mem, blocks, upages>>

size_t(n) == n % 2 ^ SizeWidth
DIV_ROUND_UP(x, step) == size_t(x + step - 1) \div step
pg_no(p) == p \div PGSIZE
pg_ofs(p) == p % PGSIZE

----------------------------------------------------------------------------
\* Pages.

init_pool(base, page_cnt) ==
  LET bm_pages == DIV_ROUND_UP(bitmap_buf_size(page_cnt), PGSIZE)
  IN  CASE bm_pages <= page_cnt ->
        [base |-> base + bm_pages,
         used_map |-> bitmap_create_in_buf(page_cnt - bm_pages, 1, bm_pages * PGSIZE)]

palloc_init(user_page_limit) ==
  LET user_pages == IF RamPages \div 2 > user_page_limit THEN user_page_limit ELSE RamPages \div 2
      kernel_pages == RamPages - user_pages
  IN  [kernel |-> init_pool(0, kernel_pages), user |-> init_pool(kernel_pages, user_pages)]

page_from_pool(pool, page) ==
  page >= pool.base /\ page < pool.base + bitmap_size(pool.used_map)

\* The memory after the call, and the address of the first page or NULL.
palloc_get_multiple(m, pool, page_cnt) ==
  LET got == bitmap_scan_and_flip(m[pool].used_map, 0, page_cnt, FALSE)
  IN  IF page_cnt = 0 \/ got.idx = BITMAP_ERROR THEN [m |-> m, p |-> NULL]
      ELSE [m |-> [m EXCEPT ![pool].used_map = got.map],
            p |-> PGSIZE * (m[pool].base + got.idx)]

palloc_get_page(m, pool) == palloc_get_multiple(m, pool, 1)

\* The pages are overwritten, so a header in them is gone.
palloc_free_multiple(m, pages, page_cnt) ==
  LET first == pg_no(pages)
      pool == IF page_from_pool(m.kernel, first) THEN "kernel" ELSE "user"
      idx == first - m[pool].base
  IN  CASE pg_ofs(pages) = 0 ->
        IF page_cnt = 0 THEN m
        ELSE CASE page_from_pool(m[pool], first) /\ bitmap_all(m[pool].used_map, idx, page_cnt) ->
          [m EXCEPT ![pool].used_map = bitmap_set_multiple(@, idx, page_cnt, FALSE),
                    !.arena = [g \in DOMAIN @ |->
                                 IF g \in first .. first + page_cnt - 1 THEN NULL ELSE @[g]]]

palloc_free_page(m, page) == palloc_free_multiple(m, page, 1)

----------------------------------------------------------------------------
\* Blocks.

\* malloc_init: the block sizes of the descriptors.
descs == [d \in 1 .. Cardinality({i \in 0 .. 9 : MinBlock * 2 ^ i < PGSIZE \div 2}) |->
            MinBlock * 2 ^ (d - 1)]

blocks_per_arena(d) == (PGSIZE - SizeofArena) \div descs[d]

block_to_arena(m, b) ==
  LET a == m.arena[pg_no(b)]
  IN  CASE /\ a # NULL
           /\ IF a.desc # NULL THEN (pg_ofs(b) - SizeofArena) % descs[a.desc] = 0
                               ELSE pg_ofs(b) = SizeofArena -> a

arena_to_block(page, d, idx) ==
  CASE idx < blocks_per_arena(d) -> page + SizeofArena + idx * descs[d]

\* A block too big for a descriptor: whole pages, the header before it.
BigBlock(m, size) ==
  LET page_cnt == DIV_ROUND_UP(size_t(size + SizeofArena), PGSIZE)
      got == palloc_get_multiple(m, "kernel", page_cnt)
  IN  IF got.p = NULL THEN got
      ELSE [m |-> [got.m EXCEPT !.arena[pg_no(got.p)] = [desc |-> NULL, free_cnt |-> page_cnt]],
            p |-> got.p + SizeofArena]

\* A new arena for descriptor d, its blocks at the end of the free list.
NewArena(m, d) ==
  LET got == palloc_get_page(m, "kernel")
  IN  IF got.p = NULL THEN got
      ELSE [got EXCEPT
              !.m.arena[pg_no(got.p)] = [desc |-> d, free_cnt |-> blocks_per_arena(d)],
              !.m.free_list[d] = @ \o [i \in 1 .. blocks_per_arena(d) |->
                                         arena_to_block(got.p, d, i - 1)]]

\* The first block of a free list leaves it, unless n says that there was no page for one.
TakeBlock(n, d) ==
  LET b == Head(n.m.free_list[d])
  IN  IF n.p = NULL THEN n
      ELSE [m |-> [n.m EXCEPT !.free_list[d] = Tail(@), !.arena[pg_no(b)].free_cnt = @ - 1], p |-> b]

malloc(m, size) ==
  LET fits == {d \in DOMAIN descs : descs[d] >= size}
      d == CHOOSE x \in fits : \A y \in fits : x <= y
  IN  IF size = 0 THEN [m |-> m, p |-> NULL]
      ELSE IF fits = {} THEN BigBlock(m, size)
      ELSE TakeBlock(IF m.free_list[d] = <<>> THEN NewArena(m, d) ELSE [m |-> m, p |-> 0], d)

calloc(m, a, b) ==
  LET size == size_t(a * b)
  IN  IF size < a \/ size < b THEN [m |-> m, p |-> NULL] ELSE malloc(m, size)

block_size(m, block) ==
  LET a == block_to_arena(m, block)
  IN  IF a.desc # NULL THEN descs[a.desc] ELSE PGSIZE * a.free_cnt - pg_ofs(block)

\* Mutant: an arena that became unused goes back with its blocks still on the free list.
free_no_unlink(m, p) ==
  LET a == block_to_arena(m, p)
      back == [m EXCEPT !.free_list[a.desc] = <<p>> \o @, !.arena[pg_no(p)].free_cnt = @ + 1]
  IN  IF a.desc = NULL THEN palloc_free_multiple(m, PGSIZE * pg_no(p), a.free_cnt)
      ELSE IF a.free_cnt + 1 >= blocks_per_arena(a.desc)
      THEN palloc_free_page(back, PGSIZE * pg_no(p)) ELSE back

\* The block goes to the front of its free list; an arena without a block in use leaves
\* the list and goes back to the page allocator.
free(m, p) ==
  LET a == block_to_arena(m, p)
      page == PGSIZE * pg_no(p)
      back == [m EXCEPT !.free_list[a.desc] = <<p>> \o @, !.arena[pg_no(p)].free_cnt = @ + 1]
      own == {arena_to_block(page, a.desc, i) : i \in 0 .. blocks_per_arena(a.desc) - 1}
      NotOwn(b) == b \notin own
  IN  IF a.desc = NULL THEN palloc_free_multiple(m, page, a.free_cnt)
      ELSE IF a.free_cnt + 1 < blocks_per_arena(a.desc) THEN back
      ELSE CASE a.free_cnt + 1 = blocks_per_arena(a.desc) ->
        palloc_free_page([back EXCEPT !.free_list[a.desc] = SelectSeq(@, NotOwn)], page)

\* The old block moves to the new one that malloc got, if any.
Move(got, old, new_size) ==
  LET old_size == block_size(got.m, old)
  IN  IF old = NULL \/ got.p = NULL THEN [m |-> got.m, p |-> got.p, copied |-> 0]
      ELSE [m |-> free(got.m, old), p |-> got.p,
            copied |-> IF new_size < old_size THEN new_size ELSE old_size]

\* The memory after the call, the block returned, and the bytes copied to it.
realloc(m, old, new_size) ==
  IF new_size = 0 THEN [m |-> IF old = NULL THEN m ELSE free(m, old), p |-> NULL, copied |-> 0]
  ELSE Move(malloc(m, new_size), old, new_size)

----------------------------------------------------------------------------
\* Callers.

Without(f, x) == [y \in DOMAIN f \ {x} |-> f[y]]
Plus(f, x, v) == [y \in DOMAIN f \cup {x} |-> IF y = x THEN v ELSE f[y]]

\* The caller of malloc or calloc gets r.p for size bytes and keeps what it wrote there.
Obtain(r, size) ==
  /\ mem' = r.m
  /\ blocks' = IF r.p = NULL THEN blocks ELSE Plus(blocks, r.p, [size |-> size, lost |-> 0])
  /\ UNCHANGED upages

CallMalloc ==
  /\ Cardinality(DOMAIN blocks) < MaxBlocks
  /\ \E size \in RequestSize : Obtain(malloc(mem, size), size)

\* calloc refuses a product that wraps around to less than a factor.  Its callers ask for
\* one element; a product that wraps around to more than both factors is not considered.
CallCalloc ==
  /\ Cardinality(DOMAIN blocks) < MaxBlocks
  /\ \E ab \in CallocArgs : Obtain(calloc(mem, ab[1], ab[2]), ab[1] * ab[2])

\* The bytes of the old block that fit into the new one and were not copied.
Lost(old, new, copied) ==
  LET keep == IF new < old THEN new ELSE old IN IF copied >= keep THEN 0 ELSE keep - copied

CallRealloc ==
  \E p \in DOMAIN blocks, size \in RequestSize : \E r \in {realloc(mem, p, size)} :
    /\ mem' = r.m
    /\ blocks' = IF size = 0 THEN Without(blocks, p)
                 ELSE IF r.p = NULL THEN blocks
                 ELSE Plus(Without(blocks, p), r.p,
                           [size |-> size, lost |-> Lost(blocks[p].size, size, r.copied)])
    /\ UNCHANGED upages

CallFree ==
  \E p \in DOMAIN blocks :
    /\ mem' = free(mem, p)
    /\ blocks' = Without(blocks, p)
    /\ UNCHANGED upages

GetUserPage ==
  LET r == palloc_get_page(mem, "user")
  IN  /\ r.p # NULL
      /\ mem' = r.m
      /\ upages' = upages \cup {r.p}
      /\ UNCHANGED blocks

FreeUserPage ==
  \E p \in upages :
    /\ mem' = palloc_free_page(mem, p)
    /\ upages' = upages \ {p}
    /\ UNCHANGED blocks

MemoryInit(off) ==
  LET pools == palloc_init(UserPageLimit)
  IN  /\ mem = IF off THEN NULL
               ELSE [kernel |-> pools.kernel, user |-> pools.user,
                     arena |-> [g \in 0 .. RamPages - 1 |-> NULL],
                     free_list |-> [d \in DOMAIN descs |-> <<>>]]
      /\ blocks = <<>>
      /\ upages = {}

MemoryNext ==
  /\ mem # NULL
  /\ CallMalloc \/ CallCalloc \/ CallRealloc \/ CallFree \/ GetUserPage \/ FreeUserPage

----------------------------------------------------------------------------
Bytes(p, n) == p .. p + n - 1

\* The blocks on the free lists, and the pages the bitmap of the kernel pool has in use.
FreeBlocks == UNION {{[p |-> mem.free_list[d][i], d |-> d] : i \in DOMAIN mem.free_list[d]}
                     : d \in DOMAIN descs}

UsedPages == {g \in 0 .. RamPages - 1 :
                /\ page_from_pool(mem.kernel, g)
                /\ bitmap_test(mem.kernel.used_map, g - mem.kernel.base)}

\* What occupies memory: headers, blocks in use, free blocks, user pages.
Occupied ==
  {Bytes(PGSIZE * g, SizeofArena) : g \in {x \in DOMAIN mem.arena : mem.arena[x] # NULL}}
  \cup {Bytes(p, block_size(mem, p)) : p \in DOMAIN blocks}
  \cup {Bytes(f.p, descs[f.d]) : f \in FreeBlocks}
  \cup {Bytes(p, PGSIZE) : p \in upages}

\* malloc, calloc, realloc and free never hand out a byte twice: headers, blocks in use,
\* free blocks and user pages do not overlap, a block has the bytes its caller asked for
\* and, after realloc, what the old one held, a free block is part of an arena of its size,
\* the counts of the arenas agree with the free lists, and a page of the kernel pool is in
\* use exactly when it holds part of an arena with a block in use, so a page never leaks.
BlocksDisjoint ==
  mem # NULL =>
    /\ \A x, y \in Occupied : x # y => x \cap y = {}
    /\ \A p \in DOMAIN blocks : block_size(mem, p) >= blocks[p].size /\ blocks[p].lost = 0
    /\ \A d \in DOMAIN descs : IsInjective(mem.free_list[d])
    /\ \A f \in FreeBlocks : mem.arena[pg_no(f.p)] # NULL /\ mem.arena[pg_no(f.p)].desc = f.d
    /\ \A g \in DOMAIN mem.arena :
         mem.arena[g] # NULL /\ mem.arena[g].desc # NULL =>
           mem.arena[g].free_cnt = Cardinality({f \in FreeBlocks : pg_no(f.p) = g})
    /\ UsedPages = UNION {{pg_no(x) : x \in Bytes(p, block_size(mem, p))} : p \in DOMAIN blocks}
=============================================================================
