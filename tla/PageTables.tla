----------------------------- MODULE PageTables -----------------------------
(***************************************************************************)
(* The page tables of x86-64 (lib/hal_x86_64/src/paging.rs) and of RISC-V  *)
(* with four or three levels (Sv48 and Sv39, lib/hal_riscv/src/paging.rs), *)
(* as operators on a list of tables.                                       *)
(*                                                                         *)
(* Addresses are counted in 4KiB pages and frames.  A table has Fanout     *)
(* entries instead of 512, so a "2MiB" page is Fanout pages and a "1GiB"   *)
(* page is Fanout^2.  A page size is named by its exponent, 0, 1 or 2.     *)
(* The tables are listed in the order they were allocated; table 1 is the  *)
(* top one.  An entry holds flags and the number of a table, or of the     *)
(* first frame of a page.                                                  *)
(***************************************************************************)
EXTENDS Integers, Sequences

CONSTANT Fanout     \* entries of a table

Unused == [flags |-> {}, to |-> 0]

\* Table::zero
ZeroTable == [i \in 0 .. Fanout - 1 |-> Unused]

Depth(a) == IF a = "sv39" THEN 3 ELSE 4

\* The pages of the largest address space.
PageNumbers == 0 .. Fanout ^ 4 - 1

\* p1_index .. p4_index
IndexAt(page, level) == (page \div Fanout ^ (level - 1)) % Fanout

\* The levels of the tables a walk to the table of `last` goes through.
LevelsAbove(depth, last) == [i \in 1 .. depth - last |-> depth + 1 - i]

\* A left fold over a sequence.
Through(step(_, _), start, path) ==
    LET upto[n \in 0 .. Len(path)] ==
            IF n = 0 THEN start
            ELSE LET before == upto[n - 1] IN step(before, path[n])
    IN upto[Len(path)]

-----------------------------------------------------------------------------
\* Entries.

x86_EntryFlags(flags) ==
    {"PRESENT"}
    \cup (IF "writable" \in flags THEN {"WRITABLE"} ELSE {})
    \cup (IF "executable" \in flags THEN {} ELSE {"NO_EXECUTE"})
    \cup (IF "user_accessible" \in flags THEN {"USER_ACCESSIBLE"} ELSE {})
    \cup (IF "cached" \in flags THEN {} ELSE {"NO_CACHE"})

x86_NON_TERMINAL_FLAGS == {"PRESENT", "WRITABLE", "USER_ACCESSIBLE"}

riscv_EntryFlags(flags) ==
    {"VALID", "READABLE"}
    \cup (IF "writable" \in flags THEN {"WRITABLE"} ELSE {})
    \cup (IF "executable" \in flags THEN {"EXECUTABLE"} ELSE {})
    \cup (IF "user_accessible" \in flags THEN {"USER_ACCESSIBLE"} ELSE {})

\* Entry::address is Some
x86_present(entry) == "PRESENT" \in entry.flags
riscv_is_valid(entry) == "VALID" \in entry.flags

riscv_is_leaf(entry) ==
    /\ "VALID" \in entry.flags
    /\ entry.flags \cap {"READABLE", "WRITABLE", "EXECUTABLE"} # {}

\* Entry::set for a leaf
riscv_set_leaf(frame, flags) ==
    [flags |-> flags \cup {"VALID", "ACCESSED", "DIRTY"}, to |-> frame]

-----------------------------------------------------------------------------
\* A walk that creates tables: the tables, the table it is at, and whether it
\* has met no error.

Start(ts) == [ts |-> ts, at |-> 1, ok |-> TRUE]

Entry(w, i) == w.ts[w.at][i]

\* A new table, zeroed, entered by the entry at i.
Grow(w, i, flags) ==
    LET new == Len(w.ts) + 1
    IN [w EXCEPT !.ts = Append([w.ts EXCEPT ![w.at][i] =
                                   [flags |-> flags, to |-> new]], ZeroTable),
                 !.at = new]

\* Mutant: the entry of a new table withholds the right to write.
x86_next_table_create_read_only(w, i) ==
    CASE ~w.ok -> w
      [] w.ok /\ ~x86_present(Entry(w, i)) -> Grow(w, i, x86_NON_TERMINAL_FLAGS \ {"WRITABLE"})
      [] w.ok /\ "HUGE_PAGE" \in Entry(w, i).flags -> [w EXCEPT !.ok = FALSE]
      [] OTHER -> [w EXCEPT !.at = Entry(w, i).to]

x86_next_table_create(w, i) ==
    CASE ~w.ok -> w
      [] w.ok /\ ~x86_present(Entry(w, i)) -> Grow(w, i, x86_NON_TERMINAL_FLAGS)
      [] w.ok /\ "HUGE_PAGE" \in Entry(w, i).flags -> [w EXCEPT !.ok = FALSE]
      [] OTHER -> [w EXCEPT !.at = Entry(w, i).to]

riscv_next_table_create(w, i) ==
    CASE ~w.ok -> w
      [] w.ok /\ ~riscv_is_valid(Entry(w, i)) -> Grow(w, i, {"VALID"})
      [] w.ok /\ riscv_is_leaf(Entry(w, i)) -> [w EXCEPT !.ok = FALSE]
      [] OTHER -> [w EXCEPT !.at = Entry(w, i).to]

\* The last part of `map`: the entry must be free.
SetLeaf(w, i, free, entry) ==
    IF w.ok /\ free THEN [w EXCEPT !.ts[w.at][i] = entry] ELSE [w EXCEPT !.ok = FALSE]

x86_map(ts, size, page, frame, flags) ==
    LET w == Through(LAMBDA u, l : x86_next_table_create(u, IndexAt(page, l)),
                      Start(ts), LevelsAbove(4, size + 1))
        i == IndexAt(page, size + 1)
    IN SetLeaf(w, i, Entry(w, i) = Unused,
               [flags |-> x86_EntryFlags(flags)
                          \cup (IF size > 0 THEN {"HUGE_PAGE"} ELSE {}),
                to |-> frame])

sv48_map(ts, size, page, frame, flags) ==
    LET w == Through(LAMBDA u, l : riscv_next_table_create(u, IndexAt(page, l)),
                      Start(ts), LevelsAbove(4, size + 1))
        i == IndexAt(page, size + 1)
    IN SetLeaf(w, i, ~riscv_is_valid(Entry(w, i)),
               riscv_set_leaf(frame, riscv_EntryFlags(flags)))

sv39_map(ts, size, page, frame, flags) ==
    LET w == Through(LAMBDA u, l : riscv_next_table_create(u, IndexAt(page, l)),
                      Start(ts), LevelsAbove(3, size + 1))
        i == IndexAt(page, size + 1)
    IN SetLeaf(w, i, ~riscv_is_valid(Entry(w, i)),
               riscv_set_leaf(frame, riscv_EntryFlags(flags)))

-----------------------------------------------------------------------------
\* The pages map_area maps, in order: <<size, offset>>.

Aligned(n, size) == n % Fanout ^ size = 0

abs_difference(a, b) == IF a > b THEN a - b ELSE b - a

align_down(n, size) == n - (n % Fanout ^ size)

\* map_range: one page of the size after another.
SamePages(size, from, length) ==
    [i \in 1 .. length \div Fanout ^ size |-> <<size, from + (i - 1) * Fanout ^ size>>]

\* One turn of the loop of map_area at `cursor`, with `left` pages to go: the
\* size of the pages to use and how far they go.
Turn(cursor, physical, left) ==
    CASE Aligned(cursor, 2) /\ Aligned(physical, 2) /\ left >= Fanout ^ 2 ->
            <<2, align_down(left, 2)>>
      [] ~(Aligned(cursor, 2) /\ Aligned(physical, 2) /\ left >= Fanout ^ 2)
         /\ Aligned(cursor, 1) /\ Aligned(physical, 1) /\ left >= Fanout ->
            <<1, align_down(left, 1)>>
      [] OTHER ->
            LET boundary == (cursor \div Fanout + 1) * Fanout
            IN <<0, IF boundary - cursor < left THEN boundary - cursor ELSE left>>

AreaPages(v, p, length) ==
    LET rest[done \in 0 .. length] ==
            IF done = length THEN <<>>
            ELSE LET turn == Turn(v + done, p + done, length - done)
                 IN SamePages(turn[1], done, turn[2]) \o rest[done + turn[2]]
    IN IF length < Fanout \/ ~Aligned(abs_difference(p, v), 1)
       THEN SamePages(0, 0, length)
       ELSE rest[0]

\* Map the pages until one fails; `done` counts the 4KiB pages mapped.
MapAll(map(_, _, _, _, _), ts, area, flags) ==
    Through(LAMBDA r, sp :
                 IF ~r.ok THEN r
                 ELSE LET m == map(r.ts, sp[1], area[1] + sp[2], area[2] + sp[2], flags)
                      IN [ts |-> m.ts, ok |-> m.ok,
                          done |-> r.done + (IF m.ok THEN Fanout ^ sp[1] ELSE 0)],
             [ts |-> ts, ok |-> TRUE, done |-> 0],
             AreaPages(area[1], area[2], area[3]))

x86_map_area(ts, area, flags) == MapAll(x86_map, ts, area, flags)
sv48_map_area(ts, area, flags) == MapAll(sv48_map, ts, area, flags)
sv39_map_area(ts, area, flags) == MapAll(sv39_map, ts, area, flags)

map_area(a, ts, area, flags) ==
    CASE a = "x86_64" -> x86_map_area(ts, area, flags)
      [] a = "sv48"   -> sv48_map_area(ts, area, flags)
      [] a = "sv39"   -> sv39_map_area(ts, area, flags)

-----------------------------------------------------------------------------
\* Walks that follow every present entry, next_table and next_table_mut: 0 when
\* an entry is absent, and a wild read once a page has been taken for a table.

Absent == -1
Wild == -2

x86_next_table(ts, at, i) ==
    CASE at \in {Absent, Wild} -> at
      [] at > 0 /\ ~x86_present(ts[at][i]) -> Absent
      [] at > 0 /\ "HUGE_PAGE" \in ts[at][i].flags -> Wild
      [] OTHER -> ts[at][i].to

riscv_next_table(ts, at, i) ==
    CASE at \in {Absent, Wild} -> at
      [] at > 0 /\ ~riscv_is_valid(ts[at][i]) -> Absent
      [] at > 0 /\ riscv_is_leaf(ts[at][i]) -> Wild
      [] OTHER -> ts[at][i].to

\* The table `last` levels from the bottom that the page's walk comes to.
x86_table_at(ts, page, last) ==
    Through(LAMBDA at, l : x86_next_table(ts, at, IndexAt(page, l)), 1,
             LevelsAbove(4, last))
riscv_table_at(ts, depth, page, last) ==
    Through(LAMBDA at, l : riscv_next_table(ts, at, IndexAt(page, l)), 1,
             LevelsAbove(depth, last))

\* What `translate` makes of the entry of the P2 table, and below it of the P1.
Resolve(ts, p2, p1, huge(_), present(_), page) ==
    LET e2 == ts[p2][IndexAt(page, 2)]
        e1 == ts[p1][IndexAt(page, 1)]
    IN CASE p2 \in {Absent, Wild} -> p2
         [] p2 > 0 /\ huge(e2) -> e2.to + (page % Fanout)
         [] p2 > 0 /\ ~huge(e2) /\ p1 < 0 -> p1
         [] OTHER -> IF present(e1) THEN e1.to ELSE Absent

x86_translate(ts, page) ==
    Resolve(ts, x86_table_at(ts, page, 2), x86_table_at(ts, page, 1),
            LAMBDA e : "HUGE_PAGE" \in e.flags, x86_present, page)

sv48_translate(ts, page) ==
    Resolve(ts, riscv_table_at(ts, 4, page, 2), riscv_table_at(ts, 4, page, 1),
            riscv_is_leaf, riscv_is_valid, page)

\* Mutant: the walk starts one level too high.
sv39_translate_from_p4(ts, page) == sv48_translate(ts, page)

sv39_translate(ts, page) ==
    Resolve(ts, riscv_table_at(ts, 3, page, 2), riscv_table_at(ts, 3, page, 1),
            riscv_is_leaf, riscv_is_valid, page)

translate(a, ts, page) ==
    CASE a = "x86_64" -> x86_translate(ts, page)
      [] a = "sv48"   -> sv48_translate(ts, page)
      [] a = "sv39"   -> sv39_translate(ts, page)

\* The entry of the P1 table is cleared, if there is a P1 table.
ClearLeaf(ts, p1, page) ==
    IF p1 < 0 THEN ts ELSE [ts EXCEPT ![p1][IndexAt(page, 1)] = Unused]

x86_unmap(ts, page) == ClearLeaf(ts, x86_table_at(ts, page, 1), page)
sv48_unmap(ts, page) == ClearLeaf(ts, riscv_table_at(ts, 4, page, 1), page)
sv39_unmap(ts, page) == ClearLeaf(ts, riscv_table_at(ts, 3, page, 1), page)

unmap(a, ts, page) ==
    CASE a = "x86_64" -> x86_unmap(ts, page)
      [] a = "sv48"   -> sv48_unmap(ts, page)
      [] a = "sv39"   -> sv39_unmap(ts, page)

-----------------------------------------------------------------------------
\* The memory-management unit, from the top level down: x86-64 grants what the
\* entries of all levels grant, RISC-V what the leaf grants.  A large page must
\* start at a multiple of its size: x86-64 ignores the low bits of the address,
\* RISC-V faults.

Unmapped == <<>>

x86_granted(path) ==
    { f \in {"writable", "executable", "user_accessible", "cached"} :
        \A e \in path :
            CASE f = "writable"        -> "WRITABLE" \in e.flags
              [] f = "executable"      -> "NO_EXECUTE" \notin e.flags
              [] f = "user_accessible" -> "USER_ACCESSIBLE" \in e.flags
              [] f = "cached"          -> "NO_CACHE" \notin e.flags }

riscv_granted(leaf) ==
    { f \in {"writable", "executable", "user_accessible"} :
        CASE f = "writable"        -> "WRITABLE" \in leaf.flags
          [] f = "executable"      -> "EXECUTABLE" \in leaf.flags
          [] f = "user_accessible" -> "USER_ACCESSIBLE" \in leaf.flags }

Mmu(a, ts, page) ==
    LET Look(u, l) ==
          LET e == ts[u.at][IndexAt(page, l)]
              span == Fanout ^ (l - 1)
              path == u.path \cup {e}
              there == IF a = "x86_64" THEN x86_present(e) ELSE riscv_is_valid(e)
              leaf == IF a = "x86_64" THEN l = 1 \/ "HUGE_PAGE" \in e.flags
                                      ELSE riscv_is_leaf(e)
          IN IF u.at = 0 THEN u
             ELSE IF ~there \/ (leaf /\ a # "x86_64" /\ e.to % span # 0)
             THEN [u EXCEPT !.at = 0]
             ELSE IF ~leaf THEN [u EXCEPT !.at = e.to, !.path = path]
             ELSE [at |-> 0, path |-> path,
                   found |-> <<(e.to \div span) * span + (page % span),
                               IF a = "x86_64" THEN x86_granted(path)
                                               ELSE riscv_granted(e)>>]
    IN Through(Look, [at |-> 1, path |-> {}, found |-> Unmapped],
                LevelsAbove(Depth(a), 0)).found

Sees(a, ts) ==
    [page \in PageNumbers |->
        IF page < Fanout ^ Depth(a) THEN Mmu(a, ts, page) ELSE Unmapped]
=============================================================================
