------------------------------ MODULE RegCache ------------------------------
(***************************************************************************)
(* The registration cache (dreg.c): memory that a rendezvous has pinned     *)
(* stays registered after the transfer, to be found again by the next one,  *)
(* until its entry is needed or the memory is given back to the system.     *)
(*                                                                         *)
(* The table is a list of disjoint areas of pages (vma_t), each with the    *)
(* registrations that cover it; the AVL tree only finds areas in it.  The   *)
(* hooks of the allocator put memory that is given back on an array, which  *)
(* the next call of the allocator works off.                                *)
(*                                                                         *)
(* Memory is counted in pages.  The thread that calls MPI is the one that   *)
(* calls the allocator, so each call is one step.                           *)
(***************************************************************************)
EXTENDS Integers, Sequences, FiniteSets, SequencesExt

CONSTANTS
    Pages,        \* bound: pages of the address space, 0 .. Pages - 1
    NdregEntries, \* viadev_ndreg_entries
    CacheLimit,   \* viadev_dreg_cache_limit in pages, 0 for none
    Word,         \* 2^64 in the code: pinned_pages_count wraps there
    Op,           \* bound: sends and receives in progress at one time
    MaxQueued     \* bound: regions on deregister_mr_array at one time

ASSUME CacheAssumption ==
    /\ Pages \in Nat \ {0} /\ NdregEntries \in Nat \ {0}
    /\ CacheLimit \in Nat /\ Word \in Nat /\ Word > CacheLimit + Pages
    /\ MaxQueued \in 1 .. NdregEntries /\ IsFiniteSet(Op)

VARIABLES
    dreg,     \* dreg_entry structures
    vmas,     \* vma_list in the order of the addresses
    free,     \* dreg_free_list, head first
    unused,   \* dreg_unused_list, head first
    pinned,   \* pinned_pages_count
    queued,   \* deregister_mr_array
    mapped,   \* the system: the pages that have memory behind them
    op,       \* MPI operations: the pages, the use and the entry of each
    spins     \* flush_dereg_mrs_external goes round without an end

tableVars == <<dreg, vmas, free, unused, pinned>>
vars == <<tableVars, queued, mapped, op, spins>>

Page == 0 .. Pages - 1
Entry == 1 .. NdregEntries
None == 0
Read == 1
Write == 0
Blank == [first |-> 0, last |-> 0, acl |-> Write, refcount |-> 0,
          is_valid |-> FALSE, mr |-> {}]
Idle == [first |-> 0, last |-> 0, acl |-> Write, entry |-> None]

Init ==
    /\ dreg = [e \in Entry |-> Blank] /\ vmas = << >>
    /\ free = [e \in Entry |-> e] /\ unused = << >> /\ pinned = 0
    /\ queued = << >> /\ mapped = Page
    /\ op = [o \in Op |-> Idle] /\ spins = FALSE

\* What the operations work on: the table as they find it and change it.
Table == [dreg |-> dreg, vmas |-> vmas, free |-> free, unused |-> unused,
          pinned |-> pinned]
SetTable(t) ==
    /\ dreg' = t.dreg /\ vmas' = t.vmas /\ free' = t.free
    /\ unused' = t.unused /\ pinned' = t.pinned

(* An area of the table, an entry, and the whole table. *)
Area == [start : Page, end : Page, list : Seq(Entry)]
Pinned == 0 .. Word - 1
Registration == [first : Page, last : Page, acl : {Read, Write}, refcount : Nat,
                 is_valid : BOOLEAN, mr : SUBSET Page]
Tables == [dreg : [Entry -> Registration], vmas : Seq(Area), free : Seq(Entry),
           unused : Seq(Entry), pinned : Pinned]

\* A loop of the code: n turns, of which those after the last do nothing.
Loop(Turn, x, n) ==
    LET after[i \in 0 .. n] == IF i = 0 THEN x ELSE Turn[after[i - 1]]
    IN  after[n]

\* A list without e, which is on it at most once.
Without(s, e) ==
    IF Contains(s, e) THEN RemoveAt(s, CHOOSE i \in 1 .. Len(s) : s[i] = e) ELSE s

-----------------------------------------------------------------------------
(* The table of areas.                                                      *)

\* vma_search: the area with page b, None when there is none
VmaAt(areas, b) ==
    LET at == {k \in 1 .. Len(areas) : areas[k].start <= b /\ b <= areas[k].end}
    IN  IF at = {} THEN None ELSE CHOOSE k \in at : TRUE

\* vma_compare_closest: the area with page b or the first one behind it
Closest(areas, b) ==
    CHOOSE k \in 1 .. Len(areas) + 1 :
        /\ \A i \in 1 .. k - 1 : areas[i].end < b
        /\ \A i \in k .. Len(areas) : areas[i].end >= b

\* dreg_lookup: the registration that reaches furthest, if far enough
Lookup(t, begin, end) ==
    LET k == VmaAt(t.vmas, begin)
    IN  IF k = None THEN None
        ELSE LET e == Head(t.vmas[k].list)
             IN  IF t.dreg[e].last >= end THEN e ELSE None

\* vma_new refuses, with the unsigned arithmetic of the counter
NoRoom(count, n) == CacheLimit # 0 /\ (count + n) % Word > CacheLimit

Counted(count, n) == (count + n) % Word
Size(v) == v.end - v.start + 1

\* Fault: new registrations are put behind those that reach as far.
AddEntry_Last(d, list, e) == Append(list, e)

\* add_entry: sorted by the last page, the furthest first
AddEntry(d, list, e) ==
    InsertAt(list, CHOOSE k \in 1 .. Len(list) + 1 :
                       /\ \A i \in 1 .. k - 1 : d[list[i]].last > d[e].last
                       /\ k <= Len(list) => d[list[k]].last <= d[e].last, e)

\* Area k is cut before page b; what is behind gets an area of its own.
Cut(areas, k, b) ==
    InsertAt([areas EXCEPT ![k].end = b - 1], k + 1, [areas[k] EXCEPT !.start = b])

Joins(areas, k) ==
    /\ k \in 1 .. Len(areas) - 1 /\ areas[k].end + 1 = areas[k + 1].start
    /\ areas[k].list = areas[k + 1].list

Listed(areas, k, list) == [areas EXCEPT ![k].list = list]

\* The areas k and k + 1 become one.
Join(areas, k) == RemoveAt([areas EXCEPT ![k].end = areas[k + 1].end], k + 1)

\* Where a removal is: the table and the area it comes to.
Removal == [vmas : Seq(Area), pinned : Pinned, k : Nat]

Joined(w, k) == [vmas |-> Join(w.vmas, k), k |-> k,
                 pinned |-> Counted(w.pinned, -Size(w.vmas[k + 1]))]

\* The loop of merges around an area
Merge ==
    [w \in Removal |-> IF Joins(w.vmas, w.k - 1) THEN Joined(w, w.k - 1)
                       ELSE IF Joins(w.vmas, w.k) THEN Joined(w, w.k)
                       ELSE w]

\* The loop of dreg_remove; d has the entries.
Remover(d, e) ==
    [w \in Removal |->
        LET v    == w.vmas[w.k]
            list == Without(v.list, e)
            kept == Loop(Merge, [w EXCEPT !.vmas = Listed(@, w.k, list)], Pages)
        IN  IF w.k > Len(w.vmas) \/ v.start > d[e].last THEN w
            ELSE IF list = << >>
            THEN [vmas |-> RemoveAt(w.vmas, w.k), pinned |-> Counted(w.pinned, -Size(v)), k |-> w.k]
            ELSE [kept EXCEPT !.k = @ + 1]]

\* dreg_remove
DregRemove(t, e) ==
    LET k == VmaAt(t.vmas, t.dreg[e].first)
        w == Loop(Remover(t.dreg, e), [vmas |-> t.vmas, pinned |-> t.pinned, k |-> k], Pages)
    IN  IF k = None THEN t ELSE [t EXCEPT !.vmas = w.vmas, !.pinned = w.pinned]

\* Where an insertion is: the area it comes to, the page it goes on from, and
\* whether every area was obtained so far.
Insertion == [vmas : Seq(Area), pinned : Pinned, k : Nat, begin : Nat, ok : BOOLEAN]

\* On to the area behind, with the areas as they are now and n pages counted
Moved(w, areas, n, begin) ==
    [vmas |-> areas, pinned |-> Counted(w.pinned, n), k |-> w.k + 1, begin |-> begin, ok |-> TRUE]

\* The loop of dreg_insert
Inserter(d, e) ==
    [w \in Insertion |->
        LET v    == w.vmas[w.k]
            end  == d[e].last
            gap  == w.k > Len(w.vmas) \/ v.start > w.begin
            last == IF w.k > Len(w.vmas) \/ v.start > end THEN end ELSE v.start - 1
            new  == IF gap THEN last - w.begin + 1
                    ELSE IF v.start < w.begin THEN v.end - w.begin + 1
                    ELSE IF v.end > end THEN v.end - end
                    ELSE 0
            cut  == IF v.end > end THEN Cut(w.vmas, w.k, end + 1) ELSE w.vmas
        IN  IF ~w.ok \/ w.begin > end THEN w
            ELSE IF new # 0 /\ NoRoom(w.pinned, new) THEN [w EXCEPT !.ok = FALSE]
            ELSE IF gap
            THEN Moved(w, InsertAt(w.vmas, w.k, [start |-> w.begin, end |-> last, list |-> <<e>>]),
                       new, last + 1)
            ELSE IF v.start < w.begin
            THEN Moved(w, Cut(w.vmas, w.k, w.begin), new, w.begin)
            ELSE Moved(w, Listed(cut, w.k, AddEntry(d, v.list, e)), new, cut[w.k].end + 1)]

\* dreg_insert, which takes a part back when the rest does not fit
Insert(t, e) ==
    LET first == t.dreg[e].first
        w == Loop(Inserter(t.dreg, e),
                  [vmas |-> t.vmas, pinned |-> t.pinned, k |-> Closest(t.vmas, first),
                   begin |-> first, ok |-> TRUE], Pages + 1)
        u == [t EXCEPT !.vmas = w.vmas, !.pinned = w.pinned]
    IN  [ok |-> w.ok, t |-> IF w.ok THEN u ELSE DregRemove(u, e)]

-----------------------------------------------------------------------------
(* Entries.                                                                 *)

\* DREG_ADD_TO_FREE_LIST, dreg_release; what the entry said is of no use.
Release(t, e) == [t EXCEPT !.free = <<e>> \o @, !.dreg[e] = Blank]

\* An entry that is not in use is given up.
Drop(t, e) == Release(DregRemove([t EXCEPT !.unused = Without(@, e)], e), e)

\* Fault: an entry that is found again stays with those not in use.
IncrRefcount_Kept(t, e) == [t EXCEPT !.dreg[e].refcount = @ + 1]

\* dreg_incr_refcount, dreg_decr_refcount
IncrRefcount(t, e) ==
    [t EXCEPT !.dreg[e].refcount = @ + 1,
              !.unused = IF t.dreg[e].refcount = 0 THEN Without(@, e) ELSE @]
DecrRefcount(t, e) ==
    [t EXCEPT !.dreg[e].refcount = @ - 1,
              !.unused = IF t.dreg[e].refcount = 1 THEN <<e>> \o @ ELSE @]

\* dreg_evict: the registration that was not in use for longest
Evict(t) == Drop(t, Last(t.unused))

\* dreg_find
Find(t, begin, end, acl) ==
    LET e == Lookup(t, begin, end)
    IN  IF e # None /\ t.dreg[e].acl <= acl THEN e ELSE None

\* dreg_new_entry: the entry and the table, None when anything is short.
\* A request of the size of the limit loses the entry it took.
NewEntry(t, begin, end, acl, registers) ==
    LET e == Head(t.free)
        u == [t EXCEPT !.free = Tail(@),
                       !.dreg[e] = [first |-> begin, last |-> end, acl |-> acl,
                                    refcount |-> 0, is_valid |-> FALSE, mr |-> {}]]
        r == Insert(u, e)
    IN  IF t.free = << >> THEN [e |-> None, t |-> t]
        ELSE IF CacheLimit # 0 /\ end - begin + 1 >= CacheLimit
        THEN [e |-> None, t |-> [t EXCEPT !.free = Tail(@)]]
        ELSE IF ~r.ok THEN [e |-> None, t |-> Release(r.t, e)]
        ELSE IF ~registers THEN [e |-> None, t |-> Release(DregRemove(r.t, e), e)]
        ELSE [e |-> e,
              t |-> [r.t EXCEPT !.dreg[e].is_valid = TRUE, !.dreg[e].mr = begin .. end]]

\* Where dreg_register is: ibv_reg_mr refuses so many attempts more.
Attempt == [e : Entry \cup {None}, t : Tables, refusals : 0 .. 1, again : BOOLEAN]

\* The loop of dreg_register: an entry is evicted after every attempt that
\* came to nothing, until there is none.
Attempts(begin, end, acl) ==
    [a \in Attempt |->
        LET n == NewEntry(a.t, begin, end, acl, a.refusals = 0)
        IN  IF ~a.again THEN a
            ELSE IF n.e # None
            THEN [a EXCEPT !.e = n.e, !.t = IncrRefcount(n.t, n.e), !.again = FALSE]
            ELSE IF n.t.unused = << >> THEN [a EXCEPT !.t = n.t, !.again = FALSE]
            ELSE [a EXCEPT !.t = Evict(n.t), !.refusals = 0]]

\* dreg_register
Registered(t, begin, end, acl, refusals) ==
    LET e == Find(t, begin, end, acl)
        found == [e |-> e, t |-> IncrRefcount(t, e)]
    IN  IF e # None THEN found
        ELSE Loop(Attempts(begin, end, acl),
                  [e |-> None, t |-> t, refusals |-> refusals, again |-> TRUE],
                  NdregEntries + 1)

\* Fault: registrations in use are given up as well.
InUse_Never(t, e) == FALSE
InUse(t, e) == t.dreg[e].refcount # 0

\* Where the flush is: the region and the page, and whether it got stuck.
Flush == [t : Tables, region : Nat, page : Nat, spins : BOOLEAN]

\* The loops of flush_dereg_mrs_external over the regions queued, their pages
\* and the registrations of a page.  It comes back to a registration in use
\* again and again, for nothing it does changes that.
Flusher ==
    [f \in Flush |->
        LET e == Lookup(f.t, f.page, f.page)
        IN  IF f.spins \/ f.region > Len(queued) THEN f
            ELSE IF f.page > queued[f.region][2]
            THEN [f EXCEPT !.region = @ + 1,
                           !.page = IF f.region = Len(queued) THEN 0 ELSE queued[f.region + 1][1]]
            ELSE IF e = None THEN [f EXCEPT !.page = @ + 1]
            ELSE IF InUse(f.t, e) THEN [f EXCEPT !.spins = TRUE]
            ELSE [f EXCEPT !.t = Drop(@, e)]]

Flushed(t) ==
    Loop(Flusher, [t |-> t, region |-> 1, page |-> queued[1][1], spins |-> FALSE],
         NdregEntries + MaxQueued * (Pages + 1))

-----------------------------------------------------------------------------
(* What the process does.                                                   *)

\* A rendezvous pins its buffer: to be read at the sender, to be written at
\* the receiver.  Without an entry the transfer goes another way.
Register(o) ==
    /\ ~spins /\ op[o] = Idle
    /\ \E begin \in Page, acl \in {Read, Write}, refusals \in 0 .. 1 :
       \E end \in begin .. Pages - 1 :
          LET r == Registered(Table, begin, end, acl, refusals)
          IN  /\ begin .. end \subseteq mapped /\ SetTable(r.t)
              /\ op' = IF r.e = None THEN op
                       ELSE [op EXCEPT ![o] = [first |-> begin, last |-> end,
                                               acl |-> acl, entry |-> r.e]]
    /\ UNCHANGED <<queued, mapped, spins>>

\* SEND_COMPLETE, RECV_COMPLETE, dreg_unregister
Complete(o) ==
    /\ ~spins /\ op[o] # Idle
    /\ SetTable(DecrRefcount(Table, op[o].entry))
    /\ op' = [op EXCEPT ![o] = Idle]
    /\ UNCHANGED <<queued, mapped, spins>>

Buffers == UNION {op[o].first .. op[o].last : o \in {o \in Op : op[o] # Idle}}

\* find_and_free_dregs_inside, from the hook of munmap, and the call proper,
\* after which no registration holds the memory that the pages will have next.
\* The program keeps its hands off buffers of operations in progress.
Munmap ==
    /\ ~spins /\ Len(queued) < MaxQueued
    /\ \E begin \in Page : \E end \in begin .. Pages - 1 :
          /\ begin .. end \subseteq mapped \ Buffers
          /\ queued' = Append(queued, <<begin, end>>)
          /\ mapped' = mapped \ (begin .. end)
          /\ dreg' = [e \in Entry |-> [dreg[e] EXCEPT !.mr = @ \ (begin .. end)]]
    /\ UNCHANGED <<vmas, free, unused, pinned, op, spins>>

\* The system gives the addresses out again, with other memory behind them.
Mmap ==
    /\ ~spins
    /\ \E begin \in Page : \E end \in begin .. Pages - 1 :
          /\ (begin .. end) \cap mapped = {}
          /\ mapped' = mapped \cup (begin .. end)
    /\ UNCHANGED <<tableVars, queued, op, spins>>

\* malloc, free and realloc end with flush_dereg_mrs_external.
Malloc ==
    /\ ~spins /\ queued # << >>
    /\ LET f == Flushed(Table)
       IN  /\ SetTable(f.t) /\ spins' = f.spins
           /\ queued' = IF f.spins THEN queued ELSE << >>
    /\ UNCHANGED <<mapped, op>>

Next ==
    \/ \E o \in Op : Register(o) \/ Complete(o)
    \/ Munmap \/ Mmap \/ Malloc

Spec == Init /\ [][Next]_vars
-----------------------------------------------------------------------------
(* Properties.                                                              *)

Covers(e, begin, end) == dreg[e].first <= begin /\ end <= dreg[e].last

\* The areas of dreg.c, however they were cut and joined, find a registration
\* exactly when there is one: for every range of pages, dreg_lookup returns a
\* registration that covers it, and returns none only when none does.
LookupExact ==
    \A begin \in Page : \A end \in begin .. Pages - 1 :
        LET e == Lookup(Table, begin, end)
        IN  IF e = None THEN \A d \in Entry : dreg[d].is_valid => ~Covers(d, begin, end)
            ELSE dreg[e].is_valid /\ Covers(e, begin, end)

Users(e) == {o \in Op : op[o].entry = e}

\* Every entry is on the free list, or registered and on the list of those not
\* in use, or registered and counted for each operation that uses it; and on
\* one list once, whatever was evicted, refused or taken back in between.
EntriesAccounted ==
    /\ \A e \in Entry :
        /\ dreg[e].refcount = Cardinality(Users(e))
        /\ dreg[e].is_valid <=> ~Contains(free, e)
        /\ Contains(unused, e) <=> dreg[e].is_valid /\ Users(e) = {}
    /\ IsInjective(free) /\ IsInjective(unused)

\* While an operation is in progress its entry is a registration that covers
\* the whole buffer and allows what the operation does with it, whatever was
\* evicted, flushed or found for others in the meantime.
OperationsArePinned ==
    \A o \in Op :
        op[o] # Idle =>
            LET e == op[o].entry
            IN  dreg[e].is_valid /\ Covers(e, op[o].first, op[o].last) /\ dreg[e].acl <= op[o].acl

\* dreg.c:136 says that the free hook takes registrations of memory that is
\* given back out of the cache: what an operation is given is the memory that
\* its buffer has, never what was at these addresses before.
NoStaleHit ==
    \A o \in Op :
        op[o] # Idle => op[o].first .. op[o].last \subseteq dreg[op[o].entry].mr
=============================================================================
