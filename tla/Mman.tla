-------------------------------- MODULE Mman --------------------------------
(***************************************************************************)
(* mmap, munmap and msync over linear memory: the table of regions, the    *)
(* reuse of freed pages, the counted descriptors of shared file mappings,  *)
(* and what is written back to the file.  Every call runs under mman_lock  *)
(* and is one step; the application writes to mapped memory in between,    *)
(* and malloc grows the memory too.                                        *)
(*                                                                         *)
(* Addresses, lengths and file offsets count the smallest unit the model   *)
(* tells apart, and a page has PAGE of them.  There is one file.  A flag   *)
(* shared stands for MAP_SHARED with PROT_WRITE.                           *)
(***************************************************************************)
EXTENDS Integers, SequencesExt

CONSTANTS
  PAGE,          \* units of a page
  Pages,         \* bound: pages of linear memory
  FileLen,       \* units of the file
  MapLens,       \* the lengths mmap is called with, in pages
  FirstCap,      \* the capacity of the first table (16 in the code)
  MaxMmanCalls,  \* bound: calls of mmap, munmap and msync
  MaxWrites      \* bound: writes of the application

ASSUME MmanAssumption ==
  /\ PAGE \in Nat \ {0} /\ Pages \in Nat /\ FileLen \in Nat
  /\ MapLens \subseteq Nat \ {0} /\ FirstCap \in Nat \ {0}
  /\ MaxMmanCalls \in Nat /\ MaxWrites \in Nat

VARIABLES
  regs, capregs,   \* the table and its capacity
  brk,             \* the size of linear memory
  mem,             \* its contents
  refs,            \* the counts of the file_refs; 0: freed
  file,            \* the contents of the file
  owner,           \* what the application knows of each address (history)
  peak,            \* the longest the table was in the last call (history)
  mmlast,          \* the range of the last munmap or msync (history)
  mmcalls, writes  \* counters for the bounds

mmanVars == <<regs, capregs, brk, mem, refs, file, owner, peak, mmlast, mmcalls, writes>>

Addrs == 0 .. (Pages * PAGE - 1)
Offsets == 0 .. (FileLen - 1)
FileRefs == 1 .. Pages
NULL == 0

\* The address is not mapped, is anonymous, or is the file's offset off.
Unmapped == [kind |-> "none", shared |-> FALSE, off |-> 0]
Anonymous == [kind |-> "anon", shared |-> FALSE, off |-> 0]

\* The contents of the file are told apart by their offset; 0 is a zero byte
\* and -1 what the application writes.
MmanInit ==
  /\ regs = <<>> /\ capregs = 0 /\ brk = 0
  /\ mem = [a \in Addrs |-> 0]
  /\ refs = [f \in FileRefs |-> 0]
  /\ file = [o \in Offsets |-> o + 1]
  /\ owner = [a \in Addrs |-> Unmapped]
  /\ peak = 0 /\ mmlast = [start |-> 0, len |-> 0, saved |-> TRUE]
  /\ mmcalls = 0 /\ writes = 0

-----------------------------------------------------------------------------
(* The table *)

End(r) == r.base + r.len

\* first_overlap: a binary search, sound if the table is sorted
FirstOverlap(R, addr) ==
  LET search[w \in [lo : 1 .. Len(R) + 1, hi : 1 .. Len(R) + 1]] ==
        LET mid == w.lo + (w.hi - w.lo) \div 2 IN
        IF w.lo >= w.hi THEN w.lo
        ELSE search[IF End(R[mid]) <= addr THEN [w EXCEPT !.lo = mid + 1] ELSE [w EXCEPT !.hi = mid]]
  IN search[[lo |-> 1, hi |-> Len(R) + 1]]

\* reserve: the capacity doubles until extra more regions fit
Reserved(extra) ==
  LET grown[c \in Nat \ {0}] == IF c >= Len(regs) + extra THEN c ELSE grown[2 * c]
  IN IF Len(regs) + extra <= capregs THEN capregs
     ELSE grown[IF capregs = 0 THEN FirstCap ELSE capregs * 2]

Free(base, len) ==
  [base |-> base, len |-> len, kind |-> "free", dirty |-> TRUE, fref |-> NULL, off |-> 0, dlen |-> 0]

\* Two free neighbours without a gap
Mergeable(r, s) == r.kind = "free" /\ s.kind = "free" /\ End(r) = s.base

Merged(r, s) == [r EXCEPT !.len = @ + s.len, !.dirty = @ \/ s.dirty]

\* coalesce_around: from the region before the range on, a region that can be
\* is joined to the one before it.
Coalesce(R, start, end) ==
  LET f == FirstOverlap(R, start)
      joined[k \in 0 .. Len(R)] ==
        IF k = 0 THEN <<>>
        ELSE LET S == joined[k - 1] IN
             IF k >= f /\ S # <<>> /\ Mergeable(Last(S), R[k]) /\ Last(S).base <= end
             THEN Append(Front(S), Merged(Last(S), R[k]))
             ELSE Append(S, R[k])
  IN joined[Len(R)]

\* acquire_pages, first part: the first free region that is long enough
Fits(len) == {i \in DOMAIN regs : regs[i].kind = "free" /\ regs[i].len >= len}

\* The addresses that are zeroed when the front of a free region is taken
Zeroed(r, len) == IF r.dirty THEN r.base .. r.base + len - 1 ELSE {}

\* The table with a region for len units of kind, and its place; memory grows
\* when no free region fits.
Acquired(len, kind) ==
  LET new(base) == [base |-> base, len |-> len, kind |-> kind, dirty |-> FALSE,
                    fref |-> NULL, off |-> 0, dlen |-> 0]
      i == Min(Fits(len))
      j == FirstOverlap(regs, brk)
  IN IF Fits(len) = {}
     THEN [idx |-> j, regs |-> InsertAt(regs, j, new(brk)), zero |-> {}, brk |-> brk + len]
     ELSE [idx |-> i,
           regs |-> IF regs[i].len = len THEN [regs EXCEPT ![i] = new(@.base)]
                    ELSE InsertAt([regs EXCEPT ![i].base = @ + len, ![i].len = @ - len],
                                  i, new(regs[i].base)),
           zero |-> Zeroed(regs[i], len),
           brk |-> brk]

-----------------------------------------------------------------------------
(* unmap_range, for the range from start to end *)

From(r, start) == IF r.base > start THEN r.base ELSE start
To(r, end) == IF End(r) < end THEN End(r) ELSE end
Overlaps(r, start, end) == End(r) > start /\ r.base < end

\* What survives before the range, and after it
HeadPart(r, start) ==
  LET len == start - r.base IN
  [r EXCEPT !.len = len, !.dlen = IF r.kind = "file" /\ @ > len THEN len ELSE @]

TailPart(r, end) ==
  LET cut == end - r.base IN
  [r EXCEPT !.base = end, !.len = @ - cut,
            !.off = IF r.kind = "file" THEN @ + cut ELSE @,
            !.dlen = IF r.kind # "file" THEN @ ELSE IF @ > cut THEN @ - cut ELSE 0]

\* What a live region becomes
Cut(r, start, end) ==
  LET s == From(r, start)  e == To(r, end) IN
  IF r.kind = "free" \/ ~Overlaps(r, start, end) THEN <<r>>
  ELSE (IF s > r.base THEN <<HeadPart(r, s)>> ELSE <<>>)
       \o <<Free(s, e - s)>>
       \o (IF e < End(r) THEN <<TailPart(r, e)>> ELSE <<>>)

\* The loop from the first region that can overlap
CutAll(R, start, end) ==
  LET f == FirstOverlap(R, start)
      cut[k \in 0 .. Len(R)] ==
        IF k = 0 THEN <<>> ELSE cut[k - 1] \o (IF k < f THEN <<R[k]>> ELSE Cut(R[k], start, end))
  IN cut[Len(R)]

UnmapRange(R, start, end) == Coalesce(CutAll(R, start, end), start, end)

\* Mutant: the descriptor is not counted again when a region is cut in two.
SplitsUncounted(r, start, end) == FALSE

\* A live region that is gone, and one that became two
Gone(r, start, end) == Overlaps(r, start, end) /\ r.base >= start /\ End(r) <= end
Splits(r, start, end) == r.base < start /\ End(r) > end

\* fref_release for the first, refs++ for the second
RefsAfter(R, start, end) ==
  [f \in FileRefs |-> refs[f]
     + Cardinality({i \in DOMAIN R : R[i].fref = f /\ Splits(R[i], start, end)})
     - Cardinality({i \in DOMAIN R : R[i].fref = f /\ Gone(R[i], start, end)})]

\* Mutant: the file offset of the region is used for the start of the range.
WritebackFromStart(r, start, end, F) ==
  [o \in Offsets |->
     LET a == From(r, start) + (o - r.off)
     IN IF a >= From(r, start) /\ a < To(r, end) /\ a < r.base + r.dlen THEN mem[a] ELSE F[o]]

\* writeback of a region, clipped to what the file backs, into the contents F
Writeback(r, start, end, F) ==
  [o \in Offsets |->
     LET a == r.base + (o - r.off)
     IN IF a >= From(r, start) /\ a < To(r, end) /\ a < r.base + r.dlen THEN mem[a] ELSE F[o]]

\* The file when the regions of R with an index in W are written back
WritebackAll(R, W, start, end) ==
  LET written[k \in 0 .. Len(R)] ==
        IF k = 0 THEN file
        ELSE IF k \in W THEN Writeback(R[k], start, end, written[k - 1]) ELSE written[k - 1]
  IN written[Len(R)]

\* The regions munmap and msync write back
ToWrite(R, start, end) == {i \in DOMAIN R : R[i].fref # NULL /\ Overlaps(R[i], start, end)}

-----------------------------------------------------------------------------
\* A call for the range from start; saved: its writes to the file succeed.
Called(start, len, saved) ==
  /\ mmcalls < MaxMmanCalls
  /\ mmcalls' = mmcalls + 1
  /\ mmlast' = [start |-> start, len |-> len, saved |-> saved]

Span(start, len) == start .. start + len - 1

\* reserve fails, or sbrk does: nothing has changed but the capacity.
MmapNoMemory(len) ==
  /\ Called(0, 0, TRUE)
  /\ \/ Reserved(2) # capregs /\ UNCHANGED capregs
     \/ Fits(len) = {} /\ capregs' = Reserved(2)
  /\ UNCHANGED <<regs, peak, brk, mem, refs, file, owner, writes>>

MmapAnon(len) ==
  LET q == Acquired(len, "anon")  new == Span(q.regs[q.idx].base, len) IN
  /\ Called(0, 0, TRUE)
  /\ q.brk <= Pages * PAGE
  /\ capregs' = Reserved(2)
  /\ regs' = q.regs /\ brk' = q.brk /\ peak' = Len(q.regs)
  /\ mem' = [a \in Addrs |-> IF a \in q.zero THEN 0 ELSE mem[a]]
  /\ owner' = [a \in Addrs |-> IF a \in new THEN Anonymous ELSE owner[a]]
  /\ UNCHANGED <<refs, file, writes>>

\* The bytes pread finds at off for a mapping of len
Backed(off, len) == IF off >= FileLen THEN 0 ELSE IF FileLen - off < len THEN FileLen - off ELSE len

\* Memory after n bytes from off were read to base, in pages that were zeroed
Populated(q, base, off, n) ==
  [a \in Addrs |-> IF a \in Span(base, n) THEN file[off + (a - base)]
                   ELSE IF a \in q.zero THEN 0 ELSE mem[a]]

MmapFile(len, off, shared) ==
  LET q == Acquired(len, "file")
      base == q.regs[q.idx].base
      n == Backed(off, len)
  IN /\ Called(0, 0, TRUE)
     /\ q.brk <= Pages * PAGE
     /\ capregs' = Reserved(2)
     /\ brk' = q.brk /\ peak' = Len(q.regs)
     /\ mem' = Populated(q, base, off, n)
     /\ \E f \in FileRefs :
          /\ refs[f] = 0 /\ \A g \in FileRefs : refs[g] = 0 => f <= g
          /\ regs' = [q.regs EXCEPT ![q.idx].off = off, ![q.idx].dlen = n,
                                    ![q.idx].fref = IF shared THEN f ELSE NULL]
          /\ refs' = IF shared THEN [refs EXCEPT ![f] = 1] ELSE refs
     /\ owner' = [a \in Addrs |->
                    IF a \notin Span(base, len) THEN owner[a]
                    ELSE [kind |-> "file", shared |-> shared,
                          off |-> IF a - base < n THEN off + (a - base) ELSE -1]]
     /\ UNCHANGED <<file, writes>>

\* pread fails after some bytes, or the descriptor cannot be duplicated: the
\* pages go back to the pool.
MmapFileFails(len, off) ==
  LET q == Acquired(len, "file")
      base == q.regs[q.idx].base
  IN /\ Called(0, 0, TRUE)
     /\ q.brk <= Pages * PAGE
     /\ capregs' = Reserved(2)
     /\ brk' = q.brk /\ peak' = Len(q.regs)
     /\ \E n \in 0 .. Backed(off, len) : mem' = Populated(q, base, off, n)
     /\ regs' = UnmapRange(q.regs, base, base + len)
     /\ UNCHANGED <<refs, file, owner, writes>>

MunmapNoMemory ==
  /\ Called(0, 0, TRUE)
  /\ Reserved(2) # capregs
  /\ UNCHANGED <<regs, peak, capregs, brk, mem, refs, file, owner, writes>>

\* Writing back is best-effort: W are the regions for which pwrite succeeds.
Munmap(start, len) ==
  LET end == start + len IN
  /\ \E W \in SUBSET ToWrite(regs, start, end) :
       /\ Called(start, len, W = ToWrite(regs, start, end))
       /\ file' = WritebackAll(regs, W, start, end)
  /\ capregs' = Reserved(2)
  /\ peak' = Len(CutAll(regs, start, end))
  /\ regs' = UnmapRange(regs, start, end)
  /\ refs' = RefsAfter(regs, start, end)
  /\ owner' = [a \in Addrs |-> IF a \in Span(start, len) THEN Unmapped ELSE owner[a]]
  /\ UNCHANGED <<brk, mem, writes>>

\* The cursor of msync passes the whole range over live regions.
Covered(start, end) ==
  \A a \in Span(start, end - start) :
    \E i \in DOMAIN regs : regs[i].kind # "free" /\ a >= regs[i].base /\ a < End(regs[i])

Msync(start, len) ==
  LET end == start + len IN
  /\ IF ~Covered(start, end) THEN Called(0, 0, TRUE) /\ UNCHANGED file
     ELSE \E W \in SUBSET ToWrite(regs, start, end) :
            /\ Called(start, len, W = ToWrite(regs, start, end))
            /\ file' = WritebackAll(regs, W, start, end)
  /\ UNCHANGED <<regs, peak, capregs, brk, mem, refs, owner, writes>>

\* malloc takes a page from sbrk.
HeapGrow ==
  /\ mmcalls < MaxMmanCalls /\ brk + PAGE <= Pages * PAGE
  /\ brk' = brk + PAGE
  /\ UNCHANGED <<regs, peak, capregs, mem, refs, file, owner, mmcalls, mmlast, writes>>

\* The application writes to memory it has mapped.
AppWrite(a) ==
  /\ owner[a] # Unmapped /\ writes < MaxWrites /\ mmcalls < MaxMmanCalls
  /\ mem' = [mem EXCEPT ![a] = -1]
  /\ writes' = writes + 1
  /\ UNCHANGED <<regs, peak, capregs, brk, refs, file, owner, mmcalls, mmlast>>

PageStarts == {p * PAGE : p \in 0 .. Pages - 1}
PageLens == {p * PAGE : p \in 1 .. Pages}

MmanNext ==
  \/ \E n \in MapLens : MmapNoMemory(n * PAGE) \/ MmapAnon(n * PAGE)
  \/ \E n \in MapLens, off \in PageStarts, shared \in BOOLEAN :
       off <= FileLen /\ (MmapFile(n * PAGE, off, shared) \/ MmapFileFails(n * PAGE, off))
  \/ \E start \in PageStarts, len \in PageLens :
       start + len <= Pages * PAGE /\ (Munmap(start, len) \/ Msync(start, len))
  \/ MunmapNoMemory \/ HeapGrow
  \/ \E a \in Addrs : AppWrite(a)

MmanSpec == MmanInit /\ [][MmanNext]_mmanVars

-----------------------------------------------------------------------------
\* What the table says of an address
View(a) ==
  LET in == {i \in DOMAIN regs : a >= regs[i].base /\ a < End(regs[i]) /\ regs[i].kind # "free"}
      r == regs[CHOOSE i \in in : TRUE]
  IN IF in = {} THEN Unmapped
     ELSE IF r.kind = "anon" THEN Anonymous
     ELSE [kind |-> "file", shared |-> r.fref # NULL,
           off |-> IF a - r.base < r.dlen THEN r.off + (a - r.base) ELSE -1]

\* The table and the application agree on every address: what it mapped and
\* has not unmapped is live, at the file offset it asked for, whatever was cut,
\* failed or reused before.  The table stays what the binary search, the pool
\* and the descriptors need: sorted and disjoint regions, free ones merged,
\* never more of them than reserve made room for, not even in the middle of a
\* call, and a descriptor counted once for each region that uses it.
MmanTable ==
  /\ \A a \in Addrs : View(a) = owner[a]
  /\ \A i \in 1 .. Len(regs) - 1 :
       End(regs[i]) <= regs[i + 1].base /\ ~Mergeable(regs[i], regs[i + 1])
  /\ peak <= capregs /\ Len(regs) <= capregs
  /\ \A f \in FileRefs :
       refs[f] = Cardinality({i \in DOMAIN regs : regs[i].kind = "file" /\ regs[i].fref = f})

\* What a new mapping holds at address a
FirstContents(a) ==
  IF owner'[a].kind = "file" /\ owner'[a].off # -1 THEN file[owner'[a].off] ELSE 0

\* The addresses of the last call's range that are the file's offset o
Sources(o) == {a \in Span(mmlast'.start, mmlast'.len) : owner[a].shared /\ owner[a].off = o}

\* Reused pages show nothing of their former use: a new mapping holds the file,
\* or zeros, and no call changes the memory of another mapping.
MappingsKept ==
  \A a \in Addrs :
    owner'[a] # Unmapped /\ writes' = writes
      => mem'[a] = IF owner[a] = Unmapped THEN FirstContents(a) ELSE mem[a]

\* What the application wrote reaches the file: after a munmap or msync whose
\* writes succeed, a file offset has the contents of an address in the range
\* that was mapped to it, and every other offset is as before.
WritesReachFile ==
  mmcalls' # mmcalls /\ mmlast'.saved
    => \A o \in Offsets :
         IF Sources(o) = {} THEN file'[o] = file[o]
         ELSE file'[o] \in {mem[a] : a \in Sources(o)}

\* No step shows former contents, changes another mapping or loses what was
\* written to a shared one.
MmanContents == [][MappingsKept /\ WritesReachFile]_mmanVars
=============================================================================
