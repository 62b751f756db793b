----------------------------- MODULE StdioStream -----------------------------
(***************************************************************************)
(* A stdio stream over a file: one buffer that is used for reading, for    *)
(* pushing back and for writing in turn, and the host's descriptor.  A     *)
(* call holds the stream's lock and is one step.                           *)
(*                                                                         *)
(* The host may read less than asked for, and may fail at any byte it      *)
(* reads or writes; a short write is repeated.  The program follows the    *)
(* rule of ISO C that writing does not follow reading directly.            *)
(***************************************************************************)
EXTENDS Integers, Sequences, FiniteSetsExt

CONSTANTS
  BUFSIZ,         \* bytes of the buffer fdopen allocates
  UNGET,          \* bytes before it that are kept for ungetc (8 in the code)
  VbufSizes,      \* sizes of the buffers setvbuf is given
  StreamModes,    \* the modes the file is opened with
  FileContents,   \* what is in the file at first
  StreamWrites,   \* what fwrite is called with
  ReadLens,       \* lengths of fread
  SeekOffsets,    \* offsets of fseek
  MaxStreamCalls  \* bound: calls

ASSUME StreamAssumption ==
  /\ BUFSIZ \in Nat /\ UNGET \in Nat /\ VbufSizes \subseteq Nat /\ IsFiniteSet(VbufSizes)
  /\ StreamModes \subseteq {"r", "w", "a", "r+", "w+", "a+"}
  /\ FileContents \subseteq Seq(Nat) /\ StreamWrites \subseteq Seq(Nat) \ {<<>>}
  /\ ReadLens \subseteq Nat \ {0} /\ SeekOffsets \subseteq Int
  /\ MaxStreamCalls \in Nat

VARIABLES
  fp,            \* the FILE with its buffer, and the file: data and off are the host's
  fcall,         \* the last call, its arguments and its result
  dir,           \* "in" if writing is not allowed now (the program's rule)
  streamcalls    \* counter for the bound

stdioVars == <<fp, fcall, dir, streamcalls>>

\* Addresses of the buffer; wpos and the others are 0 when they are NULL.
NIL == 0
Buf == UNGET + 1
NL == 1

CanRead(mode) == mode \notin {"w", "a"}
CanWrite(mode) == mode # "r"

NoStreamCall == [op |-> "none", bytes |-> <<>>, whence |-> "", n |-> 0, got |-> <<>>,
           failed |-> FALSE, lost |-> FALSE]

\* fopen and fdopen; a terminal is line buffered.
StdioInit ==
  /\ \E mode \in StreamModes, data \in FileContents, tty \in BOOLEAN :
       /\ mode \in {"w", "w+"} => data = <<>>
       /\ tty => CanWrite(mode)
       /\ fp = [rpos |-> NIL, rend |-> NIL, wbase |-> NIL, wpos |-> NIL, wend |-> NIL,
                mem |-> [a \in 1 .. UNGET + Max({BUFSIZ} \cup VbufSizes) |-> 0],
                size |-> BUFSIZ, line |-> tty, eof |-> FALSE, err |-> FALSE,
                nord |-> ~CanRead(mode), nowr |-> ~CanWrite(mode),
                app |-> mode \in {"a", "a+"}, data |-> data, off |-> 0]
  /\ fcall = NoStreamCall
  /\ dir = "any" /\ streamcalls = 0

-----------------------------------------------------------------------------
Prefix(s, n) == SubSeq(s, 1, n)
Beyond(s, n) == SubSeq(s, n + 1, Len(s))

\* The host writes b at its offset, or at the end of a file opened for append;
\* the gap behind the end of a file is read as zeros.
HostWrite(f, b) ==
  LET at == IF f.app THEN Len(f.data) ELSE f.off
      end == IF at + Len(b) > Len(f.data) THEN at + Len(b) ELSE Len(f.data)
  IN IF b = <<>> THEN f
     ELSE [f EXCEPT !.off = at + Len(b),
                    !.data = [i \in 1 .. end |-> IF i > at /\ i <= at + Len(b) THEN b[i - at]
                                                 ELSE IF i <= Len(f.data) THEN f.data[i] ELSE 0]]

Ahead(f) == IF f.off > Len(f.data) THEN 0 ELSE Len(f.data) - f.off
Stored(f, at, b) ==
  [f EXCEPT !.mem = [a \in DOMAIN f.mem |-> IF a >= at /\ a < at + Len(b) THEN b[a - at + 1] ELSE @[a]]]
Held(f) == [i \in 1 .. f.wpos - f.wbase |-> f.mem[f.wbase + i - 1]]
Unread(f) == [i \in 1 .. f.rend - f.rpos |-> f.mem[f.rpos + i - 1]]

NotWriting(f) == [f EXCEPT !.wpos = NIL, !.wbase = NIL, !.wend = NIL]
NotReading(f) == [f EXCEPT !.rpos = NIL, !.rend = NIL]
Writing(f) == [f EXCEPT !.wpos = Buf, !.wbase = Buf, !.wend = Buf + f.size]

\* __stdio_write: the buffer and b after it.  It ends when all of it is written,
\* or with an error after k bytes; n counts the bytes of b.
StdioWrite(f, b) ==
  LET all == Held(f) \o b
      k0 == Len(Held(f))
  IN {[f |-> Writing(HostWrite(f, all)), n |-> Len(b), lost |-> FALSE]}
     \cup {[f |-> [NotWriting(HostWrite(f, Prefix(all, k))) EXCEPT !.err = TRUE],
            n |-> IF k > k0 THEN k - k0 ELSE 0, lost |-> TRUE] : k \in 0 .. Len(all) - 1}

\* What is buffered for writing is written, if there is any.
Flushed(f) == IF f.wpos = f.wbase THEN {[f |-> f, n |-> 0, lost |-> FALSE]} ELSE StdioWrite(f, <<>>)

\* __toread
Toread(f) ==
  {LET g == NotWriting(o.f) IN
   [f |-> IF f.nord THEN [g EXCEPT !.err = TRUE]
          ELSE [g EXCEPT !.rpos = Buf + g.size, !.rend = Buf + g.size],
    ok |-> ~f.nord /\ ~f.eof, lost |-> o.lost] : o \in Flushed(f)}

\* __towrite
Towrite(f) ==
  IF f.nowr THEN [f |-> [f EXCEPT !.err = TRUE], ok |-> FALSE]
  ELSE [f |-> Writing(NotReading(f)), ok |-> TRUE]

\* __stdio_read, called by __uflow for one byte and by fread until it has l of
\* them: short reads go to the caller, and the read that completes them may
\* fill the buffer with c bytes, the first of which is the caller's last.
StdioRead(f, l) ==
  LET due(n) == SubSeq(f.data, f.off + 1, f.off + n) IN
  (IF Ahead(f) < l THEN {[f |-> [f EXCEPT !.off = @ + Ahead(f), !.eof = TRUE], got |-> due(Ahead(f))]}
   ELSE IF f.size = 0 THEN {[f |-> [f EXCEPT !.off = @ + l], got |-> due(l)]}
   ELSE {[f |-> [Stored(f, Buf, Beyond(due(l - 1 + c), l - 1))
                   EXCEPT !.off = @ + l - 1 + c, !.rpos = Buf + 1, !.rend = Buf + c],
          got |-> due(l)] : c \in {c \in 1 .. f.size : l - 1 + c <= Ahead(f)}})
  \cup {[f |-> [f EXCEPT !.off = @ + m, !.err = TRUE], got |-> due(m)] :
          m \in {m \in 0 .. l - 1 : m <= Ahead(f)}}

\* The remainder of a read, when nothing is buffered
Fill(f, l) ==
  UNION {IF ~t.ok THEN {[f |-> t.f, got |-> <<>>, lost |-> t.lost]}
         ELSE {[f |-> r.f, got |-> r.got, lost |-> t.lost] : r \in StdioRead(t.f, l)} : t \in Toread(f)}

\* fread; getc is the read of one byte.
Fread(f, l) ==
  LET k == IF f.rend - f.rpos < l THEN f.rend - f.rpos ELSE l
      g == [f EXCEPT !.rpos = @ + k]
      first == Prefix(Unread(f), k)
  IN IF k = l THEN {[f |-> g, got |-> first, lost |-> FALSE]}
     ELSE {[r EXCEPT !.got = first \o @] : r \in Fill(g, l - k)}

Buffered(f, b) == [Stored(f, f.wpos, b) EXCEPT !.wpos = @ + Len(b)]

\* putc_unlocked and __overflow
Putc(f, c) ==
  LET w == IF f.wend = NIL THEN Towrite(f) ELSE [f |-> f, ok |-> TRUE]
      keeps(g) == ~(g.line /\ c = NL) /\ g.wpos # g.wend
  IN IF ~w.ok THEN {[f |-> w.f, n |-> 0, lost |-> FALSE]}
     ELSE IF keeps(w.f) THEN {[f |-> Buffered(w.f, <<c>>), n |-> 1, lost |-> FALSE]}
     ELSE StdioWrite(w.f, <<c>>)

\* __fwritex
Fwritex(f, b) ==
  LET w == IF f.wend = NIL THEN Towrite(f) ELSE [f |-> f, ok |-> TRUE]
      i == Max({0} \cup {j \in DOMAIN b : w.f.line /\ b[j] = NL})
      kept(g) == [f |-> Buffered(g, Beyond(b, i)), n |-> Len(b), lost |-> FALSE]
  IN IF ~w.ok THEN {[f |-> w.f, n |-> 0, lost |-> FALSE]}
     ELSE IF Len(b) > w.f.wend - w.f.wpos THEN StdioWrite(w.f, b)
     ELSE IF i = 0 THEN {kept(w.f)}
     ELSE {IF o.n < i THEN o ELSE kept(o.f) : o \in StdioWrite(w.f, Prefix(b, i))}

\* ungetc
Ungetc(f, c) ==
  {LET g == IF t.f.rpos = NIL \/ t.f.rpos <= Buf - UNGET THEN t.f
            ELSE [Stored(t.f, t.f.rpos - 1, <<c>>) EXCEPT !.rpos = @ - 1, !.eof = FALSE]
   IN [f |-> g, failed |-> g.rpos = t.f.rpos, lost |-> t.lost] :
     t \in IF f.rpos = NIL THEN Toread(f) ELSE {[f |-> f, ok |-> TRUE, lost |-> FALSE]}}

\* The host's seek: to a negative position it fails.
HostSeek(f, o, whence) ==
  LET to == o + CASE whence = "SEEK_SET" -> 0
                  [] whence = "SEEK_CUR" -> f.off
                  [] whence = "SEEK_END" -> Len(f.data)
  IN IF to < 0 THEN [f |-> f, ok |-> FALSE] ELSE [f |-> [f EXCEPT !.off = to], ok |-> TRUE]

\* Mutant: a relative seek counts from the host's offset.
SeekFromHost(f, o, whence) == o

\* The offset is corrected for what was read ahead.
SeekOffset(f, o, whence) == IF whence = "SEEK_CUR" /\ f.rend # NIL THEN o - (f.rend - f.rpos) ELSE o

\* __fseeko_unlocked
Fseeko(f, o, whence) ==
  {IF w.lost THEN [f |-> w.f, failed |-> TRUE, lost |-> TRUE]
   ELSE LET s == HostSeek(NotWriting(w.f), SeekOffset(f, o, whence), whence) IN
        IF s.ok THEN [f |-> [NotReading(s.f) EXCEPT !.eof = FALSE], failed |-> FALSE, lost |-> FALSE]
        ELSE [f |-> s.f, failed |-> TRUE, lost |-> FALSE] : w \in Flushed(f)}

\* __ftello_unlocked; n is what it returns
Ftello(f) ==
  LET s == HostSeek(f, 0, IF f.app /\ f.wpos # f.wbase THEN "SEEK_END" ELSE "SEEK_CUR") IN
  [f |-> s.f,
   n |-> s.f.off + (IF f.rend # NIL THEN f.rpos - f.rend ELSE IF f.wbase # NIL THEN f.wpos - f.wbase ELSE 0)]

\* The host gets the position of the stream.
Synced(f) == IF f.rpos # f.rend THEN HostSeek(f, f.rpos - f.rend, "SEEK_CUR").f ELSE f

\* fflush
Fflush(f) ==
  {IF w.lost THEN [f |-> w.f, lost |-> TRUE]
   ELSE [f |-> NotReading(NotWriting(Synced(w.f))), lost |-> FALSE] : w \in Flushed(f)}

\* close_file, when the process exits
CloseFile(f) == {[f |-> Synced(w.f), lost |-> w.lost] : w \in Flushed(f)}

-----------------------------------------------------------------------------
\* The position of the stream
Position(f) ==
  IF f.wpos # f.wbase THEN (IF f.app THEN Len(f.data) ELSE f.off) + (f.wpos - f.wbase)
  ELSE f.off - (f.rend - f.rpos)

StreamCall ==
  /\ streamcalls < MaxStreamCalls /\ fcall.op \notin {"close", "exit"}
  /\ streamcalls' = streamcalls + 1

Read(l) ==
  /\ StreamCall
  /\ \E r \in Fread(fp, l) :
       /\ fp' = r.f
       /\ fcall' = [NoStreamCall EXCEPT !.op = "read", !.n = l, !.got = r.got, !.lost = r.lost]
       /\ dir' = IF Len(r.got) < l /\ r.f.eof THEN "any" ELSE "in"

WriteResult(b, o) ==
  /\ fp' = o.f
  /\ fcall' = [NoStreamCall EXCEPT !.op = "write", !.bytes = b, !.failed = o.n < Len(b), !.lost = o.lost]
  /\ UNCHANGED dir

PutByte(c) == StreamCall /\ dir = "any" /\ \E o \in Putc(fp, c) : WriteResult(<<c>>, o)
Fwrite(b) == StreamCall /\ dir = "any" /\ \E o \in Fwritex(fp, b) : WriteResult(b, o)

UngetByte(c) ==
  /\ StreamCall
  /\ \E u \in Ungetc(fp, c) :
       /\ fp' = u.f
       /\ fcall' = [NoStreamCall EXCEPT !.op = "unget", !.bytes = <<c>>, !.failed = u.failed, !.lost = u.lost]
  /\ dir' = "in"

Fseek(o, whence) ==
  /\ StreamCall
  /\ \E s \in Fseeko(fp, o, whence) :
       /\ fp' = s.f
       /\ fcall' = [NoStreamCall EXCEPT !.op = "seek", !.n = o, !.whence = whence, !.failed = s.failed, !.lost = s.lost]
       /\ dir' = IF s.failed THEN dir ELSE "any"

Rewind ==
  /\ StreamCall
  /\ \E s \in Fseeko(fp, 0, "SEEK_SET") :
       /\ fp' = [s.f EXCEPT !.err = FALSE]
       /\ fcall' = [NoStreamCall EXCEPT !.op = "rewind", !.whence = "SEEK_SET", !.lost = s.lost]
  /\ dir' = "any"

Ftell ==
  /\ StreamCall
  /\ fp' = Ftello(fp).f
  /\ fcall' = [NoStreamCall EXCEPT !.op = "tell", !.n = Ftello(fp).n]
  /\ UNCHANGED dir

\* fflush and fclose, which begins with it; neither touches the stream afterwards
FlushResult(op) ==
  /\ StreamCall
  /\ \E w \in Fflush(fp) :
       /\ fp' = w.f
       /\ fcall' = [NoStreamCall EXCEPT !.op = op, !.failed = w.lost, !.lost = w.lost]
  /\ dir' = "any"

FlushStream == FlushResult("flush")
Fclose == FlushResult("close")

StdioExit ==
  /\ StreamCall
  /\ \E w \in CloseFile(fp) :
       /\ fp' = w.f
       /\ fcall' = [NoStreamCall EXCEPT !.op = "exit", !.lost = w.lost]
  /\ UNCHANGED dir

Clearerr ==
  /\ StreamCall
  /\ fp' = [fp EXCEPT !.eof = FALSE, !.err = FALSE]
  /\ fcall' = [NoStreamCall EXCEPT !.op = "clearerr"]
  /\ UNCHANGED dir

\* setvbuf is the first call on a stream; size is that of the caller's buffer
\* without the bytes of ungetc.
Setvbuf(type, size) ==
  /\ StreamCall /\ fcall = NoStreamCall
  /\ fp' = CASE type = "_IONBF" -> [fp EXCEPT !.size = 0, !.line = FALSE]
             [] type = "_IOFBF" -> [fp EXCEPT !.size = size, !.line = FALSE]
             [] type = "_IOLBF" -> [fp EXCEPT !.size = size, !.line = size # 0]
  /\ fcall' = [NoStreamCall EXCEPT !.op = "setvbuf"]
  /\ UNCHANGED dir

Whences == {"SEEK_SET", "SEEK_CUR", "SEEK_END"}
StreamBytes == UNION {{b[i] : i \in DOMAIN b} : b \in StreamWrites}

StdioNext ==
  \/ Rewind \/ Ftell \/ FlushStream \/ Fclose \/ StdioExit \/ Clearerr
  \/ \E l \in ReadLens : Read(l)
  \/ \E c \in StreamBytes : PutByte(c) \/ UngetByte(c)
  \/ \E b \in StreamWrites : Fwrite(b)
  \/ \E o \in SeekOffsets, whence \in Whences : Fseek(o, whence)
  \/ \E type \in {"_IONBF", "_IOLBF", "_IOFBF"}, size \in VbufSizes \cup {BUFSIZ} : Setvbuf(type, size)

StdioSpec == StdioInit /\ [][StdioNext]_stdioVars

-----------------------------------------------------------------------------
\* The file as the program sees it: what the host has, and what is buffered
FileView == HostWrite(fp, Held(fp)).data

Stream == INSTANCE AbstractStream WITH
  file <- FileView,
  pos <- Position(fp),
  input <- IF fp.wend # NIL THEN Beyond(FileView, Position(fp)) ELSE Unread(fp) \o Beyond(fp.data, fp.off),
  unsaved <- Held(fp),
  hostpos <- fp.off,
  error <- fp.err,
  append <- fp.app,
  call <- fcall,
  buffering <- IF fp.size = 0 THEN "none" ELSE IF fp.line THEN "line" ELSE "full"

\* The buffer does not show: whatever sequence of reads, writes, bytes pushed
\* back and seeks, with the host reading less than asked for or failing in the
\* middle of a write, a program sees one file and one position in it, the host
\* has the file when fflush, fclose or exit is over and what the buffering mode
\* promises before, and bytes that are lost are reported.
StreamAsPromised == Stream!AbstractSpec
=============================================================================
