--------------------------- MODULE AbstractStream ---------------------------
(***************************************************************************)
(* What a stdio stream promises, without its buffer: a file, a position in *)
(* it, and the bytes that reads return from here on, which are the rest of *)
(* the file unless bytes were pushed back.                                 *)
(***************************************************************************)
EXTENDS Integers, Sequences

VARIABLES
  file,       \* the contents of the file, as the program sees them
  pos,        \* the position of the stream
  input,      \* what reads return from here on
  unsaved,    \* the last bytes written, if the host does not have them yet
  hostpos,    \* the position of the host's descriptor
  error,      \* ferror
  append,     \* opened for appending
  buffering,  \* "full", "line" or "none"
  call        \* the last call, its arguments and its result

streamVars == <<file, pos, input, unsaved, hostpos, error, append, buffering, call>>

NL == 1

Prefix(s, n) == SubSeq(s, 1, n)
Rest(s, n) == SubSeq(s, n + 1, Len(s))

\* The contents data with b written at position at; a gap is filled with zeros.
Overlay(data, at, b) ==
  LET end == IF at + Len(b) > Len(data) THEN at + Len(b) ELSE Len(data) IN
  IF b = <<>> THEN data
  ELSE [i \in 1 .. end |-> IF i > at /\ i <= at + Len(b) THEN b[i - at]
                           ELSE IF i <= Len(data) THEN data[i] ELSE 0]

SameStream == UNCHANGED <<file, pos, input>>

\* Reading returns what is due, and less than was asked for only at the end of
\* the file or with the error indicator set.
Read ==
  /\ call'.op = "read" /\ ~call'.lost
  /\ LET k == Len(call'.got) IN
     /\ call'.got = Prefix(input, k)
     /\ input' = Rest(input, k)
     /\ pos' = pos + k
     /\ k < call'.n => input' = <<>> \/ error'
  /\ file' = file

\* A byte is pushed back, or there is no room for it.
Unget ==
  /\ call'.op = "unget" /\ ~call'.lost
  /\ IF call'.failed THEN SameStream
     ELSE /\ input' = call'.bytes \o input
          /\ pos' = pos - 1
          /\ file' = file

\* Writing replaces what is at the position, or appends; the host has what the
\* buffering mode says it must have.
Write ==
  /\ call'.op = "write" /\ ~call'.lost
  /\ LET at == IF append THEN Len(file) ELSE pos IN
     IF call'.failed THEN SameStream /\ error'
     ELSE /\ file' = Overlay(file, at, call'.bytes)
          /\ pos' = at + Len(call'.bytes)
          /\ input' = Rest(file', pos')
          /\ buffering = "none" => unsaved' = <<>>
          /\ buffering = "line" => \A i \in DOMAIN unsaved' : unsaved'[i] # NL

Seek ==
  /\ call'.op \in {"seek", "rewind"} /\ ~call'.lost
  /\ LET to == call'.n + CASE call'.whence = "SEEK_SET" -> 0
                           [] call'.whence = "SEEK_CUR" -> pos
                           [] call'.whence = "SEEK_END" -> Len(file)
     IN IF to < 0 THEN call'.failed /\ SameStream
        ELSE /\ ~call'.failed
             /\ pos' = to
             /\ input' = Rest(file, to)
  /\ file' = file /\ unsaved' = <<>>

Tell == call'.op = "tell" /\ call'.n = pos /\ SameStream

\* After fflush the host has the file and the position.  What the position is
\* after a byte was pushed back at the beginning of the file is not specified.
Flush ==
  /\ call'.op = "flush" /\ ~call'.lost /\ ~call'.failed
  /\ file' = file /\ unsaved' = <<>>
  /\ pos >= 0 => pos' = pos /\ input' = Rest(file, pos) /\ hostpos' = pos

\* So it does when the stream is closed, or the process exits.
Close ==
  /\ call'.op \in {"close", "exit"} /\ ~call'.lost
  /\ file' = file /\ unsaved' = <<>>
  /\ pos >= 0 => hostpos' = pos

\* setvbuf and clearerr
Other == call'.op \in {"setvbuf", "clearerr"} /\ SameStream

\* The host failed to write and bytes are gone: the call fails or leaves the
\* error indicator set.  Only rewind, which clears it, and exit say nothing.
\* The stream goes on from what the host has.
Lose ==
  /\ call'.lost
  /\ call'.failed \/ error' \/ call'.op \in {"rewind", "exit"}
  /\ unsaved' = <<>>

StreamNext == Read \/ Unget \/ Write \/ Seek \/ Tell \/ Flush \/ Close \/ Other \/ Lose

AbstractSpec == pos = 0 /\ input = file /\ unsaved = <<>> /\ [][StreamNext]_streamVars
=============================================================================
