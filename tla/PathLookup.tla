----------------------------- MODULE PathLookup -----------------------------
(***************************************************************************)
(* Path lookup: the table of pre-opened directories, the library's copy of *)
(* the working directory, and how a path becomes a descriptor and a path   *)
(* relative to it.  The host keeps a working directory of its own, which   *)
(* chdir changes second.                                                   *)
(*                                                                         *)
(* A path is a sequence of characters, because the code compares lengths;  *)
(* a directory of the host is the sequence of its components.  Directories *)
(* are pre-opened under the names they have on the host.                   *)
(***************************************************************************)
EXTENDS Integers, SequencesExt

CONSTANTS
  Chars,         \* the characters of paths
  Paths,         \* the paths that are looked up and changed to
  PreopenNames,  \* the prefixes of pre-opened directories
  Dirs,          \* the directories there are
  StartDirs,     \* those the program may be started in
  StartCap,      \* capacity of the first table (4 in the code)
  MaxPreopens,   \* bound: registrations
  MaxChdirs      \* bound: calls of chdir

Slash == <<"/">>
Dot == <<".">>

\* The name of an entry of a directory
IsName(c) == c \in Seq(Chars) \ {<<>>, Dot, Dot \o Dot} /\ \A i \in DOMAIN c : c[i] # "/"

ASSUME PathAssumption ==
  /\ {"/", "."} \subseteq Chars
  /\ Paths \subseteq Seq(Chars) /\ PreopenNames \subseteq Seq(Chars)
  /\ StartDirs \subseteq Dirs
  /\ \A dir \in Dirs : dir \in Seq(Seq(Chars)) /\ \A i \in DOMAIN dir : IsName(dir[i])
  /\ StartCap \in Nat \ {0} /\ MaxPreopens \in Nat /\ MaxChdirs \in Nat

VARIABLES
  preopens, pcap,   \* the table of prefixes and its capacity
  threaded,         \* need_locks: locks are taken
  pstuck,           \* a thread waits for the lock it holds
  cwd, synced,      \* __wasilibc_cwd, and whether the host was asked for it
  hostcwd,          \* the host's
  looked,           \* the last lookup (history)
  apart,            \* the host refused a chdir the library had made (history)
  chdirs            \* counter for the bound

pathVars == <<preopens, pcap, threaded, pstuck, cwd, synced, hostcwd, looked, apart, chdirs>>

NoLookup == [found |-> FALSE, prefix |-> <<>>, rel |-> Dot, names |-> <<>>, longest |-> 0]

-----------------------------------------------------------------------------
(* What the host makes of a path *)

\* A component is over: "." and nothing stay, ".." goes up.
Enter(dir, c) ==
  CASE c \in {<<>>, Dot} -> dir
    [] c = Dot \o Dot -> IF dir = <<>> THEN dir ELSE Front(dir)
    [] OTHER -> Append(dir, c)

\* One more character of a path is read.
Advance(s, ch) ==
  IF ch = "/" THEN [dir |-> Enter(s.dir, s.comp), comp |-> <<>>]
  ELSE [s EXCEPT !.comp = Append(@, ch)]

\* The directory that path names when it is read in dir
Names(dir, path) ==
  LET start == [dir |-> IF IsPrefix(Slash, path) THEN <<>> ELSE dir, comp |-> <<>>]
      read[n \in 0 .. Len(path)] == IF n = 0 THEN start ELSE Advance(read[n - 1], path[n])
      last == read[Len(path)]
  IN Enter(last.dir, last.comp)

\* getcwd of the host
PathOf(dir) ==
  LET upto[n \in 0 .. Len(dir)] == IF n = 0 THEN <<>> ELSE upto[n - 1] \o Slash \o dir[n]
  IN IF dir = <<>> THEN Slash ELSE upto[Len(dir)]

-----------------------------------------------------------------------------
(* preopens.c *)

SlashesFrom(path, i) ==
  Min({j \in i .. Len(path) : path[j] # "/"} \cup {Len(path) + 1}) - i

Drop(path, n) == SubSeq(path, n + 1, Len(path))

\* strip_prefixes
StripPrefixes(path) ==
  LET strip[n \in 0 .. Len(path)] ==
        LET p == Drop(path, n) IN
        CASE IsPrefix(Slash, p) -> strip[n + 1]
          [] IsPrefix(Dot \o Slash, p) -> strip[n + 2]
          [] p = Dot -> strip[n + 1]
          [] OTHER -> p
  IN strip[0]

\* prefix_matches: only complete components, trailing slashes ignored
PrefixMatches(prefix, path) ==
  LET bare == Min({n \in 0 .. Len(prefix) : \A i \in n + 1 .. Len(prefix) : prefix[i] = "/"}) IN
  \/ ~IsPrefix(Slash, path) /\ prefix = <<>>
  \/ /\ IsPrefix(prefix, path)
     /\ bare = Len(path) \/ path[bare + 1] = "/"

\* match_len of a prefix: with the slashes before and behind it
MatchLen(path, skip, prefix) ==
  IF prefix = <<>> THEN 0
  ELSE skip + Len(prefix) + SlashesFrom(path, skip + Len(prefix) + 1)

\* The loop of __wasilibc_find_abspath, from the newest entry: the entry it
\* settles for, 0 if there is none, and its match_len
BestMatch(path) ==
  LET skip == SlashesFrom(path, 1)
      best[i \in 0 .. Len(preopens)] ==
        IF i = Len(preopens) THEN [at |-> 0, len |-> 0]
        ELSE LET m == best[i + 1]  prefix == preopens[i + 1] IN
             IF (m.at = 0 \/ Len(prefix) > m.len) /\ PrefixMatches(prefix, Drop(path, skip))
             THEN [at |-> i + 1, len |-> MatchLen(path, skip, prefix)]
             ELSE m
  IN best[0]

\* __wasilibc_find_abspath
FindAbspath(path) ==
  LET m == BestMatch(path)
      rel == Drop(path, m.len)
  IN IF m.at = 0 THEN NoLookup
     ELSE [NoLookup EXCEPT !.found = TRUE, !.prefix = preopens[m.at],
                           !.rel = IF rel = <<>> THEN Dot ELSE rel]

-----------------------------------------------------------------------------
(* chdir.c *)

\* The library's directory once make_absolute has asked the host for it; that
\* asking fails (getcwd, malloc) is left out.
Cwd == IF synced THEN cwd ELSE PathOf(hostcwd)

\* Mutant: the working directory always ends in a slash.
MakeAbsoluteNoSlash(path) ==
  IF IsPrefix(Slash, path) THEN path
  ELSE LET p == IF IsPrefix(Dot \o Slash, path) THEN Drop(path, 2) ELSE path
       IN IF p \in {<<>>, Dot} THEN Cwd ELSE Cwd \o p

MakeAbsolute(path) ==
  IF IsPrefix(Slash, path) THEN path
  ELSE LET p == IF IsPrefix(Dot \o Slash, path) THEN Drop(path, 2) ELSE path
       IN IF p \in {<<>>, Dot, Dot \o Slash} THEN Cwd
          ELSE Cwd \o (IF Last(Cwd) = "/" THEN <<>> ELSE Slash) \o p

Longest(path) ==
  LET skip == SlashesFrom(path, 1)
  IN Max({0} \cup {Len(preopens[i]) : i \in {j \in DOMAIN preopens : PrefixMatches(preopens[j], Drop(path, skip))}})

\* __wasilibc_find_relpath_alloc, with what the path names for the host
FindRelpath(path) ==
  LET abs == MakeAbsolute(path)
  IN [FindAbspath(abs) EXCEPT !.names = Names(hostcwd, path), !.longest = Longest(abs)]

\* The directory a lookup leads to
Reached(l) == Names(Names(<<>>, Slash \o l.prefix), l.rel)

\* "/" + abs + "/" + relative_buf, without the parts that are empty
NewCwd(l) ==
  LET rel == IF l.rel = Dot THEN <<>> ELSE l.rel
      mid == IF rel # <<>> /\ l.prefix # <<>> THEN Slash ELSE <<>>
  IN Slash \o l.prefix \o mid \o rel

-----------------------------------------------------------------------------
\* __wasilibc_populate_preopens registers what the host hands over, later
\* __wasilibc_register_preopened_fd does.  resize takes the lock its caller
\* holds, which blocks when locks are taken.
RegisterPreopen(prefix) ==
  LET full == Len(preopens) = pcap IN
  /\ ~pstuck /\ Len(preopens) < MaxPreopens
  /\ pstuck' = (full /\ threaded)
  /\ IF pstuck' THEN UNCHANGED <<preopens, pcap>>
     ELSE /\ pcap' = IF ~full THEN pcap ELSE IF pcap = 0 THEN StartCap ELSE 2 * pcap
          /\ preopens' = Append(preopens, StripPrefixes(prefix))
  /\ UNCHANGED <<threaded, cwd, synced, hostcwd, looked, apart, chdirs>>

\* The first thread is created.
PathThreaded ==
  /\ ~threaded /\ threaded' = TRUE
  /\ UNCHANGED <<preopens, pcap, pstuck, cwd, synced, hostcwd, looked, apart, chdirs>>

\* open, stat and the others: find_relpath
Lookup(path) ==
  /\ ~pstuck
  /\ cwd' = Cwd /\ synced' = TRUE
  /\ looked' = FindRelpath(path)
  /\ UNCHANGED <<preopens, pcap, threaded, pstuck, hostcwd, apart, chdirs>>

\* chdir: the library's copy first, then the host's
Chdir(path) ==
  LET l == FindRelpath(path)  ok == l.found /\ Reached(l) \in Dirs IN
  /\ ~pstuck /\ chdirs < MaxChdirs
  /\ chdirs' = chdirs + 1
  /\ looked' = l
  /\ synced' = TRUE
  /\ cwd' = IF ok THEN NewCwd(l) ELSE Cwd
  /\ \/ ok /\ l.names \in Dirs /\ hostcwd' = l.names /\ UNCHANGED apart
     \/ ok /\ apart' = TRUE /\ UNCHANGED hostcwd
     \/ ~ok /\ UNCHANGED <<hostcwd, apart>>
  /\ UNCHANGED <<preopens, pcap, threaded, pstuck>>

PathInit ==
  /\ preopens = <<>> /\ pcap = 0
  /\ threaded = FALSE /\ pstuck = FALSE
  /\ cwd = Slash /\ synced = FALSE
  /\ hostcwd \in StartDirs
  /\ looked = NoLookup /\ apart = FALSE /\ chdirs = 0

PathNext ==
  \/ PathThreaded
  \/ \E prefix \in PreopenNames : RegisterPreopen(prefix)
  \/ \E path \in Paths : Lookup(path) \/ Chdir(path)

PathSpec == PathInit /\ [][PathNext]_pathVars

-----------------------------------------------------------------------------
\* The descriptor and the relative path a lookup returns lead to the file the
\* path names in the host's working directory, whatever sequence of chdir calls
\* built up the library's copy of it, as long as the host made them all.
PathReached == looked.found /\ ~apart => Reached(looked) = looked.names

\* The entry a lookup settles for is the longest prefix of the path.
PreopenLongest == looked.found => Len(looked.prefix) = looked.longest
=============================================================================
