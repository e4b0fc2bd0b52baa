-------------------------- MODULE EvidenceSpoolProofs --------------------------
(***************************************************************************)
(* The evidence channel: what is imported was appended as a whole and, as   *)
(* long as no rotation falls into a pass and no write is cut short, in      *)
(* order, once and without a gap; what was acknowledged is imported or will *)
(* be read.  For every file size, read limit and number of records and      *)
(* crashes.                                                                 *)
(*                                                                         *)
(* The argument counts the records before each file: the database holds as  *)
(* many as the cursor's position says, a pass has read on from there, and   *)
(* no file is unlinked that the cursor has not passed.                      *)
(***************************************************************************)
EXTENDS EvidenceSpool, TLAPS, SequenceTheorems, WellFoundedInduction

\* The kinds of values: a line is a record or does not parse.
Lines == Nat \cup {Bad}
Contents == [lines : Seq(Lines), fragment : BOOLEAN]
Cursors == [inode : Nat, offset : Nat]
CursorOrNone == Cursors \cup {None}
Inodes == 1 .. Len(file)

\* A pass after the glob, and after the listing.
Globbed == [pc : {"globbed"}, sealed : SUBSET Nat]
Reading ==
    [pc : {"reading", "read"}, inodes : SUBSET Nat, sealed : SUBSET Nat, at : Nat,
     offset : Nat, events : Seq(Nat), cursor : CursorOrNone, budget : Nat]

\* Every variable holds a value of its kind.
Typed ==
    /\ file \in Seq(Contents) /\ active \in Nat \cup {None}
    /\ wpc \in {"idle", "appending", "written"}
    /\ appended \in Nat /\ written \in Seq(Nat) /\ acked \subseteq Nat
    /\ cursor \in CursorOrNone /\ imported \in Seq(Nat) /\ doomed \subseteq Nat
    /\ reader \in {Idle} \cup Globbed \cup Reading
    /\ raced \in BOOLEAN /\ torn \in BOOLEAN

\* The console has listed the directory.
InPass == reader.pc \in {"reading", "read"}

\* The active file is the newest, and no path of another name leads to it.
Newest ==
    /\ sealed \subseteq Inodes /\ active \notin sealed
    /\ active # None => active \in Inodes /\ active = Len(file)
    /\ reader.pc # "idle" => reader.sealed \subseteq Inodes /\ active \notin reader.sealed
    /\ InPass => reader.inodes \subseteq Inodes

\* What parses was written as a whole.
Genuine ==
    /\ \A f \in Inodes : \A i \in 1 .. Len(file[f].lines) :
         file[f].lines[i] # Bad => file[f].lines[i] \in ToSet(written)
    /\ ToSet(imported) \subseteq ToSet(written)
    /\ InPass => ToSet(reader.events) \subseteq ToSet(written)

-----------------------------------------------------------------------------
(* What holds while no rotation fell into a pass and no write was cut short. *)

\* base counts the records written before each file.
Layout(base) ==
    /\ base \in [1 .. Len(file) + 1 -> Nat]
    /\ base[1] = 0 /\ base[Len(file) + 1] = Len(written)
    /\ \A f \in Inodes :
         /\ ~file[f].fragment
         /\ base[f + 1] = base[f] + Len(file[f].lines)
         /\ \A i \in 1 .. Len(file[f].lines) : file[f].lines[i] = written[base[f] + i]
    /\ \A f, g \in 1 .. Len(file) + 1 : f <= g => base[f] <= base[g]
    /\ \A k \in 1 .. Len(written) : \E f \in Inodes : base[f] < k /\ k <= base[f + 1]

\* s holds the first k written records.
First(s, k) ==
    Len(s) = k /\ k <= Len(written) /\ \A i \in 1 .. k : s[i] = written[i]

\* The database holds what the cursor says.
CursorAt(base) ==
    /\ cursor = None => imported = <<>>
    /\ cursor # None =>
         /\ cursor.inode \in Inodes /\ cursor.offset <= Len(file[cursor.inode].lines)
         /\ First(imported, base[cursor.inode] + cursor.offset)

\* The pass has read on from there, file by file.
PassAt(base) ==
    InPass =>
      /\ reader.at \in reader.inodes /\ (cursor # None => reader.at >= cursor.inode)
      /\ reader.offset <= Len(file[reader.at].lines)
      /\ First(imported \o reader.events, base[reader.at] + reader.offset)
      /\ reader.pc = "read" =>
           reader.cursor = [inode |-> reader.at, offset |-> reader.offset]

\* Only what the cursor has passed is unlinked.
StillThere ==
    /\ \A f \in Inodes : (cursor # None => f >= cursor.inode) => f \in Present
    /\ \A f \in doomed : cursor # None /\ f < cursor.inode

\* The pass has listed all that is still there, the active file last.
Listed ==
    /\ reader.pc = "globbed" => sealed \subseteq reader.sealed
    /\ InPass =>
         /\ reader.sealed \subseteq reader.inodes
         /\ reader.inodes \subseteq reader.sealed \cup Existing
         /\ \A f \in Inodes, i \in reader.inodes :
              reader.at <= f /\ f <= i => f \in reader.inodes

\* An acknowledged record is written.
Answered ==
    /\ acked \subseteq ToSet(written)
    /\ wpc = "written" => appended \in ToSet(written)

\* Everything that holds in an undisturbed history.
Ordered ==
    /\ \E base : Layout(base) /\ CursorAt(base) /\ PassAt(base)
    /\ StillThere /\ Listed /\ Answered

\* The inductive invariant.
IInv == Typed /\ Newest /\ Genuine /\ (raced \/ torn \/ Ordered)

-----------------------------------------------------------------------------
(* Induction over the naturals, with a set in the place of the predicate.   *)

\* A set of naturals has a least element.
LEMMA LeastNatural ==
    ASSUME NEW S \in SUBSET Nat, S # {}
    PROVE  \E m \in S : \A n \in S : m <= n
<1>1. IsWellFoundedOn(OpToRel(<, Nat), Nat)
  BY NatLessThanWellFounded
<1>2. \E x \in S : \A y \in S : ~ (<<y, x>> \in OpToRel(<, Nat))
  BY <1>1, WFMin
<1>3. \A x \in S, y \in S : (<<y, x>> \notin OpToRel(<, Nat)) => x <= y
  BY DEF OpToRel
<1> QED
  BY <1>2, <1>3

\* A set that holds 0, and every successor up to m, holds all of 0 .. m.
LEMMA InductiveSet ==
    ASSUME NEW m \in Nat, NEW S \in SUBSET (0 .. m), 0 \in S,
           \A n \in S : n < m => n + 1 \in S
    PROVE  S = 0 .. m
<1>1. SUFFICES ASSUME (0 .. m) \ S # {} PROVE FALSE
  OBVIOUS
<1>2. PICK k \in (0 .. m) \ S : \A n \in (0 .. m) \ S : k <= n
  <2>1. (0 .. m) \ S \in SUBSET Nat
    OBVIOUS
  <2> QED
    BY <1>1, <2>1, LeastNatural
<1>3. k # 0 /\ k - 1 \in 0 .. m /\ k - 1 < k
  BY <1>2
<1>4. k - 1 \in S
  BY <1>2, <1>3
<1> QED
  BY <1>2, <1>3, <1>4

\* The smallest member, as the code's sorted list has it first.
LEMMA MinIsLeast ==
    ASSUME NEW S \in SUBSET Nat, S # {}
    PROVE  Min(S) \in S /\ \A n \in S : Min(S) <= n
<1>1. \E m \in S : \A n \in S : m <= n
  BY LeastNatural
<1> QED
  BY <1>1 DEF Min

-----------------------------------------------------------------------------
(* Sequences.                                                               *)

\* The complete lines of one read: as many as the budget and the file have.
LEMMA ChunkRead ==
    ASSUME NEW S, NEW lines \in Seq(S), NEW o \in Nat, NEW b \in Nat
    PROVE  LET chunk == SubSeq(lines, o + 1, Min({Len(lines), o + b})) IN
           /\ chunk \in Seq(S) /\ Len(chunk) \in Nat /\ Len(chunk) <= b
           /\ o <= Len(lines) => o + Len(chunk) <= Len(lines)
           /\ \A i \in 1 .. Len(chunk) :
                o + i \in 1 .. Len(lines) /\ chunk[i] = lines[o + i]
<1> DEFINE hi == Min({Len(lines), o + b})
<1>1. Len(lines) \in Nat /\ {Len(lines), o + b} \in SUBSET Nat
  BY LenProperties
<1>2. hi \in {Len(lines), o + b} /\ hi <= Len(lines) /\ hi <= o + b
  BY <1>1, MinIsLeast
<1> HIDE DEF hi
<1>3. hi \in Nat
  BY <1>1, <1>2
<1>4. \A i \in o + 1 .. hi : i \in 1 .. Len(lines) /\ lines[i] \in S
  BY <1>1, <1>2, <1>3, ElementOfSeq
<1> DEFINE c == SubSeq(lines, o + 1, hi)
<1>5. /\ c \in Seq(S)
      /\ Len(c) = IF o + 1 <= hi THEN hi - (o + 1) + 1 ELSE 0
      /\ \A i \in 1 .. hi - (o + 1) + 1 : c[i] = lines[o + 1 + i - 1]
  <2>1. o + 1 \in Int /\ hi \in Int
    BY <1>3
  <2> QED
    BY <1>4, <2>1, SubSeqProperties
<1> HIDE DEF c
<1>6. Len(c) \in Nat /\ Len(c) <= b
  BY <1>1, <1>2, <1>3, <1>5
<1>7. o <= Len(lines) => o + Len(c) <= Len(lines)
  BY <1>1, <1>2, <1>3, <1>5
<1>8. ASSUME NEW i \in 1 .. Len(c)
      PROVE  o + i \in 1 .. Len(lines) /\ c[i] = lines[o + i]
  <2>1. i \in 1 .. hi - (o + 1) + 1 /\ o + 1 + i - 1 = o + i /\ o + i \in o + 1 .. hi
    BY <1>3, <1>5
  <2> QED
    BY <1>4, <1>5, <2>1
<1> QED
  BY <1>5, <1>6, <1>7, <1>8 DEF c, hi

\* The function behind Parsed, for the first m lines of a chunk.
Filters(f, chunk, m) ==
    f = [n \in 0 .. m |->
           IF n = 0 THEN <<>>
           ELSE IF chunk[n] = Bad THEN f[n - 1] ELSE Append(f[n - 1], chunk[n])]

\* There is such a function: it is built up line by line.
LEMMA FilterExists ==
    ASSUME NEW m \in Nat, NEW chunk
    PROVE  \E f : Filters(f, chunk, m)
<1> DEFINE S == {k \in 0 .. m : \E f : Filters(f, chunk, k)}
<1>1. 0 \in S
  <2>1. Filters([n \in 0 .. 0 |-> <<>>], chunk, 0)
    BY DEF Filters
  <2> QED
    BY <2>1
<1>2. ASSUME NEW k \in S, k < m
      PROVE  k + 1 \in S
  <2>1. PICK f : Filters(f, chunk, k)
    OBVIOUS
  <2> DEFINE x == IF chunk[k + 1] = Bad THEN f[k] ELSE Append(f[k], chunk[k + 1])
             g == [n \in 0 .. k + 1 |-> IF n = k + 1 THEN x ELSE f[n]]
             h == [n \in 0 .. k + 1 |->
                     IF n = 0 THEN <<>>
                     ELSE IF chunk[n] = Bad THEN g[n - 1] ELSE Append(g[n - 1], chunk[n])]
  <2>2. k \in Nat /\ \A n \in 0 .. k : g[n] = f[n]
    OBVIOUS
  <2>3. g[k + 1] = x /\ f[k] = g[k]
    BY <2>2
  <2>4. \A n \in 0 .. k : f[n] = IF n = 0 THEN <<>>
           ELSE IF chunk[n] = Bad THEN f[n - 1] ELSE Append(f[n - 1], chunk[n])
    BY <2>1, <2>2 DEF Filters
  <2>5. ASSUME NEW n \in 0 .. k + 1
        PROVE  g[n] = h[n]
    <3>1. CASE n = k + 1
      <4>1. n # 0 /\ n - 1 = k
        BY <2>2, <3>1
      <4> QED
        BY <2>3, <3>1, <4>1
    <3>2. CASE n # k + 1
      <4>1. n \in 0 .. k /\ (n # 0 => n - 1 \in 0 .. k)
        BY <2>2, <3>2
      <4> QED
        BY <2>2, <2>4, <4>1
    <3> QED
      BY <3>1, <3>2
  <2>6. g = h
    BY <2>5
  <2>7. Filters(g, chunk, k + 1)
    BY <2>6 DEF Filters
  <2> QED
    BY <1>2, <2>7
<1>3. S = 0 .. m
  BY <1>1, <1>2, InductiveSet
<1> QED
  BY <1>3

\* Parsed keeps lines that parse, and everything if all do.
LEMMA ParsedLines ==
    ASSUME NEW chunk \in Seq(Lines)
    PROVE  /\ Parsed(chunk) \in Seq(Nat)
           /\ \A i \in 1 .. Len(Parsed(chunk)) :
                \E j \in 1 .. Len(chunk) : chunk[j] # Bad /\ Parsed(chunk)[i] = chunk[j]
           /\ (\A j \in 1 .. Len(chunk) : chunk[j] # Bad) => Parsed(chunk) = chunk
<1> DEFINE m == Len(chunk)
           F == CHOOSE f : Filters(f, chunk, m)
           Sound(s, n) ==
             /\ s \in Seq(Nat)
             /\ \A i \in 1 .. Len(s) :
                  \E j \in 1 .. n : chunk[j] # Bad /\ s[i] = chunk[j]
             /\ (\A j \in 1 .. n : chunk[j] # Bad) =>
                  Len(s) = n /\ \A i \in 1 .. n : s[i] = chunk[i]
           S == {n \in 0 .. m : Sound(F[n], n)}
<1>1. m \in Nat /\ \A j \in 1 .. m : chunk[j] \in Lines
  BY LenProperties, ElementOfSeq
<1>2. Filters(F, chunk, m)
  <2>1. \E f : Filters(f, chunk, m)
    BY <1>1, FilterExists
  <2> QED
    BY <2>1
<1>3. Parsed(chunk) = F[m]
  BY DEF Parsed, Filters
<1> HIDE DEF F, m
<1>4. \A n \in 0 .. m : F[n] = IF n = 0 THEN <<>>
        ELSE IF chunk[n] = Bad THEN F[n - 1] ELSE Append(F[n - 1], chunk[n])
  BY <1>2 DEF Filters
<1>5. 0 \in S
  <2>1. F[0] = <<>> /\ 0 \in 0 .. m
    BY <1>1, <1>4
  <2>2. <<>> \in Seq(Nat) /\ Len(<<>>) = 0
    BY EmptySeq
  <2>3. Sound(<<>>, 0)
    BY <2>2
  <2> QED
    BY <2>1, <2>3
<1>6. ASSUME NEW n \in S, n < m
      PROVE  n + 1 \in S
  <2>1. n \in Nat /\ n + 1 \in 1 .. m /\ n + 1 \in 0 .. m /\ (n + 1) - 1 = n
    BY <1>1, <1>6
  <2>2. F[n + 1] = IF chunk[n + 1] = Bad THEN F[n] ELSE Append(F[n], chunk[n + 1])
    BY <1>4, <2>1
  <2>3. /\ F[n] \in Seq(Nat) /\ Len(F[n]) \in Nat
        /\ \A i \in 1 .. Len(F[n]) :
             \E j \in 1 .. n : chunk[j] # Bad /\ F[n][i] = chunk[j]
        /\ (\A j \in 1 .. n : chunk[j] # Bad) =>
             Len(F[n]) = n /\ \A i \in 1 .. n : F[n][i] = chunk[i]
    BY <1>6
  <2>4. CASE chunk[n + 1] = Bad
    <3>1. F[n + 1] = F[n] /\ n + 1 \in 1 .. n + 1
      BY <2>1, <2>2, <2>4
    <3>2. Sound(F[n + 1], n + 1)
      BY <2>1, <2>3, <2>4, <3>1
    <3> QED
      BY <2>1, <3>2
  <2>5. CASE chunk[n + 1] # Bad
    <3> DEFINE s == F[n] t == Append(F[n], chunk[n + 1])
    <3>1. chunk[n + 1] \in Nat
      BY <1>1, <2>1, <2>5 DEF Lines
    <3>2. /\ t \in Seq(Nat) /\ Len(t) = Len(s) + 1
          /\ \A i \in 1 .. Len(s) : t[i] = s[i]
          /\ t[Len(s) + 1] = chunk[n + 1]
      BY <2>3, <3>1, AppendProperties
    <3>3. F[n + 1] = t
      BY <2>2, <2>5
    <3> HIDE DEF s, t
    <3>4. ASSUME NEW i \in 1 .. Len(t)
          PROVE  \E j \in 1 .. n + 1 : chunk[j] # Bad /\ t[i] = chunk[j]
      <4>1. CASE i = Len(s) + 1
        BY <2>1, <2>5, <3>2, <4>1
      <4>2. CASE i # Len(s) + 1
        <5>1. i \in 1 .. Len(s)
          BY <2>3, <3>2, <4>2 DEF s
        <5>2. PICK j \in 1 .. n : chunk[j] # Bad /\ s[i] = chunk[j]
          BY <2>3, <5>1 DEF s
        <5> QED
          BY <2>1, <3>2, <5>1, <5>2
      <4> QED
        BY <4>1, <4>2
    <3>5. ASSUME \A j \in 1 .. n + 1 : chunk[j] # Bad
          PROVE  Len(t) = n + 1 /\ \A i \in 1 .. n + 1 : t[i] = chunk[i]
      <4>1. Len(s) = n /\ \A i \in 1 .. n : s[i] = chunk[i]
        BY <2>1, <2>3, <3>5 DEF s
      <4> QED
        BY <2>1, <3>2, <4>1
    <3>6. Sound(F[n + 1], n + 1)
      BY <3>2, <3>3, <3>4, <3>5
    <3> QED
      BY <2>1, <3>6
  <2> QED
    BY <2>4, <2>5
<1>7. S = 0 .. m
  BY <1>1, <1>5, <1>6, InductiveSet
<1>8. Sound(F[m], m)
  BY <1>1, <1>7
<1>9. (\A j \in 1 .. m : chunk[j] # Bad) => F[m] = chunk
  <2>1. SUFFICES ASSUME \A j \in 1 .. m : chunk[j] # Bad PROVE F[m] = chunk
    OBVIOUS
  <2>2. chunk \in Seq(Lines) /\ F[m] \in Seq(Lines)
    BY <1>8, SeqMonotonic DEF Lines
  <2>3. Len(F[m]) = Len(chunk) /\ \A i \in 1 .. Len(chunk) : F[m][i] = chunk[i]
    BY <1>8, <2>1 DEF m
  <2> QED
    BY <2>2, <2>3, SeqEqual
<1> QED
  BY <1>3, <1>8, <1>9 DEF m

-----------------------------------------------------------------------------
(* What a step does to the files and to the pass.                           *)

\* The pass tells by its pc what it has read.
LEMMA ReaderKinds ==
    ASSUME Typed
    PROVE  /\ reader.pc \in {"idle", "globbed", "reading", "read"}
           /\ reader.pc = "idle" => reader = Idle
           /\ reader.pc = "globbed" => reader \in Globbed
           /\ InPass => reader \in Reading
           /\ Idle.pc = "idle"
<1>1. Idle.pc = "idle"
  BY DEF Idle
<1>2. CASE reader = Idle
  BY <1>1, <1>2 DEF InPass
<1>3. CASE reader \in Globbed
  BY <1>1, <1>3 DEF InPass, Globbed
<1>4. CASE reader \in Reading
  BY <1>1, <1>4 DEF InPass, Reading
<1> QED
  BY <1>2, <1>3, <1>4 DEF Typed

\* Every inode has its lines.
LEMMA FileFacts ==
    ASSUME Typed
    PROVE  /\ Len(file) \in Nat /\ DOMAIN file = Inodes /\ Inodes \in SUBSET Nat
           /\ \A f \in Inodes :
                /\ file[f] \in Contents /\ file[f].lines \in Seq(Lines)
                /\ Len(file[f].lines) \in Nat
<1>1. Len(file) \in Nat /\ DOMAIN file = 1 .. Len(file)
  BY LenProperties DEF Typed
<1>2. \A f \in 1 .. Len(file) : file[f] \in Contents
  BY ElementOfSeq DEF Typed
<1>3. \A f \in 1 .. Len(file) : file[f].lines \in Seq(Lines)
  BY <1>2 DEF Contents
<1>4. \A f \in 1 .. Len(file) : Len(file[f].lines) \in Nat
  BY <1>3, LenProperties
<1> QED
  BY <1>1, <1>2, <1>3, <1>4 DEF Inodes

\* Writing to the target, which is the active file or a new one.
LEMMA TargetWritten ==
    ASSUME Typed, Newest, NEW new \in Contents,
           file' = [f \in DOMAIN file \cup {Target} |-> IF f = Target THEN new ELSE file[f]]
    PROVE  /\ file' \in Seq(Contents) /\ Target \in Nat /\ Len(file') = Target
           /\ active = None => Target = Len(file) + 1
           /\ active # None => Target = Len(file) /\ Target = active /\ active \in Inodes
           /\ Inodes \subseteq Inodes' /\ Inodes' \subseteq Inodes \cup {Target}
           /\ Target \in Inodes' /\ file'[Target] = new
           /\ \A f \in Inodes : f # Target => file'[f] = file[f]
<1>1. Len(file) \in Nat /\ DOMAIN file = 1 .. Len(file)
  BY FileFacts DEF Inodes
<1>2. /\ active = None => Target = Len(file) + 1
      /\ active # None => Target = Len(file) /\ Target = active /\ active \in Inodes
  BY DEF Target, Newest
<1>3. Target \in Nat /\ Target >= 1 /\ DOMAIN file \cup {Target} = 1 .. Target
  BY <1>1, <1>2 DEF Inodes
<1>4. \A f \in 1 .. Target : (IF f = Target THEN new ELSE file[f]) \in Contents
  BY <1>1, <1>2, <1>3, FileFacts DEF Inodes
<1>5. file' \in [1 .. Target -> Contents]
  BY <1>3, <1>4
<1>6. file' \in Seq(Contents) /\ Len(file') = Target
  BY <1>3, <1>5
<1>7. Target \in Inodes' /\ Inodes' = 1 .. Target /\ Inodes \subseteq 1 .. Target
  BY <1>1, <1>2, <1>3, <1>6 DEF Inodes
<1>8. 1 .. Target \subseteq Inodes \cup {Target}
  BY <1>1, <1>2, <1>3 DEF Inodes
<1>9. /\ file'[Target] = new
      /\ \A f \in Inodes : f # Target => file'[f] = file[f]
  BY <1>1, <1>3 DEF Inodes
<1> QED
  BY <1>2, <1>3, <1>6, <1>7, <1>8, <1>9

\* What the target holds before a write.
LEMMA ContentTyped ==
    ASSUME Typed, Newest
    PROVE  /\ Content \in Contents /\ Content.lines \in Seq(Lines)
           /\ Content.fragment \in BOOLEAN /\ Len(Content.lines) \in Nat
           /\ active = None => Content.lines = <<>> /\ Content.fragment = FALSE
           /\ active # None => Content = file[active]
<1>1. NoFile \in Contents /\ NoFile.lines = <<>> /\ NoFile.fragment = FALSE
  <2>1. <<>> \in Seq(Lines)
    BY EmptySeq
  <2> QED
    BY <2>1 DEF NoFile, Contents
<1>2. Content \in Contents
  BY <1>1, FileFacts DEF Content, Newest
<1>3. Content.lines \in Seq(Lines) /\ Content.fragment \in BOOLEAN
  BY <1>2 DEF Contents
<1> QED
  BY <1>1, <1>2, <1>3, LenProperties DEF Content

\* What the write leaves in the target.
LEMMA WriteFacts ==
    ASSUME Typed, Newest, Write
    PROVE  \E line \in Lines :
             /\ line = (IF Content.fragment THEN Bad ELSE appended)
             /\ [lines |-> Append(Content.lines, line), fragment |-> FALSE] \in Contents
             /\ file' = [f \in DOMAIN file \cup {Target} |->
                           IF f = Target
                           THEN [lines |-> Append(Content.lines, line), fragment |-> FALSE]
                           ELSE file[f]]
<1> DEFINE line == IF Content.fragment THEN Bad ELSE appended
<1>1. line \in Lines
  BY DEF Lines, Typed
<1>2. file' = [f \in DOMAIN file \cup {Target} |->
                 IF f = Target
                 THEN [lines |-> Append(Content.lines, line), fragment |-> FALSE]
                 ELSE file[f]]
  BY DEF Write
<1> HIDE DEF line
<1>3. Append(Content.lines, line) \in Seq(Lines)
  BY <1>1, ContentTyped, AppendProperties
<1>4. [lines |-> Append(Content.lines, line), fragment |-> FALSE] \in Contents
  BY <1>3 DEF Contents
<1> QED
  BY <1>1, <1>2, <1>4 DEF line

\* One round of read_pending's loop.
ReadChunk(chunk, done) ==
    /\ Opened \in Inodes
    /\ Len(chunk) \in Nat
    /\ reader.offset <= Len(file[Opened].lines) =>
         reader.offset + Len(chunk) <= Len(file[Opened].lines)
    /\ \A i \in 1 .. Len(chunk) :
         /\ reader.offset + i \in 1 .. Len(file[Opened].lines)
         /\ chunk[i] = file[Opened].lines[reader.offset + i]
    /\ done <=> Finished(reader.offset + Len(chunk))
    /\ reader' \in Reading
    /\ reader'.pc = IF done THEN "reading" ELSE "read"
    /\ reader'.inodes = reader.inodes /\ reader'.sealed = reader.sealed
    /\ reader'.at = IF done THEN Min(Rest) ELSE reader.at
    /\ reader'.offset = IF done THEN 0 ELSE reader.offset + Len(chunk)
    /\ reader'.events = reader.events \o Parsed(chunk)
    /\ reader'.cursor = [inode |-> reader.at, offset |-> reader.offset + Len(chunk)]

\* ReadFile is a ReadChunk of some lines.
LEMMA ReadStep ==
    ASSUME Typed, Newest, ReadFile
    PROVE  \E chunk \in Seq(Lines), done \in BOOLEAN : ReadChunk(chunk, done)
<1> DEFINE chunk == SubSeq(file[Opened].lines, reader.offset + 1,
                           Min({Len(file[Opened].lines), reader.offset + reader.budget}))
           done == Finished(reader.offset + Len(chunk))
<1>1. reader.pc = "reading" /\ Opened # None /\ InPass /\ reader \in Reading
  BY ReaderKinds DEF ReadFile, InPass
<1>2. /\ reader.inodes \in SUBSET Nat /\ reader.at \in Nat /\ reader.offset \in Nat
      /\ reader.events \in Seq(Nat) /\ reader.budget \in Nat
  BY <1>1 DEF Reading
<1>3. Opened \in Inodes
  BY <1>1 DEF Opened, Newest
<1>4. file[Opened].lines \in Seq(Lines)
  BY <1>3, FileFacts
<1>5. /\ chunk \in Seq(Lines) /\ Len(chunk) \in Nat /\ Len(chunk) <= reader.budget
      /\ reader.offset <= Len(file[Opened].lines) =>
           reader.offset + Len(chunk) <= Len(file[Opened].lines)
      /\ \A i \in 1 .. Len(chunk) :
           /\ reader.offset + i \in 1 .. Len(file[Opened].lines)
           /\ chunk[i] = file[Opened].lines[reader.offset + i]
  <2> DEFINE lines == file[Opened].lines o == reader.offset b == reader.budget
             c == SubSeq(lines, o + 1, Min({Len(lines), o + b}))
  <2>1. lines \in Seq(Lines) /\ o \in Nat /\ b \in Nat
    BY <1>2, <1>4
  <2> HIDE DEF lines, o, b
  <2>2. /\ c \in Seq(Lines) /\ Len(c) \in Nat /\ Len(c) <= b
        /\ o <= Len(lines) => o + Len(c) <= Len(lines)
        /\ \A i \in 1 .. Len(c) : o + i \in 1 .. Len(lines) /\ c[i] = lines[o + i]
    BY <2>1, ChunkRead
  <2>3. c = chunk
    BY DEF lines, o, b
  <2> HIDE DEF chunk, c
  <2> QED
    BY <2>2, <2>3 DEF lines, o, b
<1>6. reader' = [reader EXCEPT
             !.events = reader.events \o Parsed(chunk),
             !.cursor = [inode |-> reader.at, offset |-> reader.offset + Len(chunk)],
             !.budget = reader.budget - Len(chunk),
             !.at = IF done THEN Min(Rest) ELSE reader.at,
             !.offset = IF done THEN 0 ELSE reader.offset + Len(chunk),
             !.pc = IF done THEN "reading" ELSE "read"]
  BY DEF ReadFile
<1> HIDE DEF chunk
<1>7. done \in BOOLEAN /\ (done => Min(Rest) \in Nat)
  <2>1. done \in BOOLEAN /\ (done => Rest # {}) /\ Rest \in SUBSET Nat
    BY <1>2 DEF Finished, Rest
  <2> QED
    BY <2>1, MinIsLeast
<1> HIDE DEF done
<1>8. reader.events \o Parsed(chunk) \in Seq(Nat)
  BY <1>2, <1>5, ParsedLines, ConcatProperties
<1>9. [inode |-> reader.at, offset |-> reader.offset + Len(chunk)] \in CursorOrNone
  BY <1>2, <1>5 DEF CursorOrNone, Cursors
<1>10. /\ reader.budget - Len(chunk) \in Nat /\ reader.offset + Len(chunk) \in Nat
  BY <1>2, <1>5
<1>11. reader' \in Reading
  <2>1. /\ (IF done THEN Min(Rest) ELSE reader.at) \in Nat
        /\ (IF done THEN 0 ELSE reader.offset + Len(chunk)) \in Nat
        /\ (IF done THEN "reading" ELSE "read") \in {"reading", "read"}
    BY <1>2, <1>7, <1>10
  <2> QED
    BY <1>1, <1>6, <1>8, <1>9, <1>10, <2>1 DEF Reading
<1>12. /\ reader'.pc = IF done THEN "reading" ELSE "read"
       /\ reader'.inodes = reader.inodes /\ reader'.sealed = reader.sealed
       /\ reader'.at = IF done THEN Min(Rest) ELSE reader.at
       /\ reader'.offset = IF done THEN 0 ELSE reader.offset + Len(chunk)
       /\ reader'.events = reader.events \o Parsed(chunk)
       /\ reader'.cursor = [inode |-> reader.at, offset |-> reader.offset + Len(chunk)]
  BY <1>1, <1>6 DEF Reading
<1>13. done <=> Finished(reader.offset + Len(chunk))
  BY DEF done
<1>14. ReadChunk(chunk, done)
  BY <1>3, <1>5, <1>11, <1>12, <1>13 DEF ReadChunk
<1> QED
  BY <1>5, <1>7, <1>14

\* What a pass begins with.
Begins(inodes, known) ==
    /\ reader' \in Reading
    /\ reader'.pc = "reading" /\ reader'.inodes = inodes /\ reader'.sealed = reader.sealed
    /\ reader'.at = (IF known THEN cursor.inode ELSE Min(inodes))
    /\ reader'.offset = (IF known THEN cursor.offset ELSE 0)
    /\ reader'.events = <<>>
    /\ inodes # {} /\ reader.sealed \subseteq sealed

\* List begins a pass at the cursor or at the first file, or gives up.
LEMMA ListStep ==
    ASSUME Typed, Newest, List
    PROVE  LET inodes == reader.sealed \cup Existing
               known == cursor # None /\ cursor.inode \in inodes
           IN  /\ reader \in Globbed /\ inodes \subseteq Inodes
               /\ reader' = Idle \/ Begins(inodes, known)
<1> DEFINE inodes == reader.sealed \cup Existing
           known == cursor # None /\ cursor.inode \in inodes
<1>1. reader \in Globbed /\ reader.sealed \in SUBSET Nat /\ reader.pc = "globbed"
  BY ReaderKinds DEF List, Globbed
<1>2. inodes \subseteq Inodes /\ inodes \in SUBSET Nat
  BY <1>1, FileFacts DEF Newest, Existing
<1>3. ASSUME reader' # Idle
      PROVE  Begins(inodes, known)
  <2>1. /\ inodes # {} /\ reader.sealed \subseteq sealed
        /\ reader' = [pc |-> "reading", inodes |-> inodes, sealed |-> reader.sealed,
                      at |-> IF known THEN cursor.inode ELSE Min(inodes),
                      offset |-> IF known THEN cursor.offset ELSE 0,
                      events |-> <<>>, cursor |-> cursor, budget |-> ReadLimit]
    BY <1>3 DEF List
  <2>2. Min(inodes) \in Nat
    BY <1>2, <2>1, MinIsLeast
  <2>3. known => cursor.inode \in Nat /\ cursor.offset \in Nat
    BY DEF Typed, CursorOrNone, Cursors
  <2>4. known \in BOOLEAN /\ <<>> \in Seq(Nat) /\ cursor \in CursorOrNone /\ ReadLimit \in Nat
    BY EmptySeq, SpoolAssumption DEF Typed
  <2> HIDE DEF inodes, known
  <2>5. reader' \in Reading
    BY <1>1, <1>2, <2>1, <2>2, <2>3, <2>4 DEF Reading
  <2> QED
    BY <2>1, <2>5 DEF Begins
<1> QED
  BY <1>1, <1>2, <1>3

-----------------------------------------------------------------------------
(* Types and files.                                                         *)

\* The steps of the data plane's writer and those of the console.
WriterSteps ==
    \/ \E rotate \in BOOLEAN : AppendRecord(rotate)
    \/ Write \/ ShortWrite \/ Acknowledge \/ WriterCrash
ReaderSteps ==
    Glob \/ List \/ ReadFile \/ ReadVanished \/ Commit \/ Unlink \/ ConsoleCrash

\* Every step is the writer's or the console's.
LEMMA StepKinds ==
    [Next]_vars => WriterSteps \/ ReaderSteps \/ UNCHANGED vars
  BY DEF Next, WriterSteps, ReaderSteps

\* Whatever is written, the files stay sequences of lines.
LEMMA FileTyped ==
    ASSUME Typed, Newest, WriterSteps
    PROVE  file' \in Seq(Contents) /\ active' \in Nat \cup {None}
<1>1. CASE Write
  <2>1. file' \in Seq(Contents) /\ Target \in Nat
    BY <1>1, WriteFacts, TargetWritten
  <2>2. active' = Target
    BY <1>1 DEF Write
  <2> QED
    BY <2>1, <2>2
<1>2. CASE ShortWrite
  <2>1. [Content EXCEPT !.fragment = TRUE] \in Contents
    BY ContentTyped DEF Contents
  <2>2. /\ file' = [f \in DOMAIN file \cup {Target} |->
             IF f = Target THEN [Content EXCEPT !.fragment = TRUE] ELSE file[f]]
        /\ active' = Target
    BY <1>2 DEF ShortWrite
  <2>3. file' \in Seq(Contents) /\ Target \in Nat
    BY <2>1, <2>2, TargetWritten
  <2> QED
    BY <2>2, <2>3
<1>3. CASE (\E rotate \in BOOLEAN : AppendRecord(rotate)) \/ Acknowledge \/ WriterCrash
  <2>1. file' = file /\ (active' = active \/ active' = None)
    BY <1>3 DEF AppendRecord, Acknowledge, WriterCrash
  <2> QED
    BY <2>1 DEF Typed
<1> QED
  BY <1>1, <1>2, <1>3 DEF WriterSteps

\* Every variable keeps a value of its kind.
LEMMA TypedStep ==
    ASSUME Typed, Newest, [Next]_vars
    PROVE  Typed'
<1>1. CASE WriterSteps
  <2>1. /\ wpc' \in {"idle", "appending", "written"} /\ appended' \in Nat
        /\ acked' \subseteq Nat /\ raced' \in BOOLEAN /\ torn' \in BOOLEAN
        /\ UNCHANGED rvars
    <3>1. ASSUME NEW rotate \in BOOLEAN, AppendRecord(rotate)
          PROVE  /\ wpc' \in {"idle", "appending", "written"} /\ appended' \in Nat
                 /\ acked' \subseteq Nat /\ raced' \in BOOLEAN /\ torn' \in BOOLEAN
                 /\ UNCHANGED rvars
      BY <3>1 DEF AppendRecord, Typed
    <3>2. CASE \E rotate \in BOOLEAN : AppendRecord(rotate)
      BY <3>1, <3>2
    <3>3. CASE Write \/ ShortWrite \/ WriterCrash
      BY <3>3 DEF Write, ShortWrite, WriterCrash, Typed, hvars
    <3>4. CASE Acknowledge
      BY <3>4 DEF Acknowledge, Typed, hvars
    <3> QED
      BY <1>1, <3>2, <3>3, <3>4 DEF WriterSteps
  <2>2. written' \in Seq(Nat)
    <3>1. Append(written, appended) \in Seq(Nat)
      BY AppendProperties DEF Typed
    <3> QED
      BY <1>1, <3>1 DEF WriterSteps, AppendRecord, Write, ShortWrite, Acknowledge,
         WriterCrash, Typed
  <2> QED
    BY <1>1, <2>1, <2>2, FileTyped DEF Typed, rvars
<1>2. CASE ReaderSteps
  <2>1. UNCHANGED <<wvars, raced, torn>>
    BY <1>2 DEF ReaderSteps, Glob, List, ReadFile, ReadVanished, Commit, Unlink,
       ConsoleCrash, hvars
  <2>2. reader' \in {Idle} \cup Globbed \cup Reading
    <3>1. CASE Glob
      <4>1. sealed \in SUBSET Nat
        BY FileFacts DEF Newest
      <4>2. reader' \in Globbed
        BY <3>1, <4>1 DEF Glob, Globbed
      <4> QED
        BY <4>2
    <3>2. CASE List
      BY <3>2, ListStep DEF Begins
    <3>3. CASE ReadFile
      BY <3>3, ReadStep DEF ReadChunk
    <3>4. CASE ReadVanished \/ Commit \/ ConsoleCrash
      BY <3>4 DEF ReadVanished, Commit, ConsoleCrash
    <3>5. CASE Unlink
      BY <3>5 DEF Unlink, Typed
    <3> QED
      BY <1>2, <3>1, <3>2, <3>3, <3>4, <3>5 DEF ReaderSteps
  <2>3. cursor' \in CursorOrNone /\ imported' \in Seq(Nat)
    <3>1. CASE Commit
      <4>1. reader \in Reading
        BY <3>1, ReaderKinds DEF Commit, InPass
      <4>2. reader.cursor \in CursorOrNone /\ reader.events \in Seq(Nat)
        BY <4>1 DEF Reading
      <4>3. imported \o reader.events \in Seq(Nat)
        BY <4>2, ConcatProperties DEF Typed
      <4> QED
        BY <3>1, <4>2, <4>3 DEF Commit, Typed
    <3>2. CASE UNCHANGED <<cursor, imported>>
      BY <3>2 DEF Typed
    <3> QED
      BY <1>2, <3>1, <3>2 DEF ReaderSteps, Glob, List, ReadFile, ReadVanished, Unlink,
         ConsoleCrash
  <2>4. doomed' \subseteq Nat
    <3>1. CASE Commit
      <4>1. reader \in Reading
        BY <3>1, ReaderKinds DEF Commit, InPass
      <4>2. Drained \subseteq Nat
        BY <4>1 DEF Reading, Drained
      <4> QED
        BY <3>1, <4>2 DEF Commit, Typed
    <3>2. CASE doomed' \subseteq doomed
      BY <3>2 DEF Typed
    <3> QED
      BY <1>2, <3>1, <3>2 DEF ReaderSteps, Glob, List, ReadFile, ReadVanished, Unlink,
         ConsoleCrash
  <2> QED
    BY <2>1, <2>2, <2>3, <2>4 DEF Typed, wvars
<1>3. CASE UNCHANGED vars
  BY <1>3 DEF Typed, vars
<1> QED
  BY <1>1, <1>2, <1>3, StepKinds

\* A rotation seals the newest file, and only a new file becomes active.
LEMMA NewestStep ==
    ASSUME Typed, Newest, [Next]_vars
    PROVE  Newest'
<1> USE DEF InPass
<1>1. CASE Write \/ ShortWrite
  <2>1. /\ Target \in Nat /\ Len(file') = Target /\ Inodes \subseteq Inodes'
        /\ active = None => Target = Len(file) + 1
        /\ active # None => Target = active
        /\ Target \in Inodes'
    <3>1. CASE Write
      BY <3>1, WriteFacts, TargetWritten
    <3>2. CASE ShortWrite
      <4>1. [Content EXCEPT !.fragment = TRUE] \in Contents
        BY ContentTyped DEF Contents
      <4>2. file' = [f \in DOMAIN file \cup {Target} |->
               IF f = Target THEN [Content EXCEPT !.fragment = TRUE] ELSE file[f]]
        BY <3>2 DEF ShortWrite
      <4> QED
        BY <4>1, <4>2, TargetWritten
    <3> QED
      BY <1>1, <3>1, <3>2
  <2>2. active' = Target /\ UNCHANGED <<sealed, reader>>
    BY <1>1 DEF Write, ShortWrite, rvars
  <2>3. Len(file) \in Nat /\ (active = None => Target \notin Inodes)
    BY <2>1, FileFacts DEF Inodes
  <2> QED
    BY <2>1, <2>2, <2>3 DEF Newest
<1>2. ASSUME NEW rotate \in BOOLEAN, AppendRecord(rotate)
      PROVE  Newest'
  <2>1. /\ UNCHANGED <<file, reader>>
        /\ rotate => active # None
        /\ IF rotate THEN sealed' = sealed \cup {active} /\ active' = None
           ELSE UNCHANGED <<sealed, active>>
    BY <1>2 DEF AppendRecord, rvars
  <2>2. None \notin Inodes
    BY AbsentAssumption, FileFacts
  <2>3. reader.pc # "idle" => None \notin reader.sealed
    BY <2>2 DEF Newest
  <2>4. CASE rotate
    <3>1. active # None /\ sealed' = sealed \cup {active} /\ active' = None /\ Inodes' = Inodes
      BY <2>1, <2>4 DEF Inodes
    <3>2. sealed' \subseteq Inodes' /\ active' \notin sealed'
      BY <2>2, <3>1 DEF Newest
    <3> QED
      BY <2>1, <2>3, <3>1, <3>2 DEF Newest
  <2>5. CASE ~rotate
    <3>1. UNCHANGED <<file, reader, sealed, active>>
      BY <2>1, <2>5
    <3> QED
      BY <3>1 DEF Newest, Inodes
  <2> QED
    BY <2>4, <2>5
<1>3. CASE Acknowledge \/ WriterCrash \/ UNCHANGED vars
  BY <1>3 DEF Acknowledge, WriterCrash, rvars, vars, Newest, Inodes
<1>4. CASE ReaderSteps
  <2>1. UNCHANGED <<file, active>>
    BY <1>4 DEF ReaderSteps, Glob, List, ReadFile, ReadVanished, Commit, Unlink,
       ConsoleCrash, wvars
  <2>2. CASE Glob
    <3>1. reader' = [pc |-> "globbed", sealed |-> sealed] /\ UNCHANGED sealed
      BY <2>2 DEF Glob
    <3> QED
      BY <2>1, <3>1 DEF Newest, Inodes
  <2>3. CASE List
    BY <2>1, <2>3, ListStep, ReaderKinds DEF List, Begins, Newest, Inodes
  <2>4. CASE ReadFile
    BY <2>1, <2>4, ReadStep DEF ReadFile, ReadChunk, Newest, Inodes
  <2>5. CASE ReadVanished \/ Commit \/ ConsoleCrash
    BY <2>1, <2>5, ReaderKinds DEF ReadVanished, Commit, ConsoleCrash, Newest, Inodes
  <2>6. CASE Unlink
    BY <2>1, <2>6 DEF Unlink, Newest, Inodes
  <2> QED
    BY <1>4, <2>2, <2>3, <2>4, <2>5, <2>6 DEF ReaderSteps
<1> QED
  BY <1>1, <1>2, <1>3, <1>4, StepKinds DEF WriterSteps

-----------------------------------------------------------------------------
(* Nothing is imported but what was written.                                *)

\* The members of a sequence, of a concatenation and of an appended sequence.
LEMMA ToSetFacts ==
    /\ \A s, x : s \in Seq(Nat) => (x \in ToSet(s) <=> \E i \in 1 .. Len(s) : s[i] = x)
    /\ ToSet(<<>>) = {}
    /\ \A s, t : s \in Seq(Nat) /\ t \in Seq(Nat) => ToSet(s \o t) = ToSet(s) \cup ToSet(t)
    /\ \A s, x : s \in Seq(Nat) /\ x \in Nat => ToSet(Append(s, x)) = ToSet(s) \cup {x}
<1>1. \A s, x : s \in Seq(Nat) => (x \in ToSet(s) <=> \E i \in 1 .. Len(s) : s[i] = x)
  BY LenProperties DEF ToSet
<1>2. ToSet(<<>>) = {}
  BY DEF ToSet
<1>3. ASSUME NEW s \in Seq(Nat), NEW t \in Seq(Nat)
      PROVE  ToSet(s \o t) = ToSet(s) \cup ToSet(t)
  <2>1. /\ s \o t \in Seq(Nat) /\ Len(s \o t) = Len(s) + Len(t)
        /\ \A i \in 1 .. Len(s) + Len(t) :
             (s \o t)[i] = IF i <= Len(s) THEN s[i] ELSE t[i - Len(s)]
        /\ Len(s) \in Nat /\ Len(t) \in Nat
    BY ConcatProperties, LenProperties
  <2> DEFINE u == s \o t
  <2> HIDE DEF u
  <2>2. ASSUME NEW x \in ToSet(u) PROVE x \in ToSet(s) \cup ToSet(t)
    <3>1. PICK i \in 1 .. Len(s) + Len(t) : u[i] = x
      BY <1>1, <2>1 DEF u
    <3>2. CASE i <= Len(s)
      BY <1>1, <2>1, <3>1, <3>2 DEF u
    <3>3. CASE ~(i <= Len(s))
      <4>1. i - Len(s) \in 1 .. Len(t) /\ t[i - Len(s)] = x
        BY <2>1, <3>1, <3>3 DEF u
      <4> QED
        BY <1>1, <4>1
    <3> QED
      BY <3>2, <3>3
  <2>3. ASSUME NEW x \in ToSet(s) PROVE x \in ToSet(u)
    <3>1. PICK i \in 1 .. Len(s) : s[i] = x
      BY <1>1
    <3>2. i \in 1 .. Len(u) /\ u[i] = x
      BY <2>1, <3>1 DEF u
    <3> QED
      BY <1>1, <2>1, <3>2 DEF u
  <2>4. ASSUME NEW x \in ToSet(t) PROVE x \in ToSet(u)
    <3>1. PICK i \in 1 .. Len(t) : t[i] = x
      BY <1>1
    <3>2. Len(s) + i \in 1 .. Len(u) /\ u[Len(s) + i] = x
      BY <2>1, <3>1 DEF u
    <3> QED
      BY <1>1, <2>1, <3>2 DEF u
  <2> QED
    BY <2>2, <2>3, <2>4 DEF u
<1>4. ASSUME NEW s \in Seq(Nat), NEW x \in Nat
      PROVE  ToSet(Append(s, x)) = ToSet(s) \cup {x}
  <2> DEFINE t == Append(s, x)
  <2>1. /\ t \in Seq(Nat) /\ Len(t) = Len(s) + 1 /\ Len(s) \in Nat
        /\ \A i \in 1 .. Len(s) : t[i] = s[i]
        /\ t[Len(s) + 1] = x
    BY AppendProperties, LenProperties
  <2> HIDE DEF t
  <2>2. ASSUME NEW y \in ToSet(t) PROVE y \in ToSet(s) \cup {x}
    <3>1. PICK i \in 1 .. Len(s) + 1 : t[i] = y
      BY <1>1, <2>1
    <3>2. i = Len(s) + 1 \/ i \in 1 .. Len(s)
      BY <2>1
    <3> QED
      BY <1>1, <2>1, <3>1, <3>2
  <2>3. ASSUME NEW y \in ToSet(s) \cup {x} PROVE y \in ToSet(t)
    <3>1. CASE y = x
      <4>1. Len(s) + 1 \in 1 .. Len(t)
        BY <2>1
      <4> QED
        BY <1>1, <2>1, <3>1, <4>1
    <3>2. CASE y # x
      <4>1. PICK i \in 1 .. Len(s) : s[i] = y
        BY <1>1, <2>3, <3>2
      <4>2. i \in 1 .. Len(t) /\ t[i] = y
        BY <2>1, <4>1
      <4> QED
        BY <1>1, <2>1, <4>2
    <3> QED
      BY <3>1, <3>2
  <2> QED
    BY <2>2, <2>3 DEF t
<1> QED
  BY <1>1, <1>2, <1>3, <1>4

\* A file's lines either were there or are the record just written.
LEMMA GenuineLines ==
    ASSUME Typed, Newest, Genuine, WriterSteps
    PROVE  /\ ToSet(written) \subseteq ToSet(written')
           /\ \A f \in Inodes' : \A i \in 1 .. Len(file'[f].lines) :
                file'[f].lines[i] # Bad => file'[f].lines[i] \in ToSet(written')
<1>1. CASE Write
  <2>1. PICK line \in Lines :
          /\ line = (IF Content.fragment THEN Bad ELSE appended)
          /\ [lines |-> Append(Content.lines, line), fragment |-> FALSE] \in Contents
          /\ file' = [f \in DOMAIN file \cup {Target} |->
                        IF f = Target
                        THEN [lines |-> Append(Content.lines, line), fragment |-> FALSE]
                        ELSE file[f]]
    BY <1>1, WriteFacts
  <2>2. written' = IF Content.fragment THEN written ELSE Append(written, appended)
    BY <1>1 DEF Write
  <2>3. /\ ToSet(written) \subseteq ToSet(written')
        /\ line # Bad => line \in ToSet(written')
    <3>1. written \in Seq(Nat) /\ appended \in Nat
      BY DEF Typed
    <3>2. ToSet(Append(written, appended)) = ToSet(written) \cup {appended}
      BY <3>1, ToSetFacts
    <3> QED
      BY <2>1, <2>2, <3>2
  <2>4. /\ Inodes' \subseteq Inodes \cup {Target}
        /\ file'[Target] = [lines |-> Append(Content.lines, line), fragment |-> FALSE]
        /\ \A f \in Inodes : f # Target => file'[f] = file[f]
    BY <2>1, TargetWritten
  <2>5. /\ Len(Append(Content.lines, line)) = Len(Content.lines) + 1
        /\ \A i \in 1 .. Len(Content.lines) : Append(Content.lines, line)[i] = Content.lines[i]
        /\ Append(Content.lines, line)[Len(Content.lines) + 1] = line
        /\ Len(Content.lines) \in Nat
    BY ContentTyped, AppendProperties
  <2>6. \A i \in 1 .. Len(Content.lines) :
          Content.lines[i] # Bad => Content.lines[i] \in ToSet(written)
    <3>1. CASE active = None
      <4>1. Len(Content.lines) = 0
        BY <3>1, ContentTyped
      <4> QED
        BY <4>1
    <3>2. CASE active # None
      BY <3>2, ContentTyped DEF Newest, Genuine
    <3> QED
      BY <3>1, <3>2
  <2>7. \A i \in 1 .. Len(file'[Target].lines) :
          file'[Target].lines[i] # Bad => file'[Target].lines[i] \in ToSet(written')
    <3> DEFINE ls == Append(Content.lines, line)
    <3>1. file'[Target].lines = ls
      BY <2>4
    <3> HIDE DEF ls
    <3>2. ASSUME NEW i \in 1 .. Len(ls), ls[i] # Bad
          PROVE  ls[i] \in ToSet(written')
      <4>1. CASE i = Len(Content.lines) + 1
        BY <2>3, <2>5, <3>2, <4>1 DEF ls
      <4>2. CASE i # Len(Content.lines) + 1
        <5>1. i \in 1 .. Len(Content.lines) /\ ls[i] = Content.lines[i]
          BY <2>5, <3>2, <4>2 DEF ls
        <5> QED
          BY <2>3, <2>6, <3>2, <5>1
      <4> QED
        BY <4>1, <4>2
    <3> QED
      BY <3>1, <3>2
  <2> QED
    BY <2>3, <2>4, <2>7 DEF Genuine
<1>2. CASE ShortWrite
  <2>1. [Content EXCEPT !.fragment = TRUE] \in Contents
    BY ContentTyped DEF Contents
  <2>2. /\ file' = [f \in DOMAIN file \cup {Target} |->
             IF f = Target THEN [Content EXCEPT !.fragment = TRUE] ELSE file[f]]
        /\ written' = written
    BY <1>2 DEF ShortWrite
  <2>3. /\ Inodes' \subseteq Inodes \cup {Target}
        /\ file'[Target] = [Content EXCEPT !.fragment = TRUE]
        /\ \A f \in Inodes : f # Target => file'[f] = file[f]
    BY <2>1, <2>2, TargetWritten
  <2>4. file'[Target].lines = Content.lines
    BY <2>3, ContentTyped DEF Contents
  <2>5. \A i \in 1 .. Len(file'[Target].lines) :
          file'[Target].lines[i] # Bad => file'[Target].lines[i] \in ToSet(written)
    <3>1. CASE active = None
      <4>1. Len(file'[Target].lines) = 0
        BY <2>4, <3>1, ContentTyped
      <4> QED
        BY <4>1
    <3>2. CASE active # None
      <4>1. file'[Target].lines = file[Target].lines /\ Target \in Inodes
        BY <2>4, <3>2, ContentTyped DEF Target, Newest
      <4> QED
        BY <4>1 DEF Genuine
    <3> QED
      BY <3>1, <3>2
  <2>6. \A f \in Inodes : f # Target => file'[f].lines = file[f].lines
    BY <2>3
  <2>7. ASSUME NEW f \in Inodes', NEW i \in 1 .. Len(file'[f].lines),
               file'[f].lines[i] # Bad
        PROVE  file'[f].lines[i] \in ToSet(written)
    <3>1. CASE f = Target
      BY <2>5, <2>7, <3>1
    <3>2. CASE f # Target
      BY <2>3, <2>6, <2>7, <3>2 DEF Genuine
    <3> QED
      BY <3>1, <3>2
  <2> QED
    BY <2>2, <2>7
<1>3. CASE (\E rotate \in BOOLEAN : AppendRecord(rotate)) \/ Acknowledge \/ WriterCrash
  BY <1>3 DEF AppendRecord, Acknowledge, WriterCrash, Genuine, Inodes
<1> QED
  BY <1>1, <1>2, <1>3 DEF WriterSteps

\* What a pass reads and imports is on a line that parses.
LEMMA GenuineStep ==
    ASSUME Typed, Newest, Genuine, [Next]_vars
    PROVE  Genuine'
<1>1. CASE WriterSteps
  <2>1. UNCHANGED <<imported, reader>>
    BY <1>1 DEF WriterSteps, AppendRecord, Write, ShortWrite, Acknowledge, WriterCrash,
       rvars
  <2> QED
    BY <1>1, <2>1, GenuineLines DEF Genuine, InPass
<1>2. CASE ReaderSteps
  <2>1. UNCHANGED <<file, written>>
    BY <1>2 DEF ReaderSteps, Glob, List, ReadFile, ReadVanished, Commit, Unlink,
       ConsoleCrash, wvars
  <2>2. ToSet(imported') \subseteq ToSet(written)
    <3>1. CASE Commit
      <4>1. InPass /\ reader.events \in Seq(Nat)
        BY <3>1, ReaderKinds DEF Commit, InPass, Reading
      <4>2. ToSet(imported \o reader.events) \subseteq ToSet(written)
        BY <4>1, ToSetFacts DEF Genuine, Typed
      <4> QED
        BY <3>1, <4>2 DEF Commit, Genuine
    <3>2. CASE imported' = imported
      BY <3>2 DEF Genuine
    <3> QED
      BY <1>2, <3>1, <3>2 DEF ReaderSteps, Glob, List, ReadFile, ReadVanished, Unlink,
         ConsoleCrash
  <2>3. InPass' => ToSet(reader'.events) \subseteq ToSet(written)
    <3>1. CASE Glob
      <4>1. reader'.pc = "globbed"
        BY <3>1 DEF Glob
      <4> QED
        BY <4>1 DEF InPass
    <3>2. CASE List
      BY <3>2, ListStep, ReaderKinds, ToSetFacts DEF Begins, InPass
    <3>3. CASE ReadFile
      <4>1. PICK chunk \in Seq(Lines), done \in BOOLEAN : ReadChunk(chunk, done)
        BY <3>3, ReadStep
      <4>2. InPass /\ reader.events \in Seq(Nat)
        BY <3>3, ReaderKinds DEF ReadFile, InPass, Reading
      <4>3. Parsed(chunk) \in Seq(Nat)
        BY ParsedLines
      <4>4. ToSet(Parsed(chunk)) \subseteq ToSet(written)
        <5>1. SUFFICES ASSUME NEW i \in 1 .. Len(Parsed(chunk))
                       PROVE  Parsed(chunk)[i] \in ToSet(written)
          BY <4>3, ToSetFacts
        <5>2. PICK j \in 1 .. Len(chunk) : chunk[j] # Bad /\ Parsed(chunk)[i] = chunk[j]
          BY ParsedLines
        <5> QED
          BY <4>1, <5>2 DEF ReadChunk, Genuine
      <4>5. reader'.events = reader.events \o Parsed(chunk)
        BY <4>1 DEF ReadChunk
      <4> QED
        BY <4>2, <4>3, <4>4, <4>5, ToSetFacts DEF Genuine
    <3>4. CASE ReadVanished \/ Commit \/ ConsoleCrash
      BY <3>4, ReaderKinds DEF ReadVanished, Commit, ConsoleCrash, InPass
    <3>5. CASE Unlink
      BY <3>5 DEF Unlink, Genuine, InPass
    <3> QED
      BY <1>2, <3>1, <3>2, <3>3, <3>4, <3>5 DEF ReaderSteps
  <2> QED
    BY <2>1, <2>2, <2>3 DEF Genuine, Inodes
<1>3. CASE UNCHANGED vars
  BY <1>3 DEF vars, Genuine, InPass, Inodes
<1> QED
  BY <1>1, <1>2, <1>3, StepKinds

-----------------------------------------------------------------------------
(* Order: the writer's steps.                                               *)

\* The layout is about the files and the written records only.
LEMMA LayoutSame ==
    ASSUME NEW base, Layout(base), UNCHANGED <<file, written>>
    PROVE  Layout(base)'
  BY DEF Layout, Inodes

\* The record goes after the last one, in the last file.
LEMMA LayoutWrite ==
    ASSUME Typed, Newest, Write, NEW base, Layout(base)
    PROVE  \E new :
             /\ Layout(new)' /\ \A f \in Inodes : new[f] = base[f]
             /\ Inodes \subseteq Inodes'
             /\ \A f \in Inodes : Len(file[f].lines) <= Len(file'[f].lines)
             /\ written' = Append(written, appended)
<1>1. ~Content.fragment
  BY ContentTyped DEF Layout, Newest
<1>2. PICK line \in Lines :
        /\ line = (IF Content.fragment THEN Bad ELSE appended)
        /\ [lines |-> Append(Content.lines, line), fragment |-> FALSE] \in Contents
        /\ file' = [f \in DOMAIN file \cup {Target} |->
                      IF f = Target
                      THEN [lines |-> Append(Content.lines, line), fragment |-> FALSE]
                      ELSE file[f]]
  BY WriteFacts
<1>3. line = appended /\ written' = Append(written, appended)
  BY <1>1, <1>2 DEF Write
<1> DEFINE T == Target n == Len(file) L == Len(written) m == Len(Content.lines)
           ls == Append(Content.lines, line)
<1>4. /\ T \in Nat /\ n \in Nat /\ L \in Nat /\ m \in Nat /\ Len(file') = T
      /\ Inodes = 1 .. n /\ Inodes' = 1 .. T
      /\ T = n + 1 \/ (T = n /\ n >= 1)
  <2>1. /\ Target \in Nat /\ Len(file') = Target
        /\ active = None => Target = Len(file) + 1
        /\ active # None => Target = Len(file) /\ Target \in Inodes
    BY <1>2, TargetWritten
  <2>2. Len(file) \in Nat /\ Len(written) \in Nat /\ Len(Content.lines) \in Nat
    BY FileFacts, ContentTyped, LenProperties DEF Typed
  <2>3. Inodes = 1 .. Len(file) /\ Inodes' = 1 .. Target
    BY <2>1 DEF Inodes
  <2>4. Target \in Inodes => Len(file) >= 1
    BY <2>2, <2>3
  <2> QED
    BY <2>1, <2>2, <2>3, <2>4
<1>5. /\ file'[T] = [lines |-> ls, fragment |-> FALSE]
      /\ \A f \in Inodes : f # T => file'[f] = file[f]
  BY <1>2, TargetWritten
<1>6. /\ Len(ls) = m + 1 /\ ls[m + 1] = appended
      /\ \A i \in 1 .. m : ls[i] = Content.lines[i]
  BY <1>3, ContentTyped, AppendProperties
<1>7. /\ Len(written') = L + 1 /\ written'[L + 1] = appended
      /\ \A i \in 1 .. L : written'[i] = written[i]
  BY <1>3, AppendProperties DEF Typed
<1>8. /\ \A f \in 1 .. n + 1 : base[f] \in Nat /\ base[f] <= L
      /\ base[1] = 0 /\ base[n + 1] = L
  <2>1. base \in [1 .. n + 1 -> Nat] /\ base[n + 1] = L /\ base[1] = 0
        /\ \A f, g \in 1 .. n + 1 : f <= g => base[f] <= base[g]
    BY DEF Layout
  <2>2. n + 1 \in 1 .. n + 1 /\ \A f \in 1 .. n + 1 : f <= n + 1
    BY <1>4
  <2> QED
    BY <2>1, <2>2
<1>9. /\ base[T] + m = L
      /\ \A i \in 1 .. m : Content.lines[i] = written[base[T] + i]
  <2>1. CASE active = None
    <3>1. T = n + 1 /\ m = 0
      BY <1>2, <2>1, TargetWritten, ContentTyped
    <3> QED
      BY <1>4, <1>8, <3>1
  <2>2. CASE active # None
    <3>1. T = n /\ T \in Inodes /\ Content = file[T]
      BY <1>2, <2>2, TargetWritten, ContentTyped
    <3>2. /\ base[T + 1] = base[T] + Len(file[T].lines)
          /\ \A i \in 1 .. Len(file[T].lines) : file[T].lines[i] = written[base[T] + i]
      BY <3>1 DEF Layout
    <3> QED
      BY <1>8, <3>1, <3>2
  <2> QED
    BY <2>1, <2>2
<1>10. /\ \A f, g \in 1 .. n + 1 : f <= g => base[f] <= base[g]
       /\ \A k \in 1 .. L : \E f \in 1 .. n : base[f] < k /\ k <= base[f + 1]
       /\ \A f \in 1 .. n :
            /\ ~file[f].fragment
            /\ base[f + 1] = base[f] + Len(file[f].lines)
            /\ \A i \in 1 .. Len(file[f].lines) : file[f].lines[i] = written[base[f] + i]
            /\ Len(file[f].lines) \in Nat
  BY <1>4, FileFacts DEF Layout
<1>11. \A f \in Inodes : f = T => Len(file[f].lines) = m
  <2>1. SUFFICES ASSUME T \in Inodes PROVE Len(file[T].lines) = m
    OBVIOUS
  <2>2. active # None
    <3>1. active = None => T = n + 1
      BY <1>2, TargetWritten
    <3>2. n + 1 \notin 1 .. n
      BY <1>4
    <3> QED
      BY <1>4, <2>1, <3>1, <3>2
  <2>3. Content = file[T]
    BY <1>2, <2>2, TargetWritten, ContentTyped
  <2> QED
    BY <2>3
<1> HIDE DEF T, n, L, m, ls
<1> DEFINE new == [f \in 1 .. T + 1 |-> IF f = T + 1 THEN L + 1 ELSE base[f]]
<1>12. /\ T + 1 \in 1 .. T + 1 /\ new[T + 1] = L + 1
       /\ \A f \in 1 .. T : f \in 1 .. n + 1 /\ new[f] = base[f]
       /\ \A f \in 1 .. T + 1 : f = T + 1 \/ f \in 1 .. T
       /\ T \in 1 .. T /\ T + 1 \in Nat /\ base[T] \in Nat
  BY <1>4, <1>8
<1>13. new \in [1 .. T + 1 -> Nat]
  BY <1>4, <1>8, <1>12
<1> HIDE DEF new
<1>14. new[1] = 0
  BY <1>4, <1>8, <1>12
<1>15. ASSUME NEW f \in 1 .. T
       PROVE  /\ ~file'[f].fragment
              /\ new[f + 1] = new[f] + Len(file'[f].lines)
              /\ \A i \in 1 .. Len(file'[f].lines) : file'[f].lines[i] = written'[new[f] + i]
  <2>1. CASE f = T
    <3>1. file'[f].lines = ls /\ ~file'[f].fragment
      BY <1>5, <2>1
    <3>2. new[f + 1] = new[f] + Len(ls)
      <4>1. new[f + 1] = L + 1 /\ new[f] = base[T] /\ Len(ls) = m + 1 /\ base[T] + m = L
        BY <1>6, <1>9, <1>12, <2>1
      <4>2. base[T] + (m + 1) = L + 1
        BY <1>4, <1>12, <4>1
      <4> QED
        BY <4>1, <4>2
    <3>3. ASSUME NEW i \in 1 .. m + 1
          PROVE  ls[i] = written'[new[f] + i]
      <4>1. CASE i = m + 1
        <5>1. new[f] + i = L + 1
          <6>1. new[f] = base[T] /\ base[T] + m = L
            BY <1>9, <1>12, <2>1
          <6>2. base[T] + (m + 1) = L + 1
            BY <1>4, <1>12, <6>1
          <6> QED
            BY <4>1, <6>1, <6>2
        <5> QED
          BY <1>6, <1>7, <4>1, <5>1
      <4>2. CASE i # m + 1
        <5>1. i \in 1 .. m /\ new[f] + i = base[T] + i /\ base[T] + i \in 1 .. L
          <6>1. new[f] = base[T] /\ base[T] + m = L /\ i \in 1 .. m
            BY <1>4, <1>9, <1>12, <2>1, <4>2
          <6>2. base[T] + i \in 1 .. L
            BY <1>4, <1>12, <6>1
          <6> QED
            BY <6>1, <6>2
        <5> QED
          BY <1>6, <1>7, <1>9, <5>1
      <4> QED
        BY <4>1, <4>2
    <3> QED
      BY <1>6, <3>1, <3>2, <3>3
  <2>2. CASE f # T
    <3>1. f \in 1 .. n /\ f + 1 \in 1 .. T /\ f + 1 \in 1 .. n + 1
      BY <1>4, <1>12, <2>2
    <3>2. file'[f] = file[f]
      BY <1>4, <1>5, <2>2, <3>1
    <3>3. new[f + 1] = base[f + 1] /\ new[f] = base[f]
      BY <1>12, <3>1
    <3>4. ASSUME NEW i \in 1 .. Len(file[f].lines)
          PROVE  file[f].lines[i] = written'[base[f] + i]
      <4>1. base[f] + i \in 1 .. L
        <5>1. /\ base[f] \in Nat /\ base[f + 1] \in Nat /\ base[f + 1] <= L
              /\ base[f + 1] = base[f] + Len(file[f].lines)
              /\ Len(file[f].lines) \in Nat
          <6>1. f \in 1 .. n + 1
            BY <1>4, <3>1
          <6> QED
            BY <1>8, <1>10, <3>1, <6>1
        <5> DEFINE b == base[f] c == base[f + 1] l == Len(file[f].lines)
        <5>2. b \in Nat /\ l \in Nat /\ c = b + l /\ c <= L /\ i \in 1 .. l
          BY <5>1
        <5> HIDE DEF b, c, l
        <5>3. b + i \in 1 .. L
          BY <1>4, <5>2
        <5> QED
          BY <5>3 DEF b
      <4> QED
        BY <1>7, <1>10, <3>1, <4>1
    <3> QED
      BY <1>10, <3>1, <3>2, <3>3, <3>4
  <2> QED
    BY <2>1, <2>2
<1>16. ASSUME NEW f \in 1 .. T + 1, NEW g \in 1 .. T + 1, f <= g
       PROVE  new[f] <= new[g]
  <2>1. CASE g = T + 1
    BY <1>4, <1>8, <1>12, <2>1
  <2>2. CASE g # T + 1
    <3>1. f \in 1 .. T /\ g \in 1 .. T
      BY <1>4, <1>16, <2>2
    <3> QED
      BY <1>10, <1>12, <1>16, <3>1
  <2> QED
    BY <2>1, <2>2
<1>17. ASSUME NEW k \in 1 .. L + 1
       PROVE  \E f \in 1 .. T : new[f] < k /\ k <= new[f + 1]
  <2>1. CASE k = L + 1
    BY <1>4, <1>8, <1>12, <2>1
  <2>2. CASE k # L + 1
    <3>1. k \in 1 .. L
      BY <1>4, <2>2
    <3>2. PICK f \in 1 .. n : base[f] < k /\ k <= base[f + 1]
      BY <1>10, <3>1
    <3>3. CASE f = T
      BY <1>4, <1>12, <3>1, <3>2, <3>3
    <3>4. CASE f # T
      <4>1. f \in 1 .. T /\ f + 1 \in 1 .. T
        BY <1>4, <3>4
      <4> QED
        BY <1>12, <3>2, <4>1
    <3> QED
      BY <3>3, <3>4
  <2> QED
    BY <2>1, <2>2
<1>18. ASSUME NEW b, b = new
       PROVE  Layout(b)'
  <2>1. Inodes' = 1 .. T /\ Len(file') = T /\ Len(written') = L + 1
    BY <1>4, <1>7
  <2>2. b \in [1 .. T + 1 -> Nat] /\ b[1] = 0 /\ b[T + 1] = L + 1
    BY <1>12, <1>13, <1>14, <1>18
  <2>3. \A f \in 1 .. T :
          /\ ~file'[f].fragment
          /\ b[f + 1] = b[f] + Len(file'[f].lines)
          /\ \A i \in 1 .. Len(file'[f].lines) : file'[f].lines[i] = written'[b[f] + i]
    BY <1>15, <1>18
  <2>4. \A f, g \in 1 .. T + 1 : f <= g => b[f] <= b[g]
    BY <1>16, <1>18
  <2>5. \A k \in 1 .. L + 1 : \E f \in 1 .. T : b[f] < k /\ k <= b[f + 1]
    BY <1>17, <1>18
  <2> QED
    BY <2>1, <2>2, <2>3, <2>4, <2>5 DEF Layout
<1>19. \A f \in Inodes : f \in 1 .. T /\ new[f] = base[f]
  BY <1>4, <1>12
<1>20. \A f \in Inodes : Len(file[f].lines) <= Len(file'[f].lines)
  BY <1>4, <1>5, <1>6, <1>10, <1>11
<1>21. Inodes \subseteq Inodes'
  BY <1>4
<1>22. PICK b : b = new
  OBVIOUS
<1>23. Layout(b)' /\ \A f \in Inodes : b[f] = base[f]
  BY <1>18, <1>19, <1>22
<1> QED
  BY <1>3, <1>20, <1>21, <1>23

\* A record added at the end disturbs no position before.
LEMMA OrderedWrite ==
    ASSUME Typed, Newest, Ordered, Write
    PROVE  Ordered'
<1>1. PICK base : Layout(base) /\ CursorAt(base) /\ PassAt(base)
  BY DEF Ordered
<1>2. PICK new :
        /\ Layout(new)' /\ \A f \in Inodes : new[f] = base[f]
        /\ Inodes \subseteq Inodes'
        /\ \A f \in Inodes : Len(file[f].lines) <= Len(file'[f].lines)
        /\ written' = Append(written, appended)
  BY <1>1, LayoutWrite
<1>3. UNCHANGED <<sealed, cursor, imported, reader, doomed, acked, appended>>
  BY DEF Write, rvars
<1>4. /\ Len(written) \in Nat /\ Len(written') = Len(written) + 1
      /\ written'[Len(written) + 1] = appended
      /\ \A i \in 1 .. Len(written) : written'[i] = written[i]
  BY <1>2, AppendProperties, LenProperties DEF Typed
<1>5. ASSUME NEW k, NEW s, k <= Len(written), \A i \in 1 .. k : s[i] = written[i],
             Len(s) = k, Len(s) \in Nat
      PROVE  k <= Len(written') /\ \A i \in 1 .. k : s[i] = written'[i]
  BY <1>4, <1>5
<1>6. \A f \in Inodes : Len(file[f].lines) \in Nat /\ Len(file'[f].lines) \in Nat
  <2>1. Typed'
    <3>1. [Next]_vars
      BY DEF Next
    <3> QED
      BY <3>1, TypedStep
  <2>2. \A f \in Inodes' : Len(file'[f].lines) \in Nat
    <3>1. Len(file') \in Nat /\ \A f \in 1 .. Len(file') : file'[f] \in Contents
      BY <2>1, LenProperties, ElementOfSeq DEF Typed
    <3>2. \A f \in 1 .. Len(file') : file'[f].lines \in Seq(Lines)
      BY <3>1 DEF Contents
    <3> QED
      BY <3>2, LenProperties DEF Inodes
  <2> QED
    BY <1>2, <2>2, FileFacts
<1>7. CursorAt(new)'
  <2>1. CASE cursor = None
    BY <1>1, <1>3, <2>1 DEF CursorAt
  <2>2. CASE cursor # None
    <3>1. /\ cursor.inode \in Inodes /\ cursor.offset <= Len(file[cursor.inode].lines)
          /\ First(imported, base[cursor.inode] + cursor.offset)
          /\ cursor.offset \in Nat
      BY <1>1, <2>2 DEF CursorAt, Typed, CursorOrNone, Cursors
    <3>2. cursor.offset <= Len(file'[cursor.inode].lines) /\ cursor.inode \in Inodes'
      BY <1>2, <1>6, <3>1
    <3>3. First(imported, base[cursor.inode] + cursor.offset)'
      <4>1. Len(imported) \in Nat
        BY LenProperties DEF Typed
      <4> QED
        BY <1>3, <1>5, <3>1, <4>1 DEF First
    <3> QED
      BY <1>2, <1>3, <2>2, <3>1, <3>2, <3>3 DEF CursorAt
  <2> QED
    BY <2>1, <2>2
<1>8. PassAt(new)'
  <2>1. CASE ~InPass
    BY <1>3, <2>1 DEF PassAt, InPass
  <2>2. CASE InPass
    <3>1. /\ reader.at \in Inodes /\ reader.offset <= Len(file[reader.at].lines)
          /\ First(imported \o reader.events, base[reader.at] + reader.offset)
          /\ reader.offset \in Nat /\ reader.events \in Seq(Nat)
      BY <1>1, <2>2, ReaderKinds DEF PassAt, Newest, Reading
    <3>2. reader.offset <= Len(file'[reader.at].lines)
      BY <1>2, <1>6, <3>1
    <3>3. First(imported \o reader.events, base[reader.at] + reader.offset)'
      <4>1. Len(imported \o reader.events) \in Nat
        BY <3>1, ConcatProperties, LenProperties DEF Typed
      <4> QED
        BY <1>3, <1>5, <3>1, <4>1 DEF First
    <3> QED
      BY <1>1, <1>2, <1>3, <2>2, <3>1, <3>2, <3>3 DEF PassAt, InPass
  <2> QED
    BY <2>1, <2>2
<1>9. /\ active' = Target /\ Target \in Inodes' /\ Inodes' \subseteq Inodes \cup {Target}
      /\ active # None => Target = active
      /\ Target # None
  <2>1. /\ Target \in Nat /\ Target \in Inodes' /\ Inodes' \subseteq Inodes \cup {Target}
        /\ active # None => Target = active
    BY WriteFacts, TargetWritten
  <2> QED
    BY <2>1, AbsentAssumption DEF Write
<1>10. Existing' = {Target} /\ Existing \subseteq Existing'
  BY <1>9 DEF Existing
<1>11. StillThere'
  BY <1>2, <1>3, <1>9, <1>10 DEF Ordered, StillThere, Present
<1>12. Listed'
  <2>1. active = None => Target = Len(file) + 1
    BY WriteFacts, TargetWritten
  <2>2. \A i \in Inodes : i <= Len(file) /\ i \in Nat /\ Len(file) \in Nat
    BY FileFacts DEF Inodes
  <2>3. ASSUME InPass, NEW f \in Inodes', NEW i \in reader.inodes,
               reader.at <= f, f <= i
        PROVE  f \in reader.inodes
    <3>1. i \in Inodes
      BY <2>3 DEF Newest
    <3>2. f \in Inodes
      <4>1. CASE active = None
        BY <1>9, <2>1, <2>2, <2>3, <3>1, <4>1
      <4>2. CASE active # None
        BY <1>9, <2>3, <4>2 DEF Newest
      <4> QED
        BY <4>1, <4>2
    <3> QED
      BY <2>3, <3>2 DEF Ordered, Listed
  <2> QED
    BY <1>3, <1>10, <2>3 DEF Ordered, Listed, InPass
<1>13. Answered'
  <2>1. ToSet(written') = ToSet(written) \cup {appended}
    BY <1>2, ToSetFacts DEF Typed
  <2> QED
    BY <1>3, <2>1 DEF Ordered, Answered
<1> QED
  BY <1>2, <1>7, <1>8, <1>11, <1>12, <1>13 DEF Ordered

\* A record that arrives seals the active file only between two passes.
LEMMA OrderedAppend ==
    ASSUME Typed, Newest, Ordered, NEW rotate \in BOOLEAN, AppendRecord(rotate), ~raced'
    PROVE  Ordered'
<1>1. PICK base : Layout(base) /\ CursorAt(base) /\ PassAt(base)
  BY DEF Ordered
<1>2. UNCHANGED <<file, written, acked, cursor, imported, reader, doomed>>
      /\ wpc' = "appending"
  BY DEF AppendRecord, rvars
<1>3. Layout(base)' /\ CursorAt(base)' /\ PassAt(base)'
  BY <1>1, <1>2, LayoutSame DEF CursorAt, PassAt, First, InPass, Inodes
<1>4. Answered'
  BY <1>2 DEF Answered, Ordered
<1>5. CASE rotate
  <2>1. reader.pc = "idle" /\ active # None /\ active' = None
        /\ sealed' = sealed \cup {active}
    BY <1>5 DEF AppendRecord
  <2>2. Present' = Present
    BY <2>1 DEF Present, Existing
  <2>3. StillThere'
    BY <1>2, <2>2 DEF Ordered, StillThere, Inodes
  <2>4. Listed'
    BY <1>2, <2>1 DEF Listed, InPass
  <2> QED
    BY <1>3, <1>4, <2>3, <2>4 DEF Ordered
<1>6. CASE ~rotate
  <2>1. UNCHANGED <<sealed, active>>
    BY <1>6 DEF AppendRecord
  <2>2. StillThere' /\ Listed'
    BY <1>2, <2>1 DEF Ordered, StillThere, Listed, InPass, Inodes, Present, Existing
  <2> QED
    BY <1>3, <1>4, <2>2 DEF Ordered
<1> QED
  BY <1>5, <1>6

\* What the writer answers is written; a crash forgets where it stood.
LEMMA OrderedQuiet ==
    ASSUME Ordered, Acknowledge \/ WriterCrash \/ UNCHANGED vars
    PROVE  Ordered'
<1>1. PICK base : Layout(base) /\ CursorAt(base) /\ PassAt(base)
  BY DEF Ordered
<1>2. UNCHANGED <<file, sealed, active, written, cursor, imported, reader, doomed>>
  BY DEF Acknowledge, WriterCrash, rvars, vars
<1>3. Layout(base)' /\ CursorAt(base)' /\ PassAt(base)'
  BY <1>1, <1>2, LayoutSame DEF CursorAt, PassAt, First, InPass, Inodes
<1>4. StillThere' /\ Listed'
  BY <1>2 DEF Ordered, StillThere, Listed, InPass, Inodes, Present, Existing
<1>5. Answered'
  <2>1. CASE Acknowledge
    BY <1>2, <2>1 DEF Acknowledge, Ordered, Answered
  <2>2. CASE WriterCrash \/ UNCHANGED vars
    BY <1>2, <2>2 DEF WriterCrash, vars, Ordered, Answered
  <2> QED
    BY <2>1, <2>2
<1> QED
  BY <1>3, <1>4, <1>5 DEF Ordered

-----------------------------------------------------------------------------
(* Order: the console's steps.                                              *)

\* The console leaves the writer's state alone.
LEMMA ReaderLeaves ==
    ASSUME ReaderSteps
    PROVE  UNCHANGED <<file, active, wpc, appended, written, acked, raced, torn>>
  BY DEF ReaderSteps, Glob, List, ReadFile, ReadVanished, Commit, Unlink, ConsoleCrash,
     wvars, hvars

\* The parts of Ordered that only the writer could disturb.
LEMMA OrderedKept ==
    ASSUME ReaderSteps, Ordered
    PROVE  Answered' /\ \A base : Layout(base) => Layout(base)'
<1>1. UNCHANGED <<file, active, wpc, appended, written, acked>>
  BY ReaderLeaves
<1>2. Answered'
  BY <1>1 DEF Ordered, Answered
<1> QED
  BY <1>1, <1>2, LayoutSame

\* A pass that has not begun or has ended holds nothing back.
LEMMA OrderedOutside ==
    ASSUME Typed, Newest, Ordered, Glob \/ ReadVanished \/ ConsoleCrash \/ Unlink
    PROVE  Ordered'
<1>1. PICK base : Layout(base) /\ CursorAt(base) /\ PassAt(base)
  BY DEF Ordered
<1>2. UNCHANGED <<file, active, written, cursor, imported>>
  BY DEF Glob, ReadVanished, ConsoleCrash, Unlink, wvars
<1>3. Layout(base)' /\ CursorAt(base)' /\ Answered'
  <2>1. ReaderSteps
    BY DEF ReaderSteps
  <2> QED
    BY <1>1, <1>2, <2>1, OrderedKept DEF CursorAt, First, Inodes
<1>4. PassAt(base)' /\ Listed'
  <2>1. CASE Glob
    <3>1. reader'.pc = "globbed" /\ reader'.sealed = sealed /\ sealed' = sealed
      BY <2>1 DEF Glob
    <3> QED
      BY <3>1 DEF PassAt, Listed, InPass
  <2>2. CASE ReadVanished \/ ConsoleCrash
    <3>1. reader'.pc = "idle"
      BY <2>2 DEF ReadVanished, ConsoleCrash, Idle
    <3> QED
      BY <3>1 DEF PassAt, Listed, InPass
  <2>3. CASE Unlink
    <3>1. reader' = reader /\ sealed' \subseteq sealed
      BY <2>3 DEF Unlink
    <3>2. PassAt(base)'
      BY <1>1, <1>2, <3>1 DEF PassAt, First, InPass
    <3>3. Listed'
      BY <1>2, <3>1 DEF Ordered, Listed, InPass, Existing, Inodes
    <3> QED
      BY <3>2, <3>3
  <2> QED
    BY <2>1, <2>2, <2>3
<1>5. StillThere'
  <2>1. CASE Glob \/ ReadVanished \/ ConsoleCrash
    <3>1. sealed' = sealed /\ doomed' \subseteq doomed
      BY <2>1 DEF Glob, ReadVanished, ConsoleCrash
    <3> QED
      BY <1>2, <3>1 DEF Ordered, StillThere, Present, Existing, Inodes
  <2>2. CASE Unlink
    <3>1. PICK f \in doomed : sealed' = sealed \ {f} /\ doomed' = doomed \ {f}
      BY <2>2 DEF Unlink
    <3>2. cursor # None /\ f < cursor.inode
      BY <3>1 DEF Ordered, StillThere
    <3>3. cursor.inode \in Nat /\ Inodes \in SUBSET Nat /\ f \in doomed
      BY <3>2, FileFacts DEF Typed, CursorOrNone, Cursors
    <3>4. \A g \in Inodes : g >= cursor.inode => g # f
      <4>1. CursorAt(base)
        BY <1>1
      <4>2. cursor.inode \in Inodes /\ \A g \in Inodes : g \in Nat
        BY <3>2, <3>3, <4>1 DEF CursorAt
      <4> QED
        BY <3>2, <3>3, <4>2
    <3>5. ASSUME NEW g \in Inodes, g >= cursor.inode
          PROVE  g \in Present'
      <4>1. g \in Present /\ g # f
        BY <3>2, <3>4, <3>5 DEF Ordered, StillThere
      <4> QED
        BY <1>2, <3>1, <4>1 DEF Present, Existing
    <3>6. \A g \in doomed' : g < cursor.inode
      BY <3>1 DEF Ordered, StillThere
    <3> QED
      BY <1>2, <3>2, <3>5, <3>6 DEF StillThere, Inodes
  <2> QED
    BY <2>1, <2>2
<1> QED
  BY <1>3, <1>4, <1>5 DEF Ordered

\* The listing holds every file from the cursor on: the pass begins where the last one
\* ended, or with the first file ever written.
LEMMA OrderedList ==
    ASSUME Typed, Newest, Ordered, List
    PROVE  Ordered'
<1> DEFINE inodes == reader.sealed \cup Existing
           known == cursor # None /\ cursor.inode \in inodes
<1>1. PICK base : Layout(base) /\ CursorAt(base) /\ PassAt(base)
  BY DEF Ordered
<1>2. UNCHANGED <<file, active, written, cursor, imported, sealed, doomed>>
  BY DEF List, wvars
<1>3. Layout(base)' /\ CursorAt(base)' /\ Answered'
  <2>1. ReaderSteps
    BY DEF ReaderSteps
  <2> QED
    BY <1>1, <1>2, <2>1, OrderedKept DEF CursorAt, First, Inodes
<1>4. StillThere'
  BY <1>2 DEF Ordered, StillThere, Present, Existing, Inodes
<1>5. reader \in Globbed /\ inodes \subseteq Inodes /\ (reader' = Idle \/ Begins(inodes, known))
  BY ListStep
<1>6. CASE reader' = Idle
  <2>1. reader'.pc = "idle"
    BY <1>6 DEF Idle
  <2>2. PassAt(base)' /\ Listed'
    BY <2>1 DEF PassAt, Listed, InPass
  <2> QED
    BY <1>3, <1>4, <2>2 DEF Ordered
<1>7. CASE Begins(inodes, known)
  <2>1. /\ reader'.pc = "reading" /\ reader'.inodes = inodes
        /\ reader'.sealed = reader.sealed /\ reader'.events = <<>>
        /\ reader'.at = (IF known THEN cursor.inode ELSE Min(inodes))
        /\ reader'.offset = (IF known THEN cursor.offset ELSE 0)
        /\ inodes # {} /\ reader.sealed \subseteq sealed
    BY <1>7 DEF Begins
  <2>2. inodes = Present
    <3>1. reader.pc = "globbed"
      BY <1>5 DEF Globbed
    <3> QED
      BY <2>1, <3>1 DEF Ordered, Listed, Present
  <2>3. known => cursor # None /\ cursor.inode \in inodes
    OBVIOUS
  <2>4. ~known => cursor = None
    <3>1. cursor # None => cursor.inode \in Inodes /\ cursor.inode \in Nat
      BY <1>1 DEF CursorAt, Typed, CursorOrNone, Cursors
    <3>2. cursor # None => cursor.inode \in Present
      BY <3>1 DEF Ordered, StillThere
    <3> QED
      BY <2>2, <3>2
  <2> HIDE DEF known, inodes
  <2>5. /\ reader'.at \in inodes /\ (cursor # None => reader'.at >= cursor.inode)
        /\ reader'.offset <= Len(file[reader'.at].lines)
        /\ First(imported, base[reader'.at] + reader'.offset)
    <3>1. CASE known
      <4>1. cursor # None /\ cursor.inode \in inodes /\ cursor.inode \in Nat
            /\ reader'.at = cursor.inode /\ reader'.offset = cursor.offset
        BY <2>1, <2>3, <3>1 DEF Typed, CursorOrNone, Cursors
      <4> QED
        BY <1>1, <4>1 DEF CursorAt
    <3>2. CASE ~known
      <4>1. cursor = None /\ imported = <<>> /\ reader'.at = Min(inodes) /\ reader'.offset = 0
        BY <1>1, <2>1, <2>4, <3>2 DEF CursorAt
      <4>2. inodes = Inodes
        BY <1>5, <2>2, <4>1 DEF Ordered, StillThere
      <4>3. Min(Inodes) \in Inodes /\ \A f \in Inodes : Min(Inodes) <= f
        BY <2>1, <4>2, FileFacts, MinIsLeast
      <4>4. Min(Inodes) = 1
        <5>1. Len(file) \in Nat /\ Inodes = 1 .. Len(file)
          BY FileFacts DEF Inodes
        <5>2. 1 \in Inodes
          BY <4>3, <5>1
        <5>3. Min(Inodes) >= 1 /\ Min(Inodes) \in Nat /\ Min(Inodes) <= 1
          BY <4>3, <5>1, <5>2
        <5> QED
          BY <5>3
      <4>5. base[1] = 0 /\ Len(file[1].lines) \in Nat
        BY <1>1, <4>3, <4>4, FileFacts DEF Layout
      <4>6. First(<<>>, 0)
        <5>1. Len(<<>>) = 0 /\ Len(written) \in Nat
          BY EmptySeq, LenProperties DEF Typed
        <5> QED
          BY <5>1 DEF First
      <4> QED
        BY <4>1, <4>2, <4>3, <4>4, <4>5, <4>6
    <3> QED
      BY <3>1, <3>2
  <2>6. PassAt(base)'
    <3>1. imported \o <<>> = imported
      BY ConcatEmptySeq DEF Typed
    <3>2. First(imported \o reader'.events, base[reader'.at] + reader'.offset)
      BY <2>1, <2>5, <3>1
    <3>3. First(imported \o reader.events, base[reader.at] + reader.offset)'
      BY <1>2, <3>2 DEF First
    <3> QED
      BY <1>2, <2>1, <2>5, <3>3 DEF PassAt, InPass
  <2>7. Listed'
    <3>1. inodes \subseteq Inodes /\ Inodes \in SUBSET Nat
      BY <1>5, FileFacts DEF inodes
    <3>2. ASSUME NEW f \in Inodes, reader'.at <= f
          PROVE  f \in inodes
      <4>1. cursor # None => f >= cursor.inode
        <5>1. reader'.at \in Nat /\ f \in Nat
          BY <2>5, <3>1
        <5>2. cursor # None => cursor.inode \in Nat
          BY DEF Typed, CursorOrNone, Cursors
        <5> QED
          BY <2>5, <3>2, <5>1, <5>2
      <4> QED
        BY <2>2, <4>1 DEF Ordered, StillThere
    <3>3. Inodes' = Inodes /\ Existing' = Existing
      BY <1>2 DEF Inodes, Existing
    <3>4. reader.sealed \subseteq inodes /\ inodes \subseteq reader.sealed \cup Existing
      BY DEF inodes
    <3> QED
      BY <2>1, <3>2, <3>3, <3>4 DEF Listed
  <2> QED
    BY <1>3, <1>4, <2>6, <2>7 DEF Ordered
<1> QED
  BY <1>5, <1>6, <1>7

\* What one round of the loop reads is where the order says it is.
LEMMA RoundInOrder ==
    ASSUME Typed, Newest, Ordered, ReadFile, NEW base, Layout(base), PassAt(base),
           NEW chunk \in Seq(Lines), NEW done \in BOOLEAN, ReadChunk(chunk, done)
    PROVE  /\ Opened = reader.at /\ InPass
           /\ Parsed(chunk) = chunk
           /\ reader.offset + Len(chunk) <= Len(file[reader.at].lines)
           /\ First(imported \o (reader.events \o chunk),
                    base[reader.at] + (reader.offset + Len(chunk)))
<1>1. InPass /\ reader.pc = "reading" /\ reader \in Reading
  BY ReaderKinds DEF ReadFile, InPass
<1>2. /\ reader.events \in Seq(Nat) /\ reader.offset \in Nat /\ reader.at \in Nat
      /\ reader.at \in reader.inodes /\ reader.at \in Inodes
      /\ reader.offset <= Len(file[reader.at].lines)
      /\ First(imported \o reader.events, base[reader.at] + reader.offset)
  BY <1>1 DEF Reading, PassAt, Newest
<1>3. Opened = reader.at
  <2>1. reader.at \in reader.sealed \/ reader.at \in Existing
    BY <1>1, <1>2 DEF Ordered, Listed
  <2> QED
    BY <2>1 DEF Opened, Existing
<1> DEFINE b == base[reader.at] o == reader.offset l == Len(file[reader.at].lines)
           c == Len(chunk) L == Len(written)
<1>4. /\ b \in Nat /\ o \in Nat /\ l \in Nat /\ c \in Nat /\ L \in Nat
      /\ o + c <= l /\ b + l <= L
  <2>1. l \in Nat /\ L \in Nat /\ o \in Nat /\ Len(file) \in Nat /\ Inodes = 1 .. Len(file)
    BY <1>2, FileFacts, LenProperties DEF Typed, Inodes
  <2>2. c \in Nat /\ o + c <= l
    BY <1>2, <1>3 DEF ReadChunk
  <2>3. /\ reader.at \in 1 .. Len(file) + 1 /\ reader.at + 1 \in 1 .. Len(file) + 1
        /\ Len(file) + 1 \in 1 .. Len(file) + 1 /\ reader.at + 1 <= Len(file) + 1
    BY <1>2, <2>1
  <2>4. /\ base[reader.at] \in Nat /\ base[reader.at + 1] = base[reader.at] + l
        /\ base[reader.at + 1] <= base[Len(file) + 1] /\ base[Len(file) + 1] = L
    BY <1>2, <2>3 DEF Layout
  <2> QED
    BY <2>1, <2>2, <2>4
<1>5. \A i \in 1 .. c : /\ o + i \in 1 .. l
                        /\ chunk[i] = file[reader.at].lines[o + i]
  BY <1>3 DEF ReadChunk
<1>6. \A i \in 1 .. l : file[reader.at].lines[i] = written[b + i]
  BY <1>2 DEF Layout
<1> HIDE DEF b, o, l, c, L
<1>7. \A i \in 1 .. c : chunk[i] = written[b + (o + i)] /\ b + (o + i) \in 1 .. L
  BY <1>4, <1>5, <1>6
<1>8. \A i \in 1 .. L : written[i] \in Nat
  BY ElementOfSeq DEF Typed, L
<1>9. \A i \in 1 .. c : chunk[i] # Bad /\ chunk[i] \in Nat
  BY <1>7, <1>8, AbsentAssumption
<1>10. Parsed(chunk) = chunk
  BY <1>9, ParsedLines DEF c
<1>11. chunk \in Seq(Nat)
  <2>1. Parsed(chunk) \in Seq(Nat)
    BY ParsedLines
  <2> QED
    BY <1>10, <2>1
<1> DEFINE p == imported \o reader.events
           q == imported \o (reader.events \o chunk)
<1>12. p \in Seq(Nat) /\ q = p \o chunk
  <2>1. p \in Seq(Nat)
    BY <1>2, ConcatProperties DEF Typed
  <2>2. q = p \o chunk
    <3>1. imported \in Seq(Nat)
      BY DEF Typed
    <3>2. \A s, t, u \in Seq(Nat) : (s \o t) \o u = s \o (t \o u)
      BY ConcatAssociative
    <3> QED
      BY <1>2, <1>11, <3>1, <3>2
  <2> QED
    BY <2>1, <2>2
<1>13. Len(p) = b + o /\ \A i \in 1 .. b + o : p[i] = written[i]
  BY <1>2 DEF First, b, o
<1> HIDE DEF p, q
<1>14. /\ q \in Seq(Nat) /\ Len(q) = (b + o) + c
       /\ \A i \in 1 .. (b + o) + c : q[i] = IF i <= b + o THEN p[i] ELSE chunk[i - (b + o)]
  <2> DEFINE u == p \o chunk k == b + o
  <2>1. k \in Nat /\ Len(p) = k /\ Len(chunk) = c /\ q = u
    BY <1>4, <1>12, <1>13 DEF c
  <2>2. /\ u \in Seq(Nat) /\ Len(u) = Len(p) + Len(chunk)
        /\ \A i \in 1 .. Len(p) + Len(chunk) :
             u[i] = IF i <= Len(p) THEN p[i] ELSE chunk[i - Len(p)]
    BY <1>11, <1>12, ConcatProperties
  <2> HIDE DEF u, k
  <2>3. /\ q \in Seq(Nat) /\ Len(q) = k + c
        /\ \A i \in 1 .. k + c : q[i] = IF i <= k THEN p[i] ELSE chunk[i - k]
    BY <2>1, <2>2
  <2> QED
    BY <2>3 DEF k
<1>15. ASSUME NEW i \in 1 .. b + (o + c)
       PROVE  q[i] = written[i]
  <2>1. i \in 1 .. (b + o) + c
    BY <1>4
  <2>2. CASE i <= b + o
    <3>1. i \in 1 .. b + o
      BY <1>4, <2>1, <2>2
    <3> QED
      BY <1>13, <1>14, <2>1, <2>2, <3>1
  <2>3. CASE ~(i <= b + o)
    <3>1. i - (b + o) \in 1 .. c /\ b + (o + (i - (b + o))) = i
      BY <1>4, <2>1, <2>3
    <3>2. q[i] = chunk[i - (b + o)]
      BY <1>14, <2>1, <2>3
    <3>3. chunk[i - (b + o)] = written[b + (o + (i - (b + o)))]
      BY <1>7, <3>1
    <3> QED
      BY <3>1, <3>2, <3>3
  <2> QED
    BY <2>2, <2>3
<1>16. Len(q) = b + (o + c) /\ b + (o + c) <= L
  BY <1>4, <1>14
<1>17. First(q, b + (o + c))
  BY <1>15, <1>16 DEF First, L
<1> QED
  BY <1>1, <1>3, <1>4, <1>10, <1>17 DEF q, b, o, c, l

\* The next file of the listing is the next one that was created.
LEMMA NextListed ==
    ASSUME Typed, Newest, Ordered, InPass, Rest # {}, reader.at \in Inodes
    PROVE  Min(Rest) = reader.at + 1 /\ reader.at + 1 \in reader.inodes
<1>1. reader \in Reading /\ reader.at \in Nat /\ reader.inodes \in SUBSET Nat
  BY ReaderKinds DEF Reading
<1>2. Rest \in SUBSET Nat
  BY <1>1 DEF Rest
<1>3. Min(Rest) \in Rest /\ \A n \in Rest : Min(Rest) <= n
  BY <1>2, MinIsLeast
<1>4. Min(Rest) \in reader.inodes /\ Min(Rest) > reader.at /\ Min(Rest) \in Nat
  BY <1>1, <1>3 DEF Rest
<1>5. Min(Rest) \in Inodes /\ Len(file) \in Nat /\ Inodes = 1 .. Len(file)
  BY <1>4, FileFacts DEF Newest, Inodes
<1>6. /\ reader.at + 1 \in Inodes /\ reader.at <= reader.at + 1
      /\ reader.at + 1 <= Min(Rest) /\ reader.at + 1 > reader.at
  BY <1>1, <1>4, <1>5
<1>7. reader.at + 1 \in reader.inodes
  BY <1>4, <1>6 DEF Ordered, Listed
<1>8. reader.at + 1 \in Rest
  BY <1>6, <1>7 DEF Rest
<1>9. Min(Rest) <= reader.at + 1
  BY <1>3, <1>8
<1> QED
  BY <1>1, <1>4, <1>6, <1>7, <1>9

\* A round goes on where the last one stopped; it leaves a file only at its end.
LEMMA OrderedRead ==
    ASSUME Typed, Newest, Ordered, ReadFile
    PROVE  Ordered'
<1>1. PICK base : Layout(base) /\ CursorAt(base) /\ PassAt(base)
  BY DEF Ordered
<1>2. UNCHANGED <<file, active, written, cursor, imported, sealed, doomed>>
  BY DEF ReadFile, wvars
<1>3. Layout(base)' /\ CursorAt(base)' /\ Answered'
  <2>1. ReaderSteps
    BY DEF ReaderSteps
  <2> QED
    BY <1>1, <1>2, <2>1, OrderedKept DEF CursorAt, First, Inodes
<1>4. StillThere'
  BY <1>2 DEF Ordered, StillThere, Present, Existing, Inodes
<1>5. PICK chunk \in Seq(Lines), done \in BOOLEAN : ReadChunk(chunk, done)
  BY ReadStep
<1>6. /\ Opened = reader.at /\ InPass
      /\ Parsed(chunk) = chunk
      /\ reader.offset + Len(chunk) <= Len(file[reader.at].lines)
      /\ First(imported \o (reader.events \o chunk),
               base[reader.at] + (reader.offset + Len(chunk)))
  BY <1>1, <1>5, RoundInOrder
<1>7. /\ reader.at \in Nat /\ reader.at \in reader.inodes /\ reader.at \in Inodes
      /\ reader.offset \in Nat /\ Len(chunk) \in Nat
      /\ Len(file[reader.at].lines) \in Nat
      /\ cursor # None => reader.at >= cursor.inode
  BY <1>1, <1>5, <1>6, ReaderKinds, FileFacts DEF Reading, PassAt, Newest, ReadChunk
<1>8. /\ reader'.inodes = reader.inodes /\ reader'.sealed = reader.sealed
      /\ reader'.events = reader.events \o chunk
      /\ done <=> Finished(reader.offset + Len(chunk))
      /\ reader'.pc = IF done THEN "reading" ELSE "read"
      /\ reader'.at = IF done THEN Min(Rest) ELSE reader.at
      /\ reader'.offset = IF done THEN 0 ELSE reader.offset + Len(chunk)
      /\ reader'.cursor = [inode |-> reader.at, offset |-> reader.offset + Len(chunk)]
  BY <1>5, <1>6 DEF ReadChunk
<1>9. /\ reader'.at \in reader.inodes /\ (cursor # None => reader'.at >= cursor.inode)
      /\ reader'.at \in Nat /\ reader'.at >= reader.at
      /\ reader'.offset <= Len(file[reader'.at].lines)
      /\ First(imported \o reader'.events, base[reader'.at] + reader'.offset)
  <2>1. CASE done
    <3>1. Rest # {} /\ reader.offset + Len(chunk) >= size(reader.at)
      BY <1>6, <1>8, <2>1 DEF Finished
    <3>2. size(reader.at) = Len(file[reader.at].lines)
      <4>1. ~file[reader.at].fragment
        BY <1>1, <1>7 DEF Layout
      <4>2. size(reader.at) = Len(file[reader.at].lines) + 0
        BY <4>1 DEF size
      <4> QED
        BY <1>7, <4>2
    <3>3. reader.offset + Len(chunk) = Len(file[reader.at].lines)
      <4> DEFINE o == reader.offset + Len(chunk) l == Len(file[reader.at].lines)
      <4>1. o \in Nat /\ l \in Nat /\ o <= l /\ o >= l
        BY <1>6, <1>7, <3>1, <3>2
      <4> HIDE DEF o, l
      <4>2. o = l
        BY <4>1
      <4> QED
        BY <4>2 DEF o, l
    <3>4. Min(Rest) = reader.at + 1 /\ reader.at + 1 \in reader.inodes
      BY <1>6, <1>7, <3>1, NextListed
    <3>5. reader'.at = reader.at + 1 /\ reader'.offset = 0
      BY <1>8, <2>1, <3>4
    <3>6. reader.at + 1 \in Inodes /\ Len(file[reader.at + 1].lines) \in Nat
      BY <1>6, <3>4, FileFacts DEF Newest
    <3>7. base[reader.at + 1] \in Nat
          /\ base[reader.at + 1] = base[reader.at] + Len(file[reader.at].lines)
      <4>1. reader.at + 1 \in 1 .. Len(file) + 1
        BY <3>6, FileFacts DEF Inodes
      <4> QED
        BY <1>1, <1>7, <4>1 DEF Layout
    <3>8. base[reader'.at] + reader'.offset
            = base[reader.at] + (reader.offset + Len(chunk))
      BY <3>3, <3>5, <3>7
    <3>9. cursor # None => cursor.inode \in Nat
      BY DEF Typed, CursorOrNone, Cursors
    <3>10. /\ reader'.at \in Nat /\ reader'.at >= reader.at
           /\ cursor # None => reader'.at >= cursor.inode
      BY <1>7, <3>5, <3>9
    <3> QED
      BY <1>6, <1>8, <3>4, <3>5, <3>6, <3>8, <3>10
  <2>2. CASE ~done
    BY <1>6, <1>7, <1>8, <2>2
  <2> QED
    BY <2>1, <2>2
<1>10. reader'.pc = "read" =>
         reader'.cursor = [inode |-> reader'.at, offset |-> reader'.offset]
  BY <1>8
<1>11. PassAt(base)'
  <2>1. First(imported \o reader.events, base[reader.at] + reader.offset)'
    BY <1>2, <1>9 DEF First
  <2> QED
    BY <1>2, <1>8, <1>9, <1>10, <2>1 DEF PassAt
<1>12. Listed'
  <2>1. reader'.pc \in {"reading", "read"}
    BY <1>8
  <2>2. ASSUME NEW f \in Inodes, NEW i \in reader.inodes, reader'.at <= f, f <= i
        PROVE  f \in reader.inodes
    <3>1. reader.at <= f
      <4>1. f \in Nat
        BY FileFacts
      <4> QED
        BY <1>7, <1>9, <2>2, <4>1
    <3> QED
      BY <1>6, <2>2, <3>1 DEF Ordered, Listed
  <2>3. /\ reader.sealed \subseteq reader.inodes
        /\ reader.inodes \subseteq reader.sealed \cup Existing
    BY <1>6 DEF Ordered, Listed
  <2>4. Inodes' = Inodes /\ Existing' = Existing
    BY <1>2 DEF Inodes, Existing
  <2> QED
    BY <1>8, <2>1, <2>2, <2>3, <2>4 DEF Listed
<1> QED
  BY <1>3, <1>4, <1>11, <1>12 DEF Ordered

\* Records and cursor become the database's at once; what is drained may go.
LEMMA OrderedCommit ==
    ASSUME Typed, Newest, Ordered, Commit
    PROVE  Ordered'
<1>1. PICK base : Layout(base) /\ CursorAt(base) /\ PassAt(base)
  BY DEF Ordered
<1>2. UNCHANGED <<file, active, written, sealed>> /\ reader' = Idle /\ reader'.pc = "idle"
  BY DEF Commit, wvars, Idle
<1>3. Layout(base)' /\ Answered'
  <2>1. ReaderSteps
    BY DEF ReaderSteps
  <2> QED
    BY <1>1, <2>1, OrderedKept
<1>4. PassAt(base)' /\ Listed'
  BY <1>2 DEF PassAt, Listed, InPass
<1>5. CASE UNCHANGED <<imported, cursor, doomed>>
  <2>1. CursorAt(base)' /\ StillThere'
    BY <1>1, <1>2, <1>5 DEF CursorAt, First, Ordered, StillThere, Present, Existing, Inodes
  <2> QED
    BY <1>3, <1>4, <2>1 DEF Ordered
<1>6. CASE /\ imported' = imported \o reader.events /\ cursor' = reader.cursor
           /\ doomed' = doomed \cup Drained
  <2>1. InPass /\ reader.pc = "read" /\ reader \in Reading
    BY ReaderKinds DEF Commit, InPass
  <2>2. /\ reader.cursor = [inode |-> reader.at, offset |-> reader.offset]
        /\ reader.at \in Inodes /\ reader.at \in Nat /\ reader.offset \in Nat
        /\ reader.offset <= Len(file[reader.at].lines)
        /\ First(imported \o reader.events, base[reader.at] + reader.offset)
        /\ cursor # None => reader.at >= cursor.inode
    BY <1>1, <2>1 DEF PassAt, Newest, Reading
  <2>3. cursor' # None /\ cursor'.inode = reader.at /\ cursor'.offset = reader.offset
    BY <1>6, <2>2, AbsentAssumption
  <2>4. CursorAt(base)'
    <3>1. First(imported, base[cursor.inode] + cursor.offset)'
      BY <1>2, <1>6, <2>2, <2>3 DEF First
    <3> QED
      BY <1>2, <2>2, <2>3, <3>1 DEF CursorAt, Inodes
  <2>5. cursor # None => cursor.inode \in Nat
    BY DEF Typed, CursorOrNone, Cursors
  <2>6. ASSUME NEW f \in Inodes, f >= reader.at
        PROVE  f \in Present
    <3>1. f \in Nat
      BY FileFacts
    <3>2. cursor # None => f >= cursor.inode
      BY <2>2, <2>5, <2>6, <3>1
    <3> QED
      BY <3>2 DEF Ordered, StillThere
  <2>7. ASSUME NEW f \in doomed'
        PROVE  f < reader.at
    <3>1. CASE f \in doomed
      <4>1. cursor # None /\ f < cursor.inode
        BY <3>1 DEF Ordered, StillThere
      <4>2. f \in Nat
        BY <3>1 DEF Typed
      <4> QED
        BY <2>2, <2>5, <4>1, <4>2
    <3>2. CASE f \in Drained
      BY <3>2 DEF Drained
    <3> QED
      BY <1>6, <3>1, <3>2
  <2>8. StillThere'
    BY <1>2, <2>3, <2>6, <2>7 DEF StillThere, Present, Existing, Inodes
  <2> QED
    BY <1>3, <1>4, <2>4, <2>8 DEF Ordered
<1> QED
  BY <1>5, <1>6 DEF Commit

-----------------------------------------------------------------------------
(* The invariant and what it says.                                          *)

\* An empty directory and an empty database.
LEMMA InvariantInit ==
    Init => IInv
<1> SUFFICES ASSUME Init PROVE IInv
  OBVIOUS
<1>1. /\ file = <<>> /\ sealed = {} /\ active = None
      /\ wpc = "idle" /\ appended = 0 /\ written = <<>> /\ acked = {}
      /\ cursor = None /\ imported = <<>> /\ reader = Idle /\ doomed = {}
      /\ raced = FALSE /\ torn = FALSE
  BY DEF Init
<1>2. \A S : <<>> \in Seq(S)
  BY EmptySeq
<1>3. Len(<<>>) = 0
  BY EmptySeq
<1>4. Inodes = {} /\ Len(file) = 0 /\ Len(written) = 0 /\ reader.pc = "idle" /\ ~InPass
  BY <1>1, <1>3 DEF Inodes, Idle, InPass
<1>5. Typed
  BY <1>1, <1>2 DEF Typed, CursorOrNone
<1>6. Newest
  BY <1>1, <1>4 DEF Newest
<1>7. Genuine
  BY <1>1, <1>4 DEF Genuine
<1>8. Ordered
  <2> DEFINE base == [f \in 1 .. 1 |-> 0]
  <2>1. base \in [1 .. 1 -> Nat] /\ base[1] = 0 /\ \A f \in 1 .. 1 : f = 1
    OBVIOUS
  <2> HIDE DEF base
  <2>2. Layout(base)
    BY <1>4, <2>1 DEF Layout
  <2>3. CursorAt(base) /\ PassAt(base)
    BY <1>1, <1>4 DEF CursorAt, PassAt
  <2>4. StillThere /\ Listed /\ Answered
    BY <1>1, <1>4 DEF StillThere, Listed, Answered
  <2> QED
    BY <2>2, <2>3, <2>4 DEF Ordered
<1> QED
  BY <1>5, <1>6, <1>7, <1>8 DEF IInv

\* Every step of the writer and of the console keeps the order, unless it is the
\* rotation or the short write the assumption excludes.
LEMMA InvariantStep ==
    IInv /\ [Next]_vars => IInv'
<1> SUFFICES ASSUME IInv, [Next]_vars PROVE IInv'
  OBVIOUS
<1>1. Typed /\ Newest /\ Genuine /\ (raced \/ torn \/ Ordered)
  BY DEF IInv
<1>2. Typed' /\ Newest' /\ Genuine'
  BY <1>1, TypedStep, NewestStep, GenuineStep
<1>3. (raced => raced') /\ (torn => torn')
  BY <1>1, StepKinds DEF WriterSteps, ReaderSteps, AppendRecord, Write, ShortWrite,
     Acknowledge, WriterCrash, Glob, List, ReadFile, ReadVanished, Commit, Unlink,
     ConsoleCrash, vars, hvars, Typed
<1>4. ASSUME Ordered, ~raced', ~torn'
      PROVE  Ordered'
  <2>1. ASSUME NEW rotate \in BOOLEAN, AppendRecord(rotate)
        PROVE  Ordered'
    BY <1>1, <1>4, <2>1, OrderedAppend
  <2>2. CASE Write
    BY <1>1, <1>4, <2>2, OrderedWrite
  <2>3. CASE ShortWrite
    BY <1>4, <2>3 DEF ShortWrite
  <2>4. CASE Acknowledge \/ WriterCrash \/ UNCHANGED vars
    BY <1>4, <2>4, OrderedQuiet
  <2>5. CASE Glob \/ ReadVanished \/ ConsoleCrash \/ Unlink
    BY <1>1, <1>4, <2>5, OrderedOutside
  <2>6. CASE List
    BY <1>1, <1>4, <2>6, OrderedList
  <2>7. CASE ReadFile
    BY <1>1, <1>4, <2>7, OrderedRead
  <2>8. CASE Commit
    BY <1>1, <1>4, <2>8, OrderedCommit
  <2> QED
    BY <2>1, <2>2, <2>3, <2>4, <2>5, <2>6, <2>7, <2>8, StepKinds
       DEF WriterSteps, ReaderSteps
<1> QED
  BY <1>1, <1>2, <1>3, <1>4 DEF IInv

\* Where every record is, at every moment of every behaviour.
THEOREM InvariantHolds == Spec => []IInv
<1>1. Init => IInv
  BY InvariantInit
<1>2. IInv /\ [Next]_vars => IInv'
  BY InvariantStep
<1> QED
  BY <1>1, <1>2, PTL DEF Spec

\* The events table never holds more than the cursor accounts for, and in order.
LEMMA ImportedFromInvariant ==
    IInv => ImportedInOrder
<1> SUFFICES ASSUME IInv PROVE ImportedInOrder
  OBVIOUS
<1>1. Typed /\ Genuine /\ (raced \/ torn \/ Ordered)
  BY DEF IInv
<1>2. imported \in Seq(Nat) /\ written \in Seq(Nat) /\ Len(imported) \in Nat
      /\ DOMAIN imported = 1 .. Len(imported)
  BY <1>1, LenProperties DEF Typed
<1>3. ASSUME NEW i \in DOMAIN imported
      PROVE  Contains(written, imported[i])
  <2>1. imported[i] \in ToSet(imported)
    BY <1>2, ToSetFacts
  <2>2. imported[i] \in ToSet(written)
    BY <1>1, <2>1 DEF Genuine
  <2> QED
    BY <1>2, <2>2, ToSetFacts, LenProperties DEF Contains
<1>4. ASSUME Ordered
      PROVE  IsPrefix(imported, written)
  <2>1. PICK base : Layout(base) /\ CursorAt(base)
    BY <1>4 DEF Ordered
  <2>2. First(imported, Len(imported))
    <3>1. CASE cursor = None
      <4>1. imported = <<>>
        BY <2>1, <3>1 DEF CursorAt
      <4>2. Len(<<>>) = 0 /\ Len(written) \in Nat
        BY <1>2, EmptySeq, LenProperties
      <4> QED
        BY <4>1, <4>2 DEF First
    <3>2. CASE cursor # None
      BY <2>1, <3>2 DEF CursorAt, First
    <3> QED
      BY <3>1, <3>2
  <2>3. /\ Len(imported) <= Len(written) /\ Len(written) \in Nat
        /\ \A i \in 1 .. Len(imported) : imported[i] = written[i]
    BY <1>2, <2>2, LenProperties DEF First
  <2> DEFINE s == SubSeq(written, 1, Len(imported))
  <2>4. s \in Seq(Nat) /\ Len(s) = Len(imported)
        /\ \A i \in 1 .. Len(imported) : s[i] = written[i]
    <3>1. \A i \in 1 .. Len(imported) : written[i] \in Nat
      BY <1>2, <2>3, ElementOfSeq
    <3>2. /\ s \in Seq(Nat)
          /\ Len(s) = IF 1 <= Len(imported) THEN Len(imported) - 1 + 1 ELSE 0
          /\ \A i \in 1 .. Len(imported) - 1 + 1 : s[i] = written[1 + i - 1]
      BY <1>2, <3>1, SubSeqProperties
    <3> HIDE DEF s
    <3>3. Len(s) = Len(imported)
      BY <1>2, <3>2
    <3>4. ASSUME NEW i \in 1 .. Len(imported) PROVE s[i] = written[i]
      <4>1. i \in 1 .. Len(imported) - 1 + 1 /\ 1 + i - 1 = i
        BY <1>2
      <4> QED
        BY <3>2, <4>1
    <3> QED
      BY <3>2, <3>3, <3>4
  <2> HIDE DEF s
  <2>5. imported = s
    BY <1>2, <2>3, <2>4, SeqEqual
  <2> QED
    BY <2>3, <2>5 DEF IsPrefix, s
<1> QED
  BY <1>1, <1>3, <1>4 DEF ImportedInOrder

\* A written record is imported, or in a file the cursor has not passed.
LEMMA KeptFromInvariant ==
    IInv => AcknowledgedIsKept
<1> SUFFICES ASSUME IInv, ~raced, ~torn, NEW r \in acked PROVE Kept(r)
  BY DEF AcknowledgedIsKept
<1>1. Typed /\ Ordered
  BY DEF IInv
<1>2. PICK base : Layout(base) /\ CursorAt(base)
  BY <1>1 DEF Ordered
<1>3. r \in ToSet(written) /\ written \in Seq(Nat) /\ imported \in Seq(Nat)
  BY <1>1 DEF Ordered, Answered, Typed
<1>4. PICK k \in 1 .. Len(written) : written[k] = r
  BY <1>3, ToSetFacts
<1>5. PICK f \in Inodes : base[f] < k /\ k <= base[f + 1]
  BY <1>2 DEF Layout
<1>6. /\ Len(file) \in Nat /\ Inodes = 1 .. Len(file) /\ f \in Nat
      /\ f \in 1 .. Len(file) + 1 /\ f + 1 \in 1 .. Len(file) + 1
      /\ Len(file[f].lines) \in Nat /\ file[f].lines \in Seq(Lines)
      /\ k \in Nat /\ Len(written) \in Nat
  BY <1>1, <1>3, FileFacts, LenProperties DEF Inodes
<1>7. base[f] \in Nat /\ base[f + 1] = base[f] + Len(file[f].lines)
      /\ \A i \in 1 .. Len(file[f].lines) : file[f].lines[i] = written[base[f] + i]
  BY <1>2, <1>6 DEF Layout
<1>8. Contains(file[f].lines, r)
  <2> DEFINE b == base[f] l == Len(file[f].lines)
  <2>1. b \in Nat /\ l \in Nat /\ k \in Nat /\ b < k /\ k <= b + l
    BY <1>5, <1>6, <1>7
  <2> HIDE DEF b, l
  <2>2. k - b \in 1 .. l /\ b + (k - b) = k
    BY <2>1
  <2>3. file[f].lines[k - b] = r
    <3>1. file[f].lines[k - b] = written[b + (k - b)]
      BY <1>7, <2>2 DEF b, l
    <3> QED
      BY <1>4, <2>2, <3>1
  <2> QED
    BY <2>2, <2>3 DEF Contains, l
<1>9. CASE cursor # None => f >= cursor.inode
  <2>1. f \in Present
    BY <1>1, <1>9 DEF Ordered, StillThere
  <2> QED
    BY <1>8, <1>9, <2>1 DEF Kept
<1>10. CASE cursor # None /\ ~(f >= cursor.inode)
  <2>1. /\ cursor.inode \in Inodes /\ cursor.inode \in Nat /\ cursor.offset \in Nat
        /\ First(imported, base[cursor.inode] + cursor.offset)
    BY <1>1, <1>2, <1>10 DEF CursorAt, Typed, CursorOrNone, Cursors
  <2>2. cursor.inode \in 1 .. Len(file) + 1 /\ f + 1 <= cursor.inode
    BY <1>6, <1>10, <2>1
  <2>3. base[f + 1] <= base[cursor.inode] /\ base[f + 1] \in Nat
        /\ base[cursor.inode] \in Nat
    BY <1>2, <1>6, <2>2 DEF Layout
  <2> DEFINE n == base[cursor.inode] + cursor.offset
  <2>4. k \in 1 .. n
    BY <1>4, <1>5, <1>6, <2>1, <2>3
  <2>5. Len(imported) = n /\ imported[k] = r
    BY <1>4, <2>1, <2>4 DEF First
  <2> HIDE DEF n
  <2>6. Contains(imported, r)
    BY <2>4, <2>5 DEF Contains
  <2> QED
    BY <2>6 DEF Kept
<1> QED
  BY <1>9, <1>10

\* The property a restart is promised to keep ("a restart never duplicates or skips",
\* console/store.py ingest_events): the database holds the written records in order,
\* none twice and none left out; and never a fragment, whatever happened.
THEOREM ImportIsInOrder == Spec => []ImportedInOrder
  BY InvariantHolds, ImportedFromInvariant, PTL

\* What append returned for is in the database or will be read by the next pass
\* (spool.py append, read_pending and the unlinking in selfhost/runtime.py).
THEOREM NothingAcknowledgedIsLost == Spec => []AcknowledgedIsKept
  BY InvariantHolds, KeptFromInvariant, PTL
=============================================================================
