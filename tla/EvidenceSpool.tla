---------------------------- MODULE EvidenceSpool ----------------------------
(***************************************************************************)
(* The evidence spool between the planes (selfhost/spool.py,                *)
(* selfhost/runtime.py ingest_events, console/store.py ingest_events).  One *)
(* data-plane writer appends records to an active file and renames it when  *)
(* it is full; the console, another process, lists the files, reads on from *)
(* its cursor, commits records and cursor in one database transaction and   *)
(* unlinks what it has drained.  Nothing but the file system synchronises   *)
(* the two.                                                                 *)
(*                                                                         *)
(* Bytes are abstracted to lines: an offset is a number of lines, and a     *)
(* file may end in a fragment without newline.  Records are numbered in the *)
(* order in which they are appended, inodes in the order in which files are *)
(* created, which is also the order of the names they are sealed under.     *)
(***************************************************************************)
EXTENDS Naturals, Sequences, SequencesExt

CONSTANTS
    MaxLines,    \* lines an active file holds before it is rotated
    ReadLimit,   \* lines one pass reads (MAX_READ_BYTES)
    MaxRecords,  \* bound: records appended in one behaviour
    MaxCrashes,  \* bound: process crashes in one behaviour
    None, Bad    \* absent file; a line that does not parse

ASSUME SpoolAssumption ==
    /\ MaxLines \in Nat \ {0} /\ ReadLimit \in Nat \ {0}
    /\ MaxRecords \in Nat /\ MaxCrashes \in Nat

ASSUME AbsentAssumption ==
    /\ None \notin Nat /\ None \notin [inode : Nat, offset : Nat]
    /\ Bad \notin Nat

VARIABLES
    file,      \* [inode -> [lines, fragment]] of every file ever created
    sealed,    \* inodes of the rotated files
    active,    \* inode behind the active path, or None
    wpc,       \* writer: "idle", "appending", "written"
    appended,  \* records handed to append so far
    written,   \* history: records that are complete lines of their own, in order
    acked,     \* records whose append returned
    cursor,    \* committed in the console's database: [inode, offset] or None
    imported,  \* events table of the console's database
    reader,    \* the pass in progress
    doomed,    \* drained files of committed passes, about to be unlinked
    crashes,
    raced,     \* history: a rotation fell into a pass of the reader
    torn       \* history: a write was cut short

wvars == <<file, active, wpc, appended, written, acked>>
rvars == <<cursor, imported, reader, doomed>>
vars == <<file, sealed, active, wpc, appended, written, acked,
          cursor, imported, reader, doomed, crashes, raced, torn>>
hvars == <<crashes, raced, torn>>

NoFile == [lines |-> <<>>, fragment |-> FALSE]
Idle == [pc |-> "idle"]

\* Sizes as append and read_pending compare them.
size(f) == Len(file[f].lines) + (IF file[f].fragment THEN 1 ELSE 0)

Init ==
    /\ file = <<>> /\ sealed = {} /\ active = None
    /\ wpc = "idle" /\ appended = 0 /\ written = <<>> /\ acked = {}
    /\ cursor = None /\ imported = <<>> /\ reader = Idle /\ doomed = {}
    /\ crashes = 0 /\ raced = FALSE /\ torn = FALSE

-----------------------------------------------------------------------------
(* EventSpool.append.                                                       *)

\* A record arrives; a full active file is first renamed to its sealed name.
AppendRecord(rotate) ==
    /\ wpc = "idle" /\ appended < MaxRecords
    /\ appended' = appended + 1
    /\ wpc' = "appending"
    /\ rotate <=> active # None /\ size(active) + 1 > MaxLines
    /\ IF rotate
       THEN /\ sealed' = sealed \cup {active} /\ active' = None
            /\ raced' = (raced \/ reader.pc # "idle")
       ELSE UNCHANGED <<sealed, active, raced>>
    /\ UNCHANGED <<file, written, acked, rvars, crashes, torn>>

\* The file the append writes to, created if the path is free.
Target == IF active = None THEN Len(file) + 1 ELSE active
Content == IF active = None THEN NoFile ELSE file[active]

\* os.write puts the whole line after whatever the file ends with.
Write ==
    /\ wpc = "appending"
    /\ active' = Target
    /\ file' = [f \in DOMAIN file \cup {Target} |->
                  IF f = Target
                  THEN [lines |-> Append(Content.lines,
                                         IF Content.fragment THEN Bad ELSE appended),
                        fragment |-> FALSE]
                  ELSE file[f]]
    /\ written' = IF Content.fragment THEN written ELSE Append(written, appended)
    /\ wpc' = "written"
    /\ UNCHANGED <<sealed, appended, acked, rvars, hvars>>

\* os.write stops early (a full disk): the append fails and leaves a fragment.
ShortWrite ==
    /\ wpc = "appending"
    /\ torn' = TRUE
    /\ active' = Target
    /\ file' = [f \in DOMAIN file \cup {Target} |->
                  IF f = Target THEN [Content EXCEPT !.fragment = TRUE] ELSE file[f]]
    /\ wpc' = "idle"
    /\ UNCHANGED <<sealed, appended, written, acked, rvars, crashes, raced>>

\* fsync succeeded and append returns: the request may now be answered.
Acknowledge ==
    /\ wpc = "written"
    /\ acked' = acked \cup {appended}
    /\ wpc' = "idle"
    /\ UNCHANGED <<file, sealed, active, appended, written, rvars, hvars>>

\* The writing process dies; its successor starts over on the same directory.
WriterCrash ==
    /\ wpc # "idle" /\ crashes < MaxCrashes
    /\ crashes' = crashes + 1
    /\ wpc' = "idle"
    /\ UNCHANGED <<file, sealed, active, appended, written, acked, rvars, raced, torn>>

-----------------------------------------------------------------------------
(* read_pending and the two ingest_events.  The lock of the console's       *)
(* runtime admits one pass at a time; unlinking happens outside it.         *)

\* _files, first half: the sealed files are globbed.
Glob ==
    /\ reader.pc = "idle"
    /\ reader' = [pc |-> "globbed", sealed |-> sealed]
    /\ UNCHANGED <<wvars, sealed, cursor, imported, doomed, hvars>>

\* The path of the active file exists.
Existing == IF active = None THEN {} ELSE {active}

\* _files, second half, and where to start: at the cursor, or at the first file
\* listed if the cursor is in none of them.  A file that was sealed since the glob is not
\* listed: the active path names its successor.  A file that was unlinked meanwhile makes
\* stat raise, which ends the pass; so does an empty listing, without a change.
List ==
    /\ reader.pc = "globbed"
    /\ LET inodes == reader.sealed \cup Existing
           known == cursor # None /\ cursor.inode \in inodes
       IN  reader' = IF ~(reader.sealed \subseteq sealed) \/ inodes = {}
                     THEN Idle
                     ELSE [pc |-> "reading", inodes |-> inodes,
                           sealed |-> reader.sealed,  \* those listed by a sealed name
                           at |-> IF known THEN cursor.inode ELSE Min(inodes),
                           offset |-> IF known THEN cursor.offset ELSE 0,
                           events |-> <<>>, cursor |-> cursor, budget |-> ReadLimit]
    /\ UNCHANGED <<wvars, sealed, cursor, imported, doomed, hvars>>

\* The file the listed path denotes when it is opened; of the active path that may be a
\* newer file than the one listed.
Opened == IF reader.at \in reader.sealed THEN reader.at ELSE active

\* Lines that do not parse are skipped.
Parsed(chunk) ==
    LET upto[n \in 0 .. Len(chunk)] ==
          IF n = 0 THEN <<>>
          ELSE IF chunk[n] = Bad THEN upto[n - 1] ELSE Append(upto[n - 1], chunk[n])
    IN  upto[Len(chunk)]

\* The files listed after the one that is being read, and before it: these are
\* drained, in this pass or in earlier ones.
Rest == {i \in reader.inodes : i > reader.at}
Drained == {i \in reader.inodes : i < reader.at}

FinishedNever(offset) ==
    reader.at \in reader.sealed /\ offset > size(Opened) /\ Rest # {}

FinishedEarly(offset) ==
    reader.at \in reader.sealed /\ Rest # {}

\* The loop goes on to the next file: this one is sealed and read to its end.
Finished(offset) ==
    /\ reader.at \in reader.sealed
    /\ offset >= size(Opened)
    /\ Rest # {}

\* One round of the loop: complete lines from the offset on, within the budget.
ReadFile ==
    /\ reader.pc = "reading" /\ Opened # None
    /\ LET r == reader
           chunk == SubSeq(file[Opened].lines, r.offset + 1,
                           Min({Len(file[Opened].lines), r.offset + r.budget}))
           offset == r.offset + Len(chunk)
           done == Finished(offset)
       IN  reader' = [r EXCEPT
             !.events = @ \o Parsed(chunk),
             !.cursor = [inode |-> r.at, offset |-> offset],
             !.budget = @ - Len(chunk),
             !.at = IF done THEN Min(Rest) ELSE @,
             !.offset = IF done THEN 0 ELSE offset,
             !.pc = IF done THEN "reading" ELSE "read"]
    /\ UNCHANGED <<wvars, sealed, cursor, imported, doomed, hvars>>

\* The active path is gone between listing and opening it: open raises.
ReadVanished ==
    /\ reader.pc = "reading" /\ Opened = None
    /\ reader' = Idle
    /\ UNCHANGED <<wvars, sealed, cursor, imported, doomed, hvars>>

CommitEventsOnly ==
    /\ reader.pc = "read"
    /\ imported' = imported \o reader.events
    /\ doomed' = doomed \cup Drained
    /\ reader' = Idle
    /\ UNCHANGED <<wvars, sealed, cursor, hvars>>

\* Events and cursor are committed together; a pass that brought nothing new
\* returns before unlinking.
Commit ==
    /\ reader.pc = "read"
    /\ IF reader.events = <<>> /\ reader.cursor = cursor
       THEN UNCHANGED <<imported, cursor, doomed>>
       ELSE /\ imported' = imported \o reader.events
            /\ cursor' = reader.cursor
            /\ doomed' = doomed \cup Drained
    /\ reader' = Idle
    /\ UNCHANGED <<wvars, sealed, hvars>>

\* unlink(missing_ok) of a drained file.
Unlink ==
    \E f \in doomed :
      /\ sealed' = sealed \ {f}
      /\ doomed' = doomed \ {f}
      /\ UNCHANGED <<wvars, cursor, imported, reader, hvars>>

\* The console dies anywhere: the pass and the pending unlinks are forgotten.
ConsoleCrash ==
    /\ reader.pc # "idle" \/ doomed # {}
    /\ crashes < MaxCrashes
    /\ crashes' = crashes + 1
    /\ reader' = Idle /\ doomed' = {}
    /\ UNCHANGED <<wvars, sealed, cursor, imported, raced, torn>>

Pass == Glob \/ List \/ ReadFile \/ ReadVanished \/ Commit \/ Unlink

Next ==
    \/ \E rotate \in BOOLEAN : AppendRecord(rotate)
    \/ Write \/ ShortWrite \/ Acknowledge \/ WriterCrash
    \/ Glob \/ List \/ ReadFile \/ ReadVanished \/ Commit \/ Unlink
    \/ ConsoleCrash

Spec == Init /\ [][Next]_vars

\* The console's maintenance loop starts a pass twice a second and passes run to
\* their end; unlinking is part of the pass.
FairSpec == Spec /\ WF_vars(Pass) /\ WF_vars(Unlink) /\ WF_vars(Write \/ Acknowledge)

-----------------------------------------------------------------------------
\* Inodes the directory still holds.
Present == sealed \cup Existing

\* Every variable holds a value of its kind.
TypeOK ==
    /\ DOMAIN file = 1 .. Len(file)
    /\ \A f \in DOMAIN file :
         /\ ToSet(file[f].lines) \subseteq (1 .. MaxRecords) \cup {Bad}
         /\ file[f].fragment \in BOOLEAN
    /\ Present \subseteq DOMAIN file /\ doomed \subseteq DOMAIN file
    /\ wpc \in {"idle", "appending", "written"}
    /\ appended \in 0 .. MaxRecords
    /\ acked \subseteq 1 .. appended /\ ToSet(imported) \subseteq 1 .. appended
    /\ cursor = None \/ (cursor.inode \in DOMAIN file /\ cursor.offset \in Nat)
    /\ reader.pc \in {"idle", "globbed", "reading", "read"}
    /\ crashes \in 0 .. MaxCrashes

\* What is imported was appended as a whole: fragments, and lines that merged with
\* one, are never taken for records.  As long as no rotation falls into a pass and no
\* write is cut short, the database moreover holds the written records in the order
\* they were written, none twice and none left out, whatever either process was doing
\* when it died ("a restart never duplicates or skips", console/store.py
\* ingest_events).
ImportedInOrder ==
    /\ \A i \in DOMAIN imported : Contains(written, imported[i])
    /\ raced \/ torn \/ IsPrefix(imported, written)

Kept(r) ==
    \/ Contains(imported, r)
    \/ \E f \in Present : /\ Contains(file[f].lines, r)
                          /\ cursor # None => f >= cursor.inode

\* A record whose append returned is in the database, or on a line of its own in
\* a file that the next pass still reads.
AcknowledgedIsKept == raced \/ torn \/ \A r \in acked : Kept(r)

\* The same, in spite of rotations while the console reads ("rotation never races
\* across processes", spool.py).
KeptAcrossRotation == torn \/ \A r \in acked : Kept(r)

\* Every acknowledged record reaches the database, in spite of crashes.
AcknowledgedIsImported ==
    \A r \in 1 .. MaxRecords : r \in acked ~> (Contains(imported, r) \/ raced \/ torn)
=============================================================================
