-------------------------------- MODULE Vfs --------------------------------
(***************************************************************************)
(* Files in memory: the root table, the file streams and the FILE          *)
(* functions of libc/stdio.c, and what reads them in Lua: liolib.c,        *)
(* whose read_line waits for fgets to report the end of a file, and        *)
(* luaL_loadfile.                                                          *)
(*                                                                         *)
(* A file is a slot of root; a handle is a FILE with its stream, or        *)
(* Closed.  Offsets count from 0.  The mainline makes one call after the   *)
(* other; read_line, which may never return, takes a step for each fgets.  *)
(* strcmp takes a name for equal to each of its prefixes (module StrLib).  *)
(***************************************************************************)
EXTENDS Integers, Sequences, SequencesExt, FiniteSetsExt

CONSTANTS
  FileNames,     \* names, as sequences
  DataBytes,     \* bytes that are written: "nl", "nul" and others
  GROW,          \* 1024: a file grows by this much, once per put
  LUAL_BUFFERSIZE,
  RootSlots,     \* 256
  Handles,
  MaxSize,       \* bound: size of a file
  Offsets,       \* bound: offsets that are sought
  MaxBytes       \* bound: bytes in all files together

\* EOF is no byte; names are sequences.
ASSUME VfsAssumption ==
  /\ "EOF" \notin DataBytes /\ Offsets \subseteq Nat
  /\ \A n \in FileNames : n \in Seq(Range(n))
  /\ GROW \in Nat \ {0} /\ LUAL_BUFFERSIZE \in Nat \ {0}
  /\ RootSlots \in Nat /\ MaxSize \in Nat /\ MaxBytes \in Nat

VARIABLES
  root,      \* slots in use: [name, data, max]
  file,      \* handle -> [entry, at, hold, name] or Closed
  moved,     \* history: handles sought or overtaken by a put while they held
             \* a byte that was pushed back
  reading,   \* the read in progress: [what, h, got, over]
  from,      \* history: what lay ahead of it, byte held first, when it began
  wild       \* a byte went outside the buffer of a file: the model stops

vfsVars == <<root, file, moved, reading, from, wild>>

EOF == "EOF"
NL == "nl"
HASH == "#"
Closed == [entry |-> 0, at |-> 0, hold |-> EOF, name |-> <<>>]
Idle == [what |-> "idle", h |-> 0, got |-> <<>>, over |-> FALSE]

Data(h) == root[file[h].entry].data
IsOpen(h) == file[h].entry # 0
Ahead(f) == (IF f.hold = EOF THEN <<>> ELSE <<f.hold>>)
              \o SubSeq(root[f.entry].data, f.at + 1, Len(root[f.entry].data))

-----------------------------------------------------------------------------
(* fopen.  The first slot whose name begins with filename is the file; no  *)
(* mode truncates it.  A mode that begins with r does not create one.      *)

strcmpEqual_Fixed(name, filename) == filename = name
strcmpEqual(name, filename) == IsPrefix(filename, name)
Slot(filename) ==
  SelectInSeq(root, LAMBDA e : strcmpEqual(e.name, filename))
fopen(h, filename, mode) ==
  /\ reading.what = "idle" /\ ~IsOpen(h)
  /\ \/ /\ Slot(filename) # 0
        /\ file' = [file EXCEPT ![h] =
                      [Closed EXCEPT !.entry = Slot(filename), !.name = filename]]
        /\ UNCHANGED root
     \/ /\ Slot(filename) = 0 /\ mode # "r" /\ Len(root) < RootSlots
        /\ root' = Append(root, [name |-> filename, data |-> <<>>, max |-> 0])
        /\ file' = [file EXCEPT ![h] =
                      [Closed EXCEPT !.entry = Len(root'), !.name = filename]]
  /\ UNCHANGED <<moved, reading, from, wild>>

fclose(h) ==
  /\ reading.what = "idle" /\ IsOpen(h)
  /\ file' = [file EXCEPT ![h] = Closed]
  /\ moved' = moved \ {h}
  /\ UNCHANGED <<root, reading, from, wild>>

-----------------------------------------------------------------------------
(* Bytes.  Each operator returns the FILE after it.                        *)

\* file_entry_get and fgetc: the byte pushed back comes first.
Got(f) ==
  IF f.hold # EOF THEN f.hold
  ELSE IF f.at >= Len(root[f.entry].data) THEN EOF
  ELSE root[f.entry].data[f.at + 1]
fgetc(f) ==
  IF f.hold # EOF THEN [f EXCEPT !.hold = EOF]
  ELSE IF f.at >= Len(root[f.entry].data) THEN f
  ELSE [f EXCEPT !.at = @ + 1]
ungetc(f, c) == IF f.hold # EOF \/ c = EOF THEN f ELSE [f EXCEPT !.hold = c]

\* fread and fgets end at their count or at the end of the file, fgets also
\* behind a newline.
Take(f, n) ==
  LET m == Min({n, Len(Ahead(f))})
      back == IF f.hold # EOF /\ m > 0 THEN 1 ELSE 0
  IN  [bytes |-> SubSeq(Ahead(f), 1, m),
       file  |-> [f EXCEPT !.at = @ + m - back,
                           !.hold = IF m > 0 THEN EOF ELSE @]]
fread(f, n) == Take(f, n)
LineLength(f, n) ==
  Min({n, SelectInSeq(Ahead(f) \o <<NL>>, LAMBDA c : c = NL)})
fgets(f, n) == Take(f, LineLength(f, n))

\* file_entry_put, with file_entry_seek's offset.  The buffer grows once.
Grown(e, at) == IF at >= e.max THEN e.max + GROW ELSE e.max
Written(data, at, c) ==
  [i \in 1 .. Max({Len(data), at + 1}) |->
     IF i = at + 1 THEN c ELSE IF i <= Len(data) THEN data[i] ELSE "hole"]
file_entry_put(h, c) ==
  LET e   == root[file[h].entry]
      max == Grown(e, file[h].at)
  IN  /\ root' = [root EXCEPT ![file[h].entry] =
                    [e EXCEPT !.data = Written(@, file[h].at, c), !.max = max]]
      /\ wild' = (file[h].at >= max)
fputc(h, c) ==
  /\ reading.what = "idle" /\ IsOpen(h)
  /\ file[h].at < MaxSize /\ Len(FlattenSeq([i \in DOMAIN root |-> root[i].data])) < MaxBytes
  /\ file_entry_put(h, c)
  /\ file' = [file EXCEPT ![h].at = @ + 1]
  /\ moved' = moved \cup {g \in Handles : file[g].entry = file[h].entry /\ file[g].hold # EOF}
  /\ UNCHANGED <<reading, from>>

\* The offset is taken as it is, whatever whence says; the byte that was
\* pushed back stays.
fseek(h, offset) ==
  /\ reading.what = "idle" /\ IsOpen(h)
  /\ file' = [file EXCEPT ![h].at = offset]
  /\ moved' = IF file[h].hold = EOF THEN moved ELSE moved \cup {h}
  /\ UNCHANGED <<root, reading, from, wild>>

-----------------------------------------------------------------------------
(* Reading from Lua.  The end-of-file mark of a FILE is left out: g_read    *)
(* clears it, and only luaL_loadfile looks at it, on a FILE of its own.    *)

BeginRead(h, what, got) ==
  /\ reading.what = "idle" /\ IsOpen(h)
  /\ reading' = [what |-> what, h |-> h, got |-> got, over |-> FALSE]
  /\ from' = Ahead(file[h])

\* read(0): a byte is read and pushed back.
test_eof(h) ==
  LET f == file[h] IN
  /\ reading.what = "idle" /\ IsOpen(h)
  /\ file' = [file EXCEPT ![h] = ungetc(fgetc(f), Got(f))]
  /\ UNCHANGED <<root, moved, reading, from, wild>>

\* read(n) and read("*a"): fread by buffers until one is not filled.
read_chars(h, n) ==
  LET r == fread(file[h], n) IN
  /\ BeginRead(h, "chars", r.bytes)
  /\ file' = [file EXCEPT ![h] = r.file]
  /\ moved' = IF r.bytes = <<>> THEN moved ELSE moved \ {h}
  /\ UNCHANGED <<root, wild>>

\* luaL_loadfile, which opens the file itself: a first line that begins with
\* a hash is replaced by a newline.  ferror then reads a field that fopen has
\* left as malloc gave it, and the chunk is refused if it is not zero.
WithoutHashLine(all) ==
  IF all = <<>> \/ all[1] # HASH THEN all
  ELSE <<NL>> \o SubSeq(all, SelectInSeq(all \o <<NL>>, LAMBDA c : c = NL) + 1, Len(all))
luaL_loadfile(filename) ==
  /\ reading.what = "idle" /\ Slot(filename) # 0
  /\ from' = root[Slot(filename)].data
  /\ \/ reading' = [what |-> "loaded", h |-> 0, 
                     got |-> WithoutHashLine(from'), over |-> FALSE]
     \/ reading' = [what |-> "failed", h |-> 0, got |-> <<>>, over |-> FALSE]
  /\ UNCHANGED <<root, file, moved, wild>>

read_line(h) ==
  /\ BeginRead(h, "line", <<>>)
  /\ UNCHANGED <<root, file, moved, wild>>

\* Whether fgets returns NULL: not on an open file, whatever it has read.
fgetsNULL_AtEnd(r) == r.bytes = <<>>
fgetsNULL(r) == FALSE
\* One turn of the loop.  strlen stops at a NUL in the line.
CString(bytes) ==
  SubSeq(bytes, 1, SelectInSeq(bytes \o <<"nul">>, LAMBDA c : c = "nul") - 1)
Complete(p) == p # <<>> /\ p[Len(p)] = NL
ReadLineStep ==
  /\ reading.what = "line"
  /\ \E r \in {fgets(file[reading.h], LUAL_BUFFERSIZE)} :
     \E p \in {CString(r.bytes)} :
       /\ file' = [file EXCEPT ![reading.h] = r.file]
       /\ reading' = [reading EXCEPT
            !.what = IF Complete(p) \/ fgetsNULL(r) THEN "returned" ELSE @,
            !.got  = @ \o IF Complete(p) THEN Front(p) ELSE p,
            !.over = @ \/ Len(r.bytes) = LUAL_BUFFERSIZE]
  /\ moved' = moved \ {reading.h}
  /\ UNCHANGED <<root, from, wild>>

\* The caller takes the result.
Return ==
  /\ reading.what \notin {"idle", "line"}
  /\ reading' = Idle /\ from' = <<>>
  /\ UNCHANGED <<root, file, moved, wild>>

-----------------------------------------------------------------------------
VfsInit ==
  /\ root = <<>>
  /\ file = [h \in Handles |-> Closed]
  /\ reading = Idle /\ from = <<>>
  /\ moved = {} /\ wild = FALSE

VfsNext ==
  /\ ~wild
  /\ \/ \E h \in Handles :
          \/ \E n \in FileNames : fopen(h, n, "r") \/ fopen(h, n, "w")
          \/ fclose(h)
          \/ \E c \in DataBytes : fputc(h, c)
          \/ \E o \in Offsets : fseek(h, o)
          \/ test_eof(h) \/ read_chars(h, 1) \/ read_chars(h, MaxSize + 2) \/ read_line(h)
     \/ \E n \in FileNames : luaL_loadfile(n)
     \/ ReadLineStep
     \/ Return

\* read_line runs on: getting from a file never waits.
VfsSpec == VfsInit /\ [][VfsNext]_vfsVars /\ WF_vfsVars(ReadLineStep)

-----------------------------------------------------------------------------
(* What programs get.                                                      *)

\* A file never hides behind a name that leads to another: no name in root is
\* the beginning of an earlier one, and a handle keeps leading to the file
\* that its name leads to now, however many files are made later.  The data
\* of a file stays inside its buffer unless a seek went one growth or more
\* from its start.  A byte that was pushed back is the one in front of the offset,
\* unless the handle was sought or the file was put to in between: then the
\* next read returns a byte that is not there.
FilesConsistent ==
  /\ \A i, j \in DOMAIN root : i < j => ~IsPrefix(root[j].name, root[i].name)
  /\ \A h \in Handles : IsOpen(h) => file[h].entry = Slot(file[h].name)
  /\ ~wild => \A i \in DOMAIN root : Len(root[i].data) <= root[i].max
  /\ wild => \E h \in Handles : \E o \in Offsets : file[h].at = o + 1 /\ o >= GROW
  /\ \A h \in Handles \ moved :
       file[h].hold # EOF => file[h].at > 0 /\ Data(h)[file[h].at] = file[h].hold

\* What read_line makes of the bytes in front of it.  fgets hands them over in
\* chunks that end behind a newline or a full buffer; of each chunk, a NUL and
\* what follows it is lost, a newline too.
ChunkStart(i) ==
  LET nl == Max({0} \cup {j \in 1 .. i - 1 : from[j] = NL})
  IN  nl + 1 + ((i - nl - 1) \div LUAL_BUFFERSIZE) * LUAL_BUFFERSIZE
Kept(i) == \A j \in ChunkStart(i) .. i : from[j] # "nul"
LineEnds == {i \in DOMAIN from : from[i] = NL /\ Kept(i)}
KeptUpTo(n) == [k \in 1 .. Cardinality({i \in 1 .. n : Kept(i)}) |->
                  from[CHOOSE i \in 1 .. n :
                         Kept(i) /\ Cardinality({j \in 1 .. i : Kept(j)}) = k]]
AtEnd == reading.what = "line" /\ Ahead(file[reading.h]) = <<>>

\* A line is returned up to the first newline with no NUL in front of it in
\* its chunk, less what was lost; a chunk as long as the buffer has had its
\* terminator stored behind the buffer.
LinesRead ==
  /\ reading.what = "returned" =>
       /\ LineEnds # {} /\ reading.got = KeptUpTo(Min(LineEnds) - 1)
       /\ reading.over <=> \E i \in 1 .. Min(LineEnds) :
                               i - ChunkStart(i) = LUAL_BUFFERSIZE - 1
  /\ AtEnd => LineEnds = {} /\ reading.got = KeptUpTo(Len(from))

\* Both, at every moment of a program's calls.
FilesTrue == FilesConsistent /\ LinesRead

\* At the end of a file nothing changes any more.
StaysAtEnd == [](AtEnd => []AtEnd)

\* read_line returns if there is such a newline ahead, and never if there is
\* none: a program that reads a file line by line never gets past its end.
LineOrNever ==
  /\ (reading.what = "line" /\ LineEnds # {}) ~> (reading.what = "returned")
  /\ StaysAtEnd
=============================================================================
