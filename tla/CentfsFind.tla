----------------------------- MODULE CentfsFind -----------------------------
(***************************************************************************)
(* `centfs-extract IMAGE list|extract PATTERN': centfs_dir_find searches   *)
(* a directory, descends into the libraries that the first part of the     *)
(* pattern names, and lists or extracts every file that the last part      *)
(* names.  It shares the device and the list walk with CentfsWalk.         *)
(*                                                                         *)
(* A pattern is a sequence of parts (dots separate them), a part the set   *)
(* of names it matches.                                                    *)
(***************************************************************************)
EXTENDS CentfsWalk, SequencesExt

CONSTANTS
  Header,        \* Header[s]: alist_sector_start in the first record of s
  Dirents,       \* Dirents[s][k]: directory record k of sector s
  NoName,        \* the name of a record that starts with a zero byte
  BaseDir,       \* base_dir_sector
  Patterns,      \* the patterns the user may give
  IdxModulus,    \* file_idx is a uint16_t: 65536; smaller on small disks
  StackIncrements, \* filesize_increment, when its sector was not read
  NoSector,      \* (uint32_t)-1, which lies beyond every image
  Commands,      \* callbacks with their option -a: [callback, all]
  Volume         \* Volume[b]: the files of the directory at sector b, in order

FileTypes == {"DIR", "LIB", "FILE"}

ASSUME FindAssumption ==
  /\ DOMAIN Header \subseteq Sectors
  /\ \A s \in DOMAIN Header : Header[s] \in Nat
  /\ DOMAIN Dirents \subseteq Sectors
  /\ \A s \in DOMAIN Dirents : \A k \in 0 .. DirentsPerSector - 1 :
       /\ Dirents[s][k].type \in FileTypes
       /\ Dirents[s][k].entry \in Byte
       /\ Dirents[s][k].offset \in Word
  /\ BaseDir \in Nat
  /\ Patterns \subseteq Seq(SUBSET STRING) \ {<<>>}
  /\ StackIncrements \subseteq 0 .. 30     \* bound: C defines no larger shift
  /\ IdxModulus \in 2 .. WordMax + 1
  /\ NoSector \in Nat \ Sectors
  /\ \A c \in Commands :
       c.callback \in {"list", "index", "extract"} /\ c.all \in BOOLEAN

(* Record i of the directory at sector b.                                  *)
RecordSector(b, i) == b + i \div DirentsPerSector
RecordAt(b, i)     == Dirents[RecordSector(b, i)][i % DirentsPerSector]

(* Where the second of the two attribute entries of record r of directory  *)
(* dir is, and its file as the walk sees it: the extents follow.           *)
Attributes(dir, r) ==
  [sector |-> r.offset + (IF dir.alist # 0 THEN dir.alist ELSE dir.base),
   slot   |-> r.entry + 1]
FileOf(dir, r, size) ==
  [base |-> dir.base, absolute |-> dir.alist # 0,
   start |-> FollowingSlot(Attributes(dir, r)), blk |-> size]

(***************************************************************************)
(* A well-formed volume, said of the bytes on the disk.  A file has its    *)
(* extents, of so many sectors each, and the places of its list entries in *)
(* order, the end last, with the extents that stand ahead of each.         *)
(***************************************************************************)
VolumeFile ==
  [name : STRING, type : FileTypes, size : Nat \ {0}, extents : Seq(Nat),
   chain : Seq([at : Position, ahead : Nat])]

Directory(b) == [base |-> b, alist |-> Header[b]]
AttrAt(b, i) == Attributes(Directory(b), RecordAt(b, i))
FileAt(b, i) == FileOf(Directory(b), RecordAt(b, i), Volume[b][i].size)

Chained(f, file) ==
  /\ f.chain # <<>>
  /\ f.chain[1] = [at |-> file.start, ahead |-> 0]
  /\ f.chain[Len(f.chain)].ahead = Len(f.extents)
  /\ \A j \in DOMAIN f.chain :
       LET here  == f.chain[j]
           entry == AList[here.at.sector][here.at.slot]
       IN /\ OnList(here.at)
          /\ here.ahead <= Len(f.extents)
          /\ IsEnd(entry) <=> j = Len(f.chain)
          /\ IsPointer(entry) /\ ~IsEnd(entry) =>
               f.chain[j + 1] = [at |-> LinkTarget(file, entry), ahead |-> here.ahead]
          /\ ~IsPointer(entry) =>
               /\ f.chain[j + 1] = [at |-> FollowingSlot(here.at), ahead |-> here.ahead + 1]
               /\ f.extents[here.ahead + 1] = Extent(file, entry)

(* Record i of directory b describes its i-th file; a library, if it has   *)
(* an extent, is the directory that begins there.                          *)
Described(b, i) ==
  LET f == Volume[b][i]
  IN /\ RecordSector(b, i) \in DOMAIN Dirents
     /\ RecordAt(b, i).name = f.name /\ f.name # NoName
     /\ RecordAt(b, i).type = f.type
     /\ OnList(AttrAt(b, i))
     /\ f.size = 2 ^ AList[AttrAt(b, i).sector][AttrAt(b, i).slot][2]
     /\ Chained(f, FileAt(b, i))
     /\ f.type = "LIB" /\ f.extents # <<>> => f.extents[1] \in DOMAIN Volume

(* A record without a name follows the last file, or none does because the *)
(* index has come round.                                                   *)
ASSUME VolumeAssumption ==
  /\ BaseDir \in DOMAIN Volume
  /\ DOMAIN Volume \subseteq DOMAIN Header
  /\ \A b \in DOMAIN Volume :
       /\ Volume[b] \in Seq(VolumeFile)
       /\ \A i \in DOMAIN Volume[b] : Described(b, i)
       /\ \/ Len(Volume[b]) + 1 = IdxModulus
          \/ /\ Len(Volume[b]) + 1 < IdxModulus
             /\ RecordSector(b, Len(Volume[b]) + 1) \in DOMAIN Dirents
             /\ RecordAt(b, Len(Volume[b]) + 1).name = NoName

(***************************************************************************)
(* What a command should find, whatever the layout.                        *)
(***************************************************************************)
Pieces(f) == [k \in DOMAIN f.extents |-> [j \in 1 .. f.size |-> f.extents[k] + j - 1]]

Shown(c, f) == f.type = "DIR" => c.callback # "extract" /\ c.all

Result(c, f) ==
  [name |-> f.name, blocks |-> CASE c.callback = "list"    -> <<>>
                                 [] c.callback = "index"   -> f.extents
                                 [] c.callback = "extract" -> FlattenSeq(Pieces(f))]

(* The last part of the pattern asks for a file, any other for what the    *)
(* parts behind it find in a library.                                      *)
OfFile(c, f, part) ==
  IF f.name \in part /\ Shown(c, f) THEN <<Result(c, f)>> ELSE <<>>
OfLibrary(f, part, found) ==
  IF f.name \in part /\ f.type = "LIB" /\ f.extents # <<>> THEN found[f.extents[1]] ELSE <<>>

(* What the parts of p from the k-th on find in each directory.            *)
Found(c, p) ==
  LET find[k \in 1 .. Len(p)] ==
        [b \in DOMAIN Volume |->
           FlattenSeq([i \in DOMAIN Volume[b] |->
             IF k = Len(p) THEN OfFile(c, Volume[b][i], p[k])
                           ELSE OfLibrary(Volume[b][i], p[k], find[k + 1])])]
  IN find[1][BaseDir]

Expected == [c \in Commands |-> [p \in Patterns |-> Found(c, p)]]

VARIABLES
  command,       \* what the user asked for
  dirs,          \* the calls of centfs_dir_find in progress, innermost last
  rec,           \* dirent->file
  cur,           \* the file that rec describes, as the walk sees it
  written        \* the files found so far, with the blocks written

findVars == <<walkVars, command, dirs, rec, cur, written>>

Command == command.callback      \* "list", "index" (list -i) or "extract"

Here == dirs[Len(dirs)]
Frame(base, pattern) ==
  [base |-> base, alist |-> 0, idx |-> 0, pattern |-> pattern]

FindInit ==
  /\ command \in Commands
  /\ \E p \in Patterns : dirs = <<Frame(BaseDir, p)>>
  /\ pc = "header"
  /\ rec = [name |-> NoName, type |-> "FILE", entry |-> 0, offset |-> 0]
  /\ cur = [base |-> 0, absolute |-> FALSE,
            start |-> [sector |-> 0, slot |-> 0], blk |-> 1]
  /\ WalkInit(cur)
  /\ written = <<>>

(* The loop of centfs_dir_find goes on to the next record, in the          *)
(* directories ds.                                                         *)
NextRecord(ds) ==
  /\ dirs' = [ds EXCEPT ![Len(ds)].idx = (@ + 1) % IdxModulus]
  /\ pc' = "dirent"

(* It returns.  The caller, if it is another centfs_dir_find, ignores the  *)
(* result and goes on as well.                                             *)
Return ==
  IF Len(dirs) > 1
  THEN NextRecord(SubSeq(dirs, 1, Len(dirs) - 1))
  ELSE pc' = "exit" /\ UNCHANGED dirs

ReadHeader ==
  /\ pc = "header"
  /\ \E ok \in BOOLEAN :
       /\ ReadSector(Here.base, ok)
       /\ ok => Here.base \in DOMAIN Header
       /\ IF ok
          THEN /\ dirs' = [dirs EXCEPT ![Len(dirs)].alist = Header[Here.base],
                                       ![Len(dirs)].idx = 1]
               /\ pc' = "dirent"
          ELSE Return
  /\ UNCHANGED <<next, num, last, out, rec, cur, written>>

ReadDirentUnchecked ==          \* the result of read_sector not looked at
  /\ pc = "dirent"
  /\ LET s == RecordSector(Here.base, Here.idx)
         r == RecordAt(Here.base, Here.idx)
     IN \E ok \in BOOLEAN :
          /\ ReadSector(s, ok)
          /\ ok => s \in DOMAIN Dirents
          /\ IF ok
             THEN IF r.name # NoName
                  THEN rec' = r /\ pc' = "attr" /\ UNCHANGED dirs
                  ELSE Return /\ UNCHANGED rec
             ELSE pc' = "attr" /\ UNCHANGED <<rec, dirs>>
  /\ UNCHANGED <<next, num, last, out, cur, written>>

(* The first half of centfs_read_dirent_file.                              *)
ReadDirent ==
  /\ pc = "dirent"
  /\ LET s == RecordSector(Here.base, Here.idx)
         r == RecordAt(Here.base, Here.idx)
     IN \E ok \in BOOLEAN :
          /\ ReadSector(s, ok)
          /\ ok => s \in DOMAIN Dirents
          /\ IF ok /\ r.name # NoName
             THEN rec' = r /\ pc' = "attr" /\ UNCHANGED dirs
             ELSE Return /\ UNCHANGED rec
  /\ UNCHANGED <<next, num, last, out, cur, written>>

(* The second half, with centfs_read_alist_attr: nobody looks whether the  *)
(* attributes were read.  filesize_increment is the middle byte of the     *)
(* second of their two slots; the extents of the file follow them.         *)
ReadAttr ==
  /\ pc = "attr"
  /\ LET p == Attributes(Here, rec)
     IN \E ok \in BOOLEAN :
          /\ ReadSector(p.sector, ok)
          /\ \E i \in IF ok /\ OnList(p) THEN {AList[p.sector][p.slot][2]} ELSE StackIncrements :
               cur' = FileOf(Here, rec, 2 ^ i)
  /\ pc' = "match"
  /\ UNCHANGED <<next, num, last, out, dirs, rec, written>>

(* The body of the loop: a library is entered when more of the pattern is  *)
(* left, any file goes to the callback when nothing is.  The callbacks     *)
(* pass over directory files, unless they are told to list all.  An index  *)
(* that has wrapped to zero ends the search.                               *)
Matches == rec.name \in Head(Here.pattern)
HiddenNever == FALSE            \* directory files taken for files
Hidden == rec.type = "DIR" /\ ~(Command # "extract" /\ command.all)

SkipRecord ==
  /\ pc = "match"
  /\ Here.idx # 0
  /\ \/ ~Matches
     \/ Len(Here.pattern) > 1 /\ rec.type # "LIB"
     \/ Len(Here.pattern) = 1 /\ Hidden
  /\ NextRecord(dirs)
  /\ UNCHANGED <<dev, next, num, last, out, rec, cur, written>>

FoundLibrary ==
  /\ pc = "match"
  /\ Here.idx # 0
  /\ Matches /\ Len(Here.pattern) > 1 /\ rec.type = "LIB"
  /\ pc' = "library"
  /\ next' = cur.start
  /\ UNCHANGED <<dev, num, last, out, dirs, rec, cur, written>>

FoundFile ==
  /\ pc = "match"
  /\ Here.idx # 0
  /\ Matches /\ Len(Here.pattern) = 1 /\ ~Hidden
  /\ CASE Command # "list" ->
            /\ pc' = "dalent"
            /\ next' = cur.start
            /\ UNCHANGED <<dirs, written>>
       [] Command = "list" ->
            /\ written' = Append(written, [name |-> rec.name, blocks |-> <<>>])
            /\ NextRecord(dirs)
            /\ UNCHANGED next
  /\ UNCHANGED <<dev, num, last, out, rec, cur>>

IndexWrappedGoesOn ==           \* index zero taken for a file like any other
  /\ pc = "match"
  /\ Here.idx = 0
  /\ NextRecord(dirs)
  /\ UNCHANGED <<dev, next, num, last, out, rec, cur, written>>

IndexWrapped ==
  /\ pc = "match"
  /\ Here.idx = 0
  /\ Return
  /\ UNCHANGED <<dev, next, num, last, out, rec, cur, written>>

EnterLibraryWholePattern ==     \* the pattern handed down unsplit
  /\ pc = "library"
  /\ \E e \in FetchedEntries :
       /\ FetchEntry(e)
       /\ IF IsPointer(e) /\ ~IsEnd(e)
          THEN next' = LinkTarget(cur, e) /\ UNCHANGED <<dirs, pc>>
          ELSE /\ dirs' = Append(dirs, Frame(IF IsEnd(e) THEN NoSector ELSE Extent(cur, e),
                                             Here.pattern))
               /\ pc' = "header"
               /\ UNCHANGED next
  /\ UNCHANGED <<num, last, out, rec, cur, written>>

(* A library is its first extent.  Without one, the result -1 becomes its  *)
(* sector number all the same.                                             *)
EnterLibrary ==
  /\ pc = "library"
  /\ \E e \in FetchedEntries :
       /\ FetchEntry(e)
       /\ IF IsPointer(e) /\ ~IsEnd(e)
          THEN next' = LinkTarget(cur, e) /\ UNCHANGED <<dirs, pc>>
          ELSE /\ dirs' = Append(dirs, Frame(IF IsEnd(e) THEN NoSector ELSE Extent(cur, e),
                                             Tail(Here.pattern)))
               /\ pc' = "header"
               /\ UNCHANGED next
  /\ UNCHANGED <<num, last, out, rec, cur, written>>

(* Walking the list of the file: the actions of CentfsWalk.  The callback  *)
(* of extract copies every extent; that of list -i (centfs_print_alist_dal) *)
(* prints where it starts, and goes on to the next entry.                  *)
Walk ==
  /\ FollowLink(cur) \/ (Command = "extract" /\ TakeExtent(cur)) \/ EndOfList \/ CopyBlock
  /\ UNCHANGED <<dirs, rec, cur, written>>

PrintExtent ==
  /\ pc = "dalent" /\ Command = "index"
  /\ dev = "OPEN" \/ Len(out) < MaxJunk
  /\ \E e \in FetchedEntries :
       /\ FetchEntry(e)
       /\ ~IsPointer(e)
       /\ out' = Append(out, Extent(cur, e))
  /\ next' = FollowingSlot(next)
  /\ UNCHANGED <<pc, num, last, dirs, rec, cur, written>>

FileDone ==
  /\ pc = "walked"
  /\ written' = Append(written, [name |-> rec.name, blocks |-> out])
  /\ out' = <<>>
  /\ NextRecord(dirs)
  /\ UNCHANGED <<dev, next, num, last, rec, cur>>

FindCrash == Crash /\ UNCHANGED <<dirs, rec, cur, written>>

FindTerminated == pc \in {"exit", "crashed"} /\ UNCHANGED findVars

FindStep ==
  /\ \/ ReadHeader \/ ReadDirent \/ ReadAttr
     \/ SkipRecord \/ FoundLibrary \/ FoundFile \/ IndexWrapped \/ EnterLibrary
     \/ Walk \/ PrintExtent \/ FileDone \/ FindCrash
  /\ UNCHANGED command

FindNext == FindStep \/ FindTerminated

FindSpec == FindInit /\ [][FindNext]_findVars /\ WF_findVars(FindStep)

(***************************************************************************)
(* Properties.                                                             *)
(***************************************************************************)
Asked == Expected[command][dirs[1].pattern]

(* While the device works, centfs_dir_find has found what the pattern      *)
(* asks for so far, in the order of the directories, each file once and    *)
(* with its own blocks, and all of it when the program ends.               *)
SearchIsExact ==
  dev = "OPEN" =>
    /\ IsPrefix(written, Asked)
    /\ pc \in {"dalent", "block", "walked"} =>
         /\ Len(written) < Len(Asked)
         /\ rec.name = Asked[Len(written) + 1].name
         /\ IsPrefix(out, Asked[Len(written) + 1].blocks)
    /\ pc = "exit" => written = Asked

(* A device that fails spoils at most the file being extracted: although   *)
(* most reads go unchecked and the loops of all the callers go on, every   *)
(* file before it is whole and none is invented after it.                  *)
DamageIsLast ==
  /\ Len(written) <= Len(Asked)
  /\ \A n \in 1 .. Len(written) : written[n].name = Asked[n].name
  /\ \A n \in 1 .. Len(written) - 1 : written[n] = Asked[n]

(* The recursion follows the pattern: one part is used up by each library  *)
(* entered, so that there is always a part left to match.                  *)
DepthFollowsPattern ==
  \A d \in DOMAIN dirs : Len(dirs[d].pattern) = Len(dirs[1].pattern) - d + 1
                        /\ dirs[d].pattern # <<>>

(* The search of well-formed directories ends, or the device fails.        *)
SearchSettles == <>(pc = "exit" \/ dev # "OPEN")
=============================================================================
