----------------------------- MODULE CentfsWalk -----------------------------
(***************************************************************************)
(* Walking the allocation list of one file and copying the sectors its     *)
(* extents name to standard output: centfs_read_alist_dalent and           *)
(* centfs_dirent_read_file.  Every action is one call of read_sector and   *)
(* the code up to the next one.                                            *)
(*                                                                         *)
(* No caller looks at the result of read_sector here.  After a failed read *)
(* the list entry comes from an uninitialised stack buffer (any member of  *)
(* StackEntries), and the block written is whatever the block buffer holds *)
(* (Junk).  The same goes for an entry fetched beyond the end of its       *)
(* sector.                                                                 *)
(***************************************************************************)
EXTENDS CentfsFormat, CentfsDevice, Sequences

CONSTANTS
  AList,         \* AList[s][k]: entry k of the allocation-list sector s
  StackEntries,  \* what an uninitialised or overrun buffer may hold
  Junk,          \* the content of a block that was never read
  MaxJunk        \* bound: blocks written once the device has failed

ASSUME WalkAssumption ==
  /\ Sectors \subseteq Nat
  /\ DOMAIN AList \subseteq Sectors
  /\ \A s \in DOMAIN AList : AList[s] \in [0 .. SlotsPerSector - 1 -> Entry]
  /\ StackEntries \subseteq Entry
  /\ Junk \notin Nat
  /\ MaxJunk \in Nat

VARIABLES
  pc,            \* what comes next, mostly a call of read_sector
  next,          \* next_dalent: the list entry to fetch
  num,           \* fsec.number
  last,          \* the sector after the current extent
  out            \* the blocks written; a block is named by its sector

walkVars == <<dev, pc, next, num, last, out>>

File == [base : Nat, absolute : BOOLEAN, start : Position, blk : Nat \ {0}]

WalkTypeOK ==
  /\ dev \in DeviceStates
  /\ next \in Position
  /\ num \in Nat
  /\ last \in Nat
  /\ out \in Seq(Nat \union {Junk})

(* The first call finds next_dalent zeroed and starts at dal_ptr.          *)
WalkInit(f) ==
  /\ dev = "OPEN"
  /\ next = f.start
  /\ num = 0
  /\ last = 0
  /\ out = <<>>

(* Fetching the entry that next points at.                                 *)
OnList(p) == p.sector \in DOMAIN AList /\ p.slot < SlotsPerSector

FetchEntry(e) ==
  \E ok \in BOOLEAN :
    /\ ReadSector(next.sector, ok)
    /\ IF ok /\ OnList(next) THEN e = AList[next.sector][next.slot]
                             ELSE e \in StackEntries

FetchedEntries ==
  StackEntries \union (IF OnList(next) THEN {AList[next.sector][next.slot]} ELSE {})

(* Faulty variants, each a slip the code could contain; they stand before  *)
(* the definition they vary, and only show that the properties notice.     *)
FollowLinkUncast(f) ==          \* ~word without the cast to 16 bits
  /\ pc = "dalent"
  /\ \E e \in FetchedEntries :
       /\ FetchEntry(e)
       /\ IsPointer(e) /\ ~IsEnd(e)
       /\ next' = [sector |-> f.base - BE_WORD(e) - 1, slot |-> e[3]]
  /\ UNCHANGED <<pc, num, last, out>>

FollowLinkUnbased(f) ==         \* the base sector forgotten
  /\ pc = "dalent"
  /\ \E e \in FetchedEntries :
       /\ FetchEntry(e)
       /\ IsPointer(e) /\ ~IsEnd(e)
       /\ next' = LinkTarget([f EXCEPT !.base = 0], e)
  /\ UNCHANGED <<pc, num, last, out>>

FollowLinkInPlace(f) ==         \* the sector taken over, the slot not
  /\ pc = "dalent"
  /\ \E e \in FetchedEntries :
       /\ FetchEntry(e)
       /\ IsPointer(e) /\ ~IsEnd(e)
       /\ next' = [next EXCEPT !.sector = LinkTarget(f, e).sector]
  /\ UNCHANGED <<pc, num, last, out>>

FollowLink(f) ==
  /\ pc = "dalent"
  /\ \E e \in FetchedEntries :
       /\ FetchEntry(e)
       /\ IsPointer(e) /\ ~IsEnd(e)
       /\ next' = LinkTarget(f, e)
  /\ UNCHANGED <<pc, num, last, out>>

TakeExtent(f) ==
  /\ pc = "dalent"
  /\ \E e \in FetchedEntries :
       /\ FetchEntry(e)
       /\ ~IsPointer(e)
       /\ num' = Extent(f, e)
       /\ last' = Extent(f, e) + f.blk
  /\ next' = FollowingSlot(next)
  /\ pc' = "block"
  /\ UNCHANGED out

EndOfListAtPointer ==           \* any pointer taken for the end
  /\ pc = "dalent"
  /\ \E e \in FetchedEntries : FetchEntry(e) /\ IsPointer(e)
  /\ pc' = "walked"
  /\ UNCHANGED <<next, num, last, out>>

EndOfList ==
  /\ pc = "dalent"
  /\ \E e \in FetchedEntries : FetchEntry(e) /\ IsEnd(e)
  /\ pc' = "walked"
  /\ UNCHANGED <<next, num, last, out>>

CopyBlockPastEnd ==             \* <= for < in the inner loop
  /\ pc = "block"
  /\ dev = "OPEN" \/ Len(out) < MaxJunk
  /\ \E ok \in BOOLEAN :
       /\ ReadSector(num, ok)
       /\ out' = Append(out, IF ok THEN num ELSE Junk)
  /\ num' = num + 1
  /\ pc' = IF num + 1 <= last THEN "block" ELSE "dalent"
  /\ UNCHANGED <<next, last>>

(* One round of the inner loop: read a sector, write the buffer.           *)
CopyBlock ==
  /\ pc = "block"
  /\ dev = "OPEN" \/ Len(out) < MaxJunk
  /\ \E ok \in BOOLEAN :
       /\ ReadSector(num, ok)
       /\ out' = Append(out, IF ok THEN num ELSE Junk)
  /\ num' = num + 1
  /\ pc' = IF num + 1 < last THEN "block" ELSE "dalent"
  /\ UNCHANGED <<next, last>>

(* The other outcome of reading through a FILE that was closed.            *)
Crash ==
  /\ pc \notin {"walked", "match", "exit", "crashed"}
  /\ dev = "IOERROR"
  /\ pc' = "crashed"
  /\ UNCHANGED <<dev, next, num, last, out>>
=============================================================================
