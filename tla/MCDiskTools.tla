------------------------------ MODULE MCDiskTools ------------------------------
(***************************************************************************)
(* Dumps of up to nineteen sectors of three slots and one slot of padding: *)
(* boot directories at sector 16, 0 and beyond the file, with and without  *)
(* a terminator, and chains of archives through the same sectors.          *)
(***************************************************************************)
EXTENDS DiskTools, SequencesExt

Name(s)    == Slot(s, 0, 0, 0)
To(s, k)   == Slot(s, 0, 0, k)
End        == Name("848d")
Pad        == Name("ff")
Empty      == <<Zeros, Zeros, Zeros, Pad>>
Bad        == <<Zeros, Zeros, Zeros, Zeros>>

(* The word that leads to a start sector under a seed.                     *)
Encrypted(start, seed) ==
  LET code == Boot!Value(DiskCode(seed))
      AX == Boot!Xor(15537, (start \div 16 + 65536 - code) % 65536)
  IN Boot!Xor(AX, (AX % 256) * 256)

Heading(start, seed) == <<Slot("", Encrypted(start, seed), seed, 0), Zeros, Zeros, Pad>>

Fill(k) == [j \in 1 .. k |-> Empty]
Dump(blocks) == FlattenSeq(blocks)

AtSixteen(seed, blocks) == Dump(Fill(14) \o <<Heading(16, seed), Bad>> \o blocks)

Plain == << <<Name("VOL"), To("A", 18), Name("B"), Pad>>,
            <<Name("C"), To("D", 0), End, Pad>>,
            <<Name("E"), To("F", 17), Name("G"), Pad>> >>
Untitled == << <<Zeros, To("A", 17), Name("B"), Pad>>,
               <<Name("C"), To("D", 16), Name("E"), Pad>>,
               <<End, To("F", 65535), Name("G"), Pad>> >>
Unended == << <<Name("VOL"), To("A", 5), Name("B"), Pad>>,
              <<Zeros, To("D", 300), Name("E"), Pad>>,
              <<Name("E"), To("F", 17), Name("G")>> >>
Unmarked == << <<Name("VOL"), To("A", 18), Name("B"), Name("C")>>,
               <<Name("D"), Name("E"), Name("F"), Pad>>,
               <<End, To("F", 65535), Name("G"), Pad>> >>
Short(k) == << <<Name("VOL"), To("A", 17), Name("B"), Pad>>,
               SubSeq(<<Name("C"), To("D", 0)>>, 1, k) >>

MCDumps ==
  { AtSixteen(0, Plain), AtSixteen(51966, Untitled), AtSixteen(7, Unended),
    AtSixteen(65535, Unmarked),
    AtSixteen(2, Short(1)), AtSixteen(3, << <<Name("V"), Name("W")>> >>),
    Dump(<< <<Name("VOL"), To("A", 2), Name("B"), Pad>>,
            <<Name("C"), To("D", 0), Name("X"), Pad>>,
            <<Name("D"), To("D", 1), End, Pad>> >>
         \o Fill(11) \o <<Heading(0, 12345)>>),
    Dump(Fill(14) \o <<Heading(4096, 9)>>),
    Dump(Fill(3)) }
=============================================================================
