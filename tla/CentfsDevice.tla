---------------------------- MODULE CentfsDevice ----------------------------
(***************************************************************************)
(* A disk image opened by centfs_image_device_init, and the one operation  *)
(* the tool performs on it afterwards, centfs_image_read_sector.           *)
(*                                                                         *)
(* The FILE handle is open exactly while dev = "OPEN": every failing path  *)
(* of read_sector closes it and records IOERROR, and nothing reopens it.   *)
(* A caller that goes on reading uses a closed FILE, which the C library   *)
(* leaves undefined: here the call fails again, or the process dies (the   *)
(* second outcome is the Crash action of the modules that read).           *)
(***************************************************************************)
CONSTANT Sectors        \* the sector numbers that lie inside the image file

VARIABLE dev            \* dev->state

DeviceStates == {"OPEN", "IOERROR"}

(* One call of read_sector.  It succeeds only on an open handle and inside *)
(* the image; an I/O error may strike anywhere.  A sector whose dump flags *)
(* it as bad also counts as read: only sec->state tells, and no caller     *)
(* looks at it.                                                            *)
ReadSector(n, ok) ==
  /\ ok => dev = "OPEN" /\ n \in Sectors
  /\ dev' = IF ok THEN dev ELSE "IOERROR"
=============================================================================
