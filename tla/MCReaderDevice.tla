---------------------------- MODULE MCReaderDevice ----------------------------
(* Values for model checking ReaderDevice.                                   *)
EXTENDS ReaderDevice

CONSTANTS d1, d2, h1, h2, tag1, tag2

TwoDevices == {d1, d2}
TwoHandles == {h1, h2}
TwoTags == {tag1, tag2}

================================================================================
