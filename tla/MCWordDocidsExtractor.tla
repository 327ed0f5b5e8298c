----------------------- MODULE MCWordDocidsExtractor -----------------------
(* Two documents, the first with fields 1 and 2, the second with field 1;  *)
(* fids 1 and 2 are 256 and 512 when their bytes are read in the wrong   *)
(* order. Exactness may flip between the old and the new settings, by     *)
(* field and by word.                                                      *)
EXTENDS WordDocidsExtractor

MCSlots == {<<1, 1>>, <<1, 2>>, <<2, 1>>}
MCWords == {1, 2}
MCTexts == {{}, {1}, {1, 2}}
MCExactFids == {{}, {2}}
MCExactWords == {{}, {2}}
==============================================================================
