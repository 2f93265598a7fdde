------------------------- MODULE MC_EDIDExtDisplayID -------------------------
(***************************************************************************)
(* The DisplayID format on every record of MC_DisplayIDRecords, and one    *)
(* CEA-861 record it must leave to the fallback.                          *)
(***************************************************************************)
EXTENDS EDIDExtDisplayID, MC_DisplayIDRecords

\* byteCount: the list's own length, the whole section (121), one more.
MCRecords ==
  UNION {{Record(bc, l, so, ro) : bc \in {Len(l), 121, 122}, so \in BOOLEAN, ro \in BOOLEAN} :
         l \in BlockLists}
  \cup {WithChecksum(<<\h02, \h03, \h04, \h00>> \o ZeroFill(123))}
=============================================================================
