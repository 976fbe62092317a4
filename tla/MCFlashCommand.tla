--------------------------- MODULE MCFlashCommand ---------------------------
(* A chip of 8 pages.  Page 7 is the boot page and guarded like page 7F, page 3 *)
(* is guarded like page 3F.                                                    *)
EXTENDS FlashCommand

\* Half 7 lies inside the first sector, so that an erase there runs into the
\* boot page, halves 14 and 15.
MCCells == { [half |-> 0, low |-> "AAA"], [half |-> 7, low |-> "other"],
             [half |-> 14, low |-> "other"] }

\* Every tracked byte, and the other command address.
MCTargets == MCCells \cup { [half |-> 0, low |-> "555"], [half |-> 9, low |-> "AAA"] }

\* Two bits of each command byte are enough to tell programming from erasing.
MCData == {"AA", "55", "A0", "80", "20", "90", "10", "30", "F0"}
MCOnes == [d \in MCData |-> CASE d \in {"AA", "A0", "80"} -> {7}
                             [] d \in {"55", "10", "30"} -> {4}
                             [] d = "20" -> {}
                             [] d \in {"90", "F0"} -> {4, 7}]
=============================================================================
