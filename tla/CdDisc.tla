------------------------------- MODULE CdDisc -------------------------------
(***************************************************************************)
(* What the sector cache promises its one client: a disc that answers a    *)
(* read, some time later, with what is on it.  No thread, no cache.        *)
(***************************************************************************)
EXTENDS Integers

CONSTANTS Tracks,   \* sequence of [start, end], in sectors
          Sectors   \* the sectors the client may ask for

VARIABLES want,     \* the sector being read, or NoRead
          result    \* the answer to the last read

vars == <<want, result>>

NoRead  == -1
NoData  == [kind |-> "none"]      \* beyond the last track
Pregap  == [kind |-> "zeros"]     \* before a track's first sector

\* The first track that ends at or after the sector, and the sector's place
\* in that track's file.
ValidSector(s) == \E t \in DOMAIN Tracks : Tracks[t].end >= s
TrackOf(s) == CHOOSE t \in DOMAIN Tracks :
                 /\ Tracks[t].end >= s
                 /\ \A u \in DOMAIN Tracks : Tracks[u].end >= s => t <= u
Data(s) == IF ~ValidSector(s) THEN NoData
           ELSE IF s < Tracks[TrackOf(s)].start THEN Pregap
           ELSE [kind |-> "data", track |-> TrackOf(s),
                 sector |-> s - Tracks[TrackOf(s)].start]

Init == want = NoRead /\ result = NoData

Ask(s) ==
    /\ want = NoRead
    /\ want' = s
    /\ UNCHANGED result

Reply ==
    /\ want # NoRead
    /\ want' = NoRead
    /\ result' = Data(want)

\* A sector that is already in memory is answered at once.
AskAndReply(s) ==
    /\ want = NoRead
    /\ result' = Data(s)
    /\ UNCHANGED want

Next == \/ \E s \in Sectors : Ask(s) \/ AskAndReply(s)
        \/ Reply

Spec == Init /\ [][Next]_vars
=============================================================================
